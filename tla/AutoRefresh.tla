----------------------------- MODULE AutoRefresh -----------------------------
(***************************************************************************)
(* The refresh of OAuth credentials: the background loop with its heap,    *)
(* job channel and workers (auto_refresh_loop.go), the refresh itself,     *)
(* which a request that got a 401 may start as well (conductor_refresh.go),*)
(* and everything else that writes a credential meanwhile: results of      *)
(* requests, the management API and the service.                           *)
(*                                                                         *)
(* Every step below is one critical section of the manager's lock, of the  *)
(* loop's lock or of a credential's refresh lock.  queueReschedule fills   *)
(* dirty first and wakes after that; taken as one step it only loses wake- *)
(* ups that find nothing.  The loop handles the due and the dirty          *)
(* credentials in any order.  Executors are taken to be registered, and a  *)
(* credential to be of a kind that has a refresh lead.                     *)
(***************************************************************************)
EXTENDS Integers, Sequences, FiniteSets, FiniteSetsExt

CONSTANTS
    Credentials,        \* ids
    None,               \* no id, no record
    Workers,            \* the loop's workers
    Requests,           \* requests that may refresh after a 401
    Writers,            \* management and service goroutines
    JobCap,             \* capacity of the job channel, at least 64 in the code
    Period,             \* time from a refresh until the next one is due
    PendingBackoff,     \* refreshPendingBackoff
    FailureBackoff,     \* refreshFailureBackoff
    IneffectiveBackoff, \* refreshIneffectiveBackoff
    Kinds,              \* what writers do
    MaxTime,            \* bound: ticks of the clock
    MaxTokens,          \* bound: tokens issued
    MaxCalls            \* bound: requests with a 401, results, writes and stops

ASSUME RefreshAssumption ==
    /\ None \notin Credentials
    /\ IsFiniteSet(Credentials) /\ Cardinality(Credentials) <= MaxTokens
    /\ Workers \cap Requests = {}
    /\ JobCap \in Nat \ {0} /\ Period \in Nat \ {0}
    /\ {PendingBackoff, FailureBackoff, IneffectiveBackoff} \subseteq Nat \ {0}
    /\ Kinds \subseteq {"enable", "disable", "reload", "login", "remove"}
    /\ {MaxTime, MaxTokens, MaxCalls} \subseteq Nat

Never == -1
Time == 0 .. MaxTime
Instants == 0 .. MaxTime + Period + PendingBackoff + FailureBackoff + IneffectiveBackoff
Tokens == 1 .. MaxTokens
Refreshers == Workers \cup Requests

\* What of an Auth the refresh looks at: when the expiry or the age of the
\* token makes it due, NextRefreshAfter (0 is the zero time), and whether
\* LastError is a 401 (hasUnauthorizedAuthFailure).
Auths == [token : Tokens, due : Instants, after : Instants, denied : BOOLEAN,
          disabled : BOOLEAN]

VARIABLES
    clock,
    auths,      \* Manager.auths, None for an id that is not there
    tokens,     \* tokens issued so far
    loop,       \* step of the loop goroutine and of StartAutoRefresh
    running,    \* the manager's refreshLoop is set and not cancelled
    heap,       \* next check per id, Never for an id not in the heap
    dirty,
    wake,       \* the wake channel holds a token
    timer,      \* when the timer fires, Never when it is off
    now,        \* the loop's reading of the clock in this pass, 0 between two
    phase,      \* "handle" the due ids or "apply" the dirty ones
    todo,       \* the ids of this phase
    at,         \* the id being handled
    plan,       \* what to do with it: next check, Never to remove it
    entries,    \* what rebuild has read
    jobs,       \* the job channel
    ref,        \* refreshers: [pc, id, failed, auth]
    wr,         \* writers: [pc, id, kind, auth]
    calls,      \* requests with a 401, results, writes and stops so far
    forgotten,  \* history: healed by a result, or unscheduled by a late Remove
    spent,      \* history: tokens an effective refresh has used up
    restored    \* history: an old token was written back

clockVars == <<clock, tokens, calls>>
loopVars == <<loop, running, timer, now, phase, todo, at, plan, entries>>
queueVars == <<heap, dirty, wake>>
historyVars == <<forgotten, spent, restored>>
vars == <<clockVars, auths, loopVars, queueVars, jobs, ref, wr, historyVars>>

Idle == [pc |-> "idle", id |-> None, failed |-> 0, auth |-> None]
IdleWriter == [pc |-> "idle", id |-> None, kind |-> "none", auth |-> None]

TypeOK ==
    /\ clock \in Time
    /\ auths \in [Credentials -> Auths \cup {None}]
    /\ tokens \in 0 .. MaxTokens /\ calls \in 0 .. MaxCalls
    /\ loop \in {"off", "installed", "listed", "waiting", "next", "act", "mark",
                 "send", "stopped"}
    /\ running \in BOOLEAN
    /\ heap \in [Credentials -> Instants \cup {Never}]
    /\ dirty \subseteq Credentials /\ wake \in BOOLEAN
    /\ timer \in Nat \cup {Never}
    /\ now \in Time
    /\ phase \in {"handle", "apply"}
    /\ todo \subseteq Credentials
    /\ at \in Credentials \cup {None}
    /\ plan \in Instants \cup {Never}
    /\ entries \in [Credentials -> Instants \cup {Never}]
    /\ jobs \in Seq(Credentials) /\ Len(jobs) <= JobCap
    /\ ref \in [Refreshers -> [pc : {"idle", "lock", "call", "queue", "again", "exited"},
                               id : Credentials \cup {None}, failed : 0 .. MaxTokens,
                               auth : Auths \cup {None}]]
    /\ wr \in [Writers -> [pc : {"idle", "write", "queue", "unschedule"},
                           id : Credentials \cup {None}, kind : Kinds \cup {"none", "register"},
                           auth : Auths \cup {None}]]
    /\ {forgotten, restored} \subseteq SUBSET Credentials
    /\ spent \subseteq Tokens

\* Every credential is due: refreshes and logins lead to the other cases.
Init ==
    /\ clock = 0 /\ tokens = Cardinality(Credentials) /\ calls = 0
    /\ \E token \in [Credentials -> 1 .. tokens] :
          /\ \A c, d \in Credentials : token[c] = token[d] => c = d
          /\ auths = [c \in Credentials |->
                        [token |-> token[c], due |-> 0, after |-> 0,
                         denied |-> FALSE, disabled |-> FALSE]]
    /\ loop = "off" /\ running = FALSE
    /\ heap = [c \in Credentials |-> Never] /\ dirty = {} /\ wake = FALSE
    /\ timer = Never /\ now = 0 /\ phase = "apply" /\ todo = {} /\ at = None
    /\ plan = Never /\ entries = heap
    /\ jobs = <<>>
    /\ ref = [f \in Refreshers |-> Idle]
    /\ wr = [u \in Writers |-> IdleWriter]
    /\ forgotten = {} /\ restored = {} /\ spent = {}

-----------------------------------------------------------------------------
(* When a credential is due.                                               *)

Present(c) == auths[c] # None
Later(a, b) == IF a > b THEN a ELSE b

\* The ok of nextRefreshCheckAt: the credential has a next check at all.
Refreshable(a) == a # None /\ ~a.denied

\* nextRefreshCheckAt: NextRefreshAfter while it lies ahead, then the time
\* the token is due, and the present when that is over.
CheckAt(a, t) == IF a.after > t THEN a.after ELSE Later(a.due, t)

nextRefreshCheckAt(a, t) == IF Refreshable(a) THEN CheckAt(a, t) ELSE Never

shouldRefresh(a, t) == Refreshable(a) /\ a.after <= t /\ a.due <= t

-----------------------------------------------------------------------------
(* The queue of the loop.                                                  *)

\* queueRefreshReschedule and queueReschedule; without a loop nothing happens.
queueReschedule(c) ==
    IF running
    THEN dirty' = dirty \cup {c} /\ wake' = TRUE
    ELSE UNCHANGED <<dirty, wake>>

\* A late worker still talks to its own, cancelled loop.
queueOwnLoop(c) == dirty' = dirty \cup {c} /\ wake' = TRUE

\* upsert for a next check, remove for Never.
upsertOrRemove(c, next) ==
    /\ heap' = [heap EXCEPT ![c] = next]
    /\ forgotten' = IF next = Never THEN forgotten ELSE forgotten \ {c}

InHeap == {c \in Credentials : heap[c] # Never}

\* resetTimer: the wait is measured from the loop's reading of the clock.
resetTimer(h, t) ==
    LET nexts == {h[c] : c \in {d \in Credentials : h[d] # Never}}
    IN  timer' = IF nexts = {} THEN Never ELSE clock + Later(Min(nexts) - t, 0)

-----------------------------------------------------------------------------
(* StartAutoRefresh, StopAutoRefresh and the loop.                         *)

\* The new loop becomes the manager's loop ...
StartAutoRefresh ==
    /\ loop = "off"
    /\ loop' = "installed" /\ running' = TRUE
    /\ UNCHANGED <<clockVars, auths, timer, now, phase, todo, at, plan, entries,
                   queueVars, jobs, ref, wr, historyVars>>

\* ... rebuild reads all credentials under the manager's lock ...
RebuildRead ==
    /\ loop = "installed"
    /\ loop' = "listed"
    /\ entries' = [c \in Credentials |-> nextRefreshCheckAt(auths[c], clock)]
    /\ UNCHANGED <<clockVars, auths, running, timer, now, phase, todo, at, plan,
                   queueVars, jobs, ref, wr, historyVars>>

\* ... and fills the heap under the loop's; run sets the timer.
RebuildWrite ==
    /\ loop = "listed"
    /\ loop' = "waiting"
    /\ heap' = entries
    /\ entries' = [c \in Credentials |-> Never]
    /\ resetTimer(entries, clock)
    /\ forgotten' = {c \in forgotten : entries[c] = Never}
    /\ UNCHANGED <<clockVars, auths, running, now, phase, todo, at, plan, dirty, wake,
                   jobs, ref, wr, spent, restored>>

StopAutoRefresh ==
    /\ running /\ calls < MaxCalls
    /\ calls' = calls + 1
    /\ running' = FALSE
    /\ UNCHANGED <<clock, tokens, auths, loop, timer, now, phase, todo, at, plan, entries,
                   queueVars, jobs, ref, wr, historyVars>>

\* The loop sees the cancelled context, in its select or at the job channel.
LoopStops ==
    /\ ~running /\ loop \in {"waiting", "send"}
    /\ loop' = "stopped"
    /\ UNCHANGED <<clockVars, auths, running, timer, now, phase, todo, at, plan, entries,
                   queueVars, jobs, ref, wr, historyVars>>

\* The wake channel: applyDirty drains the dirty set.
LoopWakes ==
    /\ loop = "waiting" /\ wake
    /\ loop' = "next" /\ phase' = "apply"
    /\ now' = clock /\ wake' = FALSE
    /\ todo' = dirty /\ dirty' = {}
    /\ UNCHANGED <<clockVars, auths, running, timer, at, plan, entries, heap, jobs,
                   ref, wr, historyVars>>

\* The timer: popDue takes everything that is due out of the heap.
TimerFires ==
    /\ loop = "waiting" /\ timer # Never /\ timer <= clock
    /\ loop' = "next" /\ phase' = "handle"
    /\ now' = clock /\ timer' = Never
    /\ LET due == {c \in InHeap : heap[c] <= clock}
       IN  /\ todo' = due
           /\ heap' = [c \in Credentials |-> IF c \in due THEN Never ELSE heap[c]]
    /\ UNCHANGED <<clockVars, auths, running, at, plan, entries, dirty, wake, jobs,
                   ref, wr, historyVars>>

\* handleDueAuth looks at the credential under the manager's lock.
HandleDueAuth(c) ==
    /\ loop = "next" /\ phase = "handle" /\ c \in todo
    /\ todo' = todo \ {c}
    /\ IF Present(c)
       THEN /\ at' = c
            /\ IF shouldRefresh(auths[c], now)
               THEN loop' = "mark" /\ plan' = Never
               ELSE loop' = "act" /\ plan' = nextRefreshCheckAt(auths[c], now)
       ELSE UNCHANGED <<loop, at, plan>>
    /\ UNCHANGED <<clockVars, auths, running, timer, now, phase, entries, queueVars,
                   jobs, ref, wr, historyVars>>

\* Faulty variant: the credential is not rescheduled behind its backoff.
MarkWithoutReschedule ==
    /\ loop = "mark"
    /\ IF Present(at) /\ auths[at].after <= now
       THEN /\ loop' = "send" /\ plan' = Never
            /\ auths' = [auths EXCEPT ![at].after = now + PendingBackoff]
       ELSE /\ loop' = "act" /\ plan' = nextRefreshCheckAt(auths[at], now)
            /\ auths' = auths
    /\ UNCHANGED <<clockVars, running, timer, now, phase, todo, at, entries, queueVars,
                   jobs, ref, wr, historyVars>>

\* markRefreshPending, which looks again and reschedules.
MarkRefreshPending ==
    /\ loop = "mark"
    /\ IF Present(at) /\ auths[at].after <= now
       THEN /\ loop' = "send" /\ plan' = Never
            /\ auths' = [auths EXCEPT ![at].after = now + PendingBackoff]
            /\ queueReschedule(at)
       ELSE /\ loop' = "act" /\ plan' = nextRefreshCheckAt(auths[at], now)
            /\ UNCHANGED <<auths, dirty, wake>>
    /\ UNCHANGED <<clockVars, running, timer, now, phase, todo, at, entries, heap, jobs,
                   ref, wr, historyVars>>

\* The send on the bounded channel, which may block the loop.
SendJob ==
    /\ loop = "send" /\ Len(jobs) < JobCap
    /\ jobs' = Append(jobs, at)
    /\ loop' = "next" /\ at' = None
    /\ UNCHANGED <<clockVars, auths, running, timer, now, phase, todo, plan, entries,
                   queueVars, ref, wr, historyVars>>

\* After the due credentials the dirty ones.
DueDone ==
    /\ loop = "next" /\ phase = "handle" /\ todo = {}
    /\ phase' = "apply"
    /\ todo' = dirty /\ dirty' = {}
    /\ UNCHANGED <<clockVars, auths, loop, running, timer, now, at, plan, entries, heap,
                   wake, jobs, ref, wr, historyVars>>

\* applyDirty looks at one credential ...
ApplyDirty(c) ==
    /\ loop = "next" /\ phase = "apply" /\ c \in todo
    /\ todo' = todo \ {c}
    /\ at' = c /\ plan' = nextRefreshCheckAt(auths[c], now)
    /\ loop' = "act"
    /\ UNCHANGED <<clockVars, auths, running, timer, now, phase, entries, queueVars,
                   jobs, ref, wr, historyVars>>

\* ... and both phases write what they found into the heap.
Act ==
    /\ loop = "act"
    /\ upsertOrRemove(at, plan)
    /\ loop' = "next" /\ at' = None /\ plan' = Never
    /\ UNCHANGED <<clockVars, auths, running, timer, now, phase, todo, entries, dirty,
                   wake, jobs, ref, wr, spent, restored>>

DirtyDone ==
    /\ loop = "next" /\ phase = "apply" /\ todo = {}
    /\ loop' = "waiting" /\ now' = 0
    /\ resetTimer(heap, now)
    /\ UNCHANGED <<clockVars, auths, running, phase, todo, at, plan, entries,
                   queueVars, jobs, ref, wr, historyVars>>

-----------------------------------------------------------------------------
(* refreshAuthForRequest, for a worker and for a request that got a 401.   *)

Holds(f, c) == ref[f].id = c /\ ref[f].pc \in {"call", "queue"}

\* The refresher returns; a worker has yet to reschedule the id.
Ended(f) ==
    ref' = [ref EXCEPT ![f] = IF f \in Workers
                              THEN [Idle EXCEPT !.pc = "again", !.id = ref[f].id]
                              ELSE Idle]

TakeJob(w) ==
    /\ ref[w].pc = "idle" /\ jobs # <<>>
    /\ ref' = [ref EXCEPT ![w] = [Idle EXCEPT !.pc = "lock", !.id = Head(jobs)]]
    /\ jobs' = Tail(jobs)
    /\ UNCHANGED <<clockVars, auths, loopVars, queueVars, wr, historyVars>>

\* A request has picked the credential, and its token is rejected later.
RequestUnauthorized(q, c) ==
    /\ ref[q].pc = "idle" /\ Present(c) /\ calls < MaxCalls
    /\ calls' = calls + 1
    /\ ref' = [ref EXCEPT ![q] = [Idle EXCEPT !.pc = "lock", !.id = c,
                                              !.failed = auths[c].token]]
    /\ UNCHANGED <<clock, tokens, auths, loopVars, queueVars, jobs, wr, historyVars>>

\* Faulty variant: the refresh does not wait for another one.
BeginRefreshUnlocked(f) ==
    /\ ref[f].pc = "lock"
    /\ LET auth == auths[ref[f].id]
       IN  IF auth # None /\ ref[f].failed \in {0, auth.token}
           THEN ref' = [ref EXCEPT ![f].pc = "call", ![f].auth = auth]
           ELSE Ended(f)
    /\ UNCHANGED <<clockVars, auths, loopVars, queueVars, jobs, wr, historyVars>>

\* Under the credential's lock: nothing to do when it is gone or when its
\* failed token was replaced, else the executor is called with a clone.
BeginRefresh(f) ==
    /\ ref[f].pc = "lock"
    /\ \A g \in Refreshers : ~Holds(g, ref[f].id)
    /\ LET auth == auths[ref[f].id]
       IN  IF auth # None /\ ref[f].failed \in {0, auth.token}
           THEN ref' = [ref EXCEPT ![f].pc = "call", ![f].auth = auth]
           ELSE Ended(f)
    /\ UNCHANGED <<clockVars, auths, loopVars, queueVars, jobs, wr, historyVars>>

\* The client of the request or the loop is gone: nothing is recorded.
RefreshCancelled(f) ==
    /\ ref[f].pc = "call" /\ (f \in Requests \/ ~running)
    /\ Ended(f)
    /\ UNCHANGED <<clockVars, auths, loopVars, queueVars, jobs, wr, historyVars>>

\* The failure is written to the credential as it is now.
RefreshFails(f, denied) ==
    /\ ref[f].pc = "call"
    /\ LET c == ref[f].id
       IN  IF Present(c)
           THEN /\ auths' = [auths EXCEPT ![c].denied = denied,
                       ![c].after = IF denied THEN 0 ELSE clock + FailureBackoff]
                /\ ref' = [ref EXCEPT ![f].pc = "queue", ![f].auth = None]
           ELSE Ended(f) /\ auths' = auths
    /\ UNCHANGED <<clockVars, loopVars, queueVars, jobs, wr, historyVars>>

\* Faulty variant: an ineffective refresh is due again at once.
RefreshedAtOnce(auth, effective) ==
    [auth EXCEPT !.denied = FALSE, !.after = 0,
                 !.token = IF effective THEN tokens + 1 ELSE @,
                 !.due = IF effective THEN clock + Period ELSE @]

\* What a refresh makes of its clone, with a new token or without one.
Refreshed(auth, effective) ==
    LET fresh == [auth EXCEPT !.denied = FALSE, !.after = 0,
                              !.token = IF effective THEN tokens + 1 ELSE @,
                              !.due = IF effective THEN clock + Period ELSE @]
    IN  IF shouldRefresh(fresh, clock)
        THEN [fresh EXCEPT !.after = clock + IneffectiveBackoff]
        ELSE fresh

\* Update replaces the credential by the refreshed clone, if it still exists.
RefreshSucceeds(f, effective) ==
    /\ ref[f].pc = "call"
    /\ effective => tokens < MaxTokens
    /\ tokens' = IF effective THEN tokens + 1 ELSE tokens
    /\ LET c == ref[f].id
           old == ref[f].auth
       IN  /\ IF Present(c)
              THEN /\ auths' = [auths EXCEPT ![c] = Refreshed(old, effective)]
                   /\ ref' = [ref EXCEPT ![f].pc = "queue", ![f].auth = None]
                   /\ restored' = IF ~effective /\ auths[c].token # old.token
                                  THEN restored \cup {c} ELSE restored
              ELSE Ended(f) /\ UNCHANGED <<auths, restored>>
           /\ spent' = IF effective THEN spent \cup {old.token} ELSE spent
    /\ UNCHANGED <<clock, calls, loopVars, queueVars, jobs, wr,
                   forgotten>>

\* Update and the failure path reschedule after the manager's unlock.
QueueRefreshed(f) ==
    /\ ref[f].pc = "queue"
    /\ queueReschedule(ref[f].id)
    /\ Ended(f)
    /\ UNCHANGED <<clockVars, auths, loopVars, heap, jobs, wr, historyVars>>

WorkerAgain(w) ==
    /\ ref[w].pc = "again"
    /\ queueOwnLoop(ref[w].id)
    /\ ref' = [ref EXCEPT ![w] = Idle]
    /\ UNCHANGED <<clockVars, auths, loopVars, heap, jobs, wr, historyVars>>

\* A worker sees the cancelled context; with jobs left it may take one more.
WorkerStops(w) ==
    /\ ref[w].pc = "idle" /\ ~running /\ loop # "off"
    /\ ref' = [ref EXCEPT ![w].pc = "exited"]
    /\ UNCHANGED <<clockVars, auths, loopVars, queueVars, jobs, wr, historyVars>>

-----------------------------------------------------------------------------
(* The other writers of a credential.                                      *)

\* MarkResult: a failure sets LastError, to a 401 or to something else, and a
\* success of the only model clears it.  The refresh loop is not told.
MarkResult(c, denied) ==
    /\ Present(c) /\ calls < MaxCalls
    /\ calls' = calls + 1
    /\ auths' = [auths EXCEPT ![c].denied = denied]
    /\ forgotten' = IF auths[c].denied /\ ~denied
                    THEN forgotten \cup {c} ELSE forgotten
    /\ UNCHANGED <<clock, tokens, loopVars, queueVars, jobs, ref, wr, spent,
                   restored>>

StartWrite(u, c, kind, auth) ==
    /\ wr[u].pc = "idle" /\ calls < MaxCalls
    /\ calls' = calls + 1
    /\ wr' = [wr EXCEPT ![u] = [pc |-> "write", id |-> c, kind |-> kind, auth |-> auth]]

\* PatchAuthFileStatus takes a clone and changes its disabled state.
PatchAuthFileStatus(u, c, kind) ==
    /\ kind \in Kinds \cap {"enable", "disable"} /\ Present(c)
    /\ StartWrite(u, c, kind, [auths[c] EXCEPT !.disabled = (kind = "disable")])
    /\ UNCHANGED <<clock, tokens, auths, loopVars, queueVars, jobs, ref,
                   historyVars>>

\* applyCoreAuthAddOrUpdate for a file whose tokens have not changed: it has
\* no LastError, and keeps the refresh times of an enabled credential.
ReloadAuthFile(u, c) ==
    /\ "reload" \in Kinds /\ Present(c)
    /\ StartWrite(u, c, "reload", [auths[c] EXCEPT !.denied = FALSE,
                                       !.after = IF auths[c].disabled THEN 0 ELSE @])
    /\ UNCHANGED <<clock, tokens, auths, loopVars, queueVars, jobs, ref,
                   historyVars>>

\* The same for a file with new tokens, for a known or for a new id.
LoginAuthFile(u, c) ==
    /\ "login" \in Kinds /\ tokens < MaxTokens
    /\ tokens' = tokens + 1
    /\ StartWrite(u, c, IF Present(c) THEN "login" ELSE "register",
           [token |-> tokens + 1, due |-> clock + Period,
            after |-> IF Present(c) /\ ~auths[c].disabled THEN auths[c].after ELSE 0,
            denied |-> FALSE, disabled |-> FALSE])
    /\ UNCHANGED <<clock, auths, loopVars, queueVars, jobs, ref, historyVars>>

\* Update of an existing credential, or Register.
WriteAuth(u) ==
    /\ wr[u].pc = "write"
    /\ LET c == wr[u].id
           auth == wr[u].auth
       IN  IF Present(c) \/ wr[u].kind = "register"
           THEN /\ auths' = [auths EXCEPT ![c] = auth]
                /\ wr' = [wr EXCEPT ![u].pc = "queue", ![u].auth = None]
                /\ restored' = IF Present(c) /\ wr[u].kind \notin {"login", "register"}
                                   /\ auths[c].token # auth.token
                               THEN restored \cup {c} ELSE restored
           ELSE /\ wr' = [wr EXCEPT ![u] = IdleWriter]
                /\ UNCHANGED <<auths, restored>>
    /\ UNCHANGED <<clockVars, loopVars, queueVars, jobs, ref, forgotten, spent>>

QueueWritten(u) ==
    /\ wr[u].pc = "queue"
    /\ queueReschedule(wr[u].id)
    /\ wr' = [wr EXCEPT ![u] = IdleWriter]
    /\ UNCHANGED <<clockVars, auths, loopVars, heap, jobs, ref, historyVars>>

\* Manager.Remove deletes the credential and unschedules it later.
Remove(u, c) ==
    /\ "remove" \in Kinds /\ wr[u].pc = "idle" /\ calls < MaxCalls /\ Present(c)
    /\ calls' = calls + 1
    /\ auths' = [auths EXCEPT ![c] = None]
    /\ wr' = [wr EXCEPT ![u] = [pc |-> "unschedule", id |-> c, kind |-> "remove",
                                auth |-> None]]
    /\ UNCHANGED <<clock, tokens, loopVars, queueVars, jobs, ref, historyVars>>

Unschedule(u) ==
    /\ wr[u].pc = "unschedule"
    /\ wr' = [wr EXCEPT ![u] = IdleWriter]
    /\ LET c == wr[u].id
       IN  /\ heap' = IF running THEN [heap EXCEPT ![c] = Never] ELSE heap
           /\ forgotten' = IF Present(c) THEN forgotten \cup {c} ELSE forgotten \ {c}
    /\ UNCHANGED <<clockVars, auths, loopVars, dirty, wake, jobs, ref, spent,
                   restored>>

Tick ==
    /\ clock < MaxTime
    /\ clock' = clock + 1
    /\ UNCHANGED <<tokens, calls, auths, loopVars, queueVars, jobs, ref, wr,
                   historyVars>>

-----------------------------------------------------------------------------
LoopStep ==
    \/ RebuildRead \/ RebuildWrite \/ LoopStops \/ LoopWakes \/ TimerFires
    \/ MarkRefreshPending \/ SendJob \/ DueDone \/ Act \/ DirtyDone
    \/ \E c \in Credentials : HandleDueAuth(c) \/ ApplyDirty(c)

Answer(f) ==
    \/ RefreshCancelled(f) \/ QueueRefreshed(f)
    \/ \E denied \in BOOLEAN : RefreshFails(f, denied)
    \/ \E effective \in BOOLEAN : RefreshSucceeds(f, effective)

WorkerStep(w) == TakeJob(w) \/ WorkerAgain(w) \/ WorkerStops(w)

WriterEnds(u) == WriteAuth(u) \/ QueueWritten(u) \/ Unschedule(u)

WriterBegins(u) ==
    \E c \in Credentials :
       \/ \E kind \in Kinds : PatchAuthFileStatus(u, c, kind)
       \/ ReloadAuthFile(u, c) \/ LoginAuthFile(u, c) \/ Remove(u, c)

Next ==
    \/ StartAutoRefresh \/ StopAutoRefresh \/ LoopStep \/ Tick
    \/ \E f \in Refreshers : BeginRefresh(f) \/ Answer(f)
    \/ \E w \in Workers : WorkerStep(w)
    \/ \E q \in Requests, c \in Credentials : RequestUnauthorized(q, c)
    \/ \E c \in Credentials, denied \in BOOLEAN : MarkResult(c, denied)
    \/ \E u \in Writers : WriterBegins(u) \/ WriterEnds(u)

Spec == Init /\ [][Next]_vars

\* The loop, its workers and writers run, time passes, a refresh that was sent gets an
\* answer or gives up, and the mutex of a credential, which Go hands to a
\* goroutine that has waited long, reaches a worker in the end.
FairSpec ==
    /\ Spec
    /\ WF_vars(LoopStep) /\ WF_vars(Tick)
    /\ \A f \in Refreshers : WF_vars(Answer(f))
    /\ \A w \in Workers : WF_vars(WorkerStep(w)) /\ SF_vars(BeginRefresh(w))
    /\ \A u \in Writers : WF_vars(WriterEnds(u))

-----------------------------------------------------------------------------
(* Properties.                                                             *)

InTime(next, c) == next # Never /\ next <= CheckAt(auths[c], clock)

\* The loop will look at c no later than it is due.
Tracked(c) ==
    \/ c \in dirty /\ (wake \/ loop # "waiting")
    \/ loop = "listed" /\ InTime(entries[c], c)
    \/ loop # "listed" /\ InTime(heap[c], c) /\ (loop = "waiting" => timer # Never)
    \/ c \in todo
    \/ at = c /\ (loop \in {"mark", "send"} \/ (loop = "act" /\ InTime(plan, c)))
    \/ \E f \in Refreshers : ref[f].id = c /\ ref[f].pc = "queue"
    \/ \E u \in Writers : wr[u].id = c /\ wr[u].pc = "queue"

Started == running /\ loop \notin {"off", "installed"}

\* While the loop runs, no credential that should be refreshed drops out of
\* heap, dirty set and the hands of the loop, or stays in the heap for a
\* time after its own, whatever refreshes, updates and the loop's rebuild do
\* at once.  The two ways out are in forgotten.  The variables keep their
\* types, the job channel its capacity.
TrackedUnlessForgotten ==
    /\ TypeOK
    /\ Started => \A c \in Credentials \ forgotten : Refreshable(auths[c]) => Tracked(c)

\* No refresh starts with a refresh token that another refresh has used up,
\* however many requests failed with it and whatever the loop does meanwhile,
\* unless an Update prepared before that refresh has written it back.
SpentTokenIsNotUsed ==
    \A f \in Refreshers :
        ref[f].pc = "call" /\ ref[f].id \notin restored => ref[f].auth.token \notin spent

\* "PatchAuthFileStatus toggles the disabled state of an auth file": only a
\* request to enable it or a new login enables a disabled credential again.
DisableSticks ==
    [][\A c \in Credentials :
         Present(c) /\ auths[c].disabled /\ auths'[c] # None /\ ~auths'[c].disabled =>
            \E u \in Writers : wr[u].id = c /\ wr[u].kind \in {"enable", "login", "register"}]_vars

\* When calls end and time stands still, here at the bound of the clock, the
\* loop comes to rest and nothing is left behind: every due credential was
\* handed to a worker and every job done, although the only loop goroutine
\* blocks on a full job channel and workers wait for locks that requests
\* hold.  "Without this guard, the auto-refresh loop can tight-loop": also
\* refreshes that bring nothing new come to an end.  A timer beyond the
\* bound never fires.
DueNow(c) == shouldRefresh(auths[c], clock) /\ c \notin forgotten

LoopComesToRest ==
    <>[](running => /\ jobs = <<>>
                    /\ \A w \in Workers : ref[w].pc = "idle"
                    /\ \A c \in Credentials : ~DueNow(c) \/ timer > MaxTime)
=============================================================================
