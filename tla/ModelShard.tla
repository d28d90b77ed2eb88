------------------------------ MODULE ModelShard ------------------------------
(***************************************************************************)
(* One model shard of the scheduler: sdk/cliproxy/auth/scheduler.go.       *)
(*                                                                         *)
(* entries maps a credential to the snapshot of it that the scheduler was  *)
(* last given and to its scheduling state; index holds what                *)
(* rebuildIndexesLocked derives from the entries: per priority the ready   *)
(* credentials in the order of their ids, once for all and once for those  *)
(* with a websocket transport, each with a round-robin cursor, and the     *)
(* blocked credentials.  The scheduler's mutex makes every operation one   *)
(* step.  A request that is pinned to a credential, or has tried some      *)
(* already, allows only a subset of them.                                  *)
(***************************************************************************)
EXTENDS Integers, Sequences, FiniteSets, FiniteSetsExt, SequencesExt

CONSTANTS Ids,         \* credentials, numbered in the order of their ids
          Priorities,  \* the values of authPriority
          Transports,  \* the values of authWebsocketsEnabled
          Snapshots,   \* the snapshots the scheduler may be given
          MaxTime      \* bound on the clock

ASSUME IdsAssumption == Ids \subseteq Nat /\ IsFiniteSet(Ids)
ASSUME PrioritiesAssumption == Priorities \subseteq Nat /\ IsFiniteSet(Priorities)
ASSUME TransportsAssumption == Transports \subseteq BOOLEAN
ASSUME TimeAssumption == MaxTime \in Nat

\* A snapshot of a credential as the shard's model sees it: block and until are
\* those of the model's state, Unavailable (failed) or Quota.Exceeded (quota)
\* until a time, 0 for the zero time, or disabled by the credential's status;
\* cred is the end of a quota that holds for the whole credential, 0 for none.
Auths == [prio : Priorities, ws : Transports, cred : 0 .. MaxTime,
          block : {"none", "quota", "failed", "disabled"}, until : 0 .. MaxTime]

ASSUME SnapshotsAssumption == Snapshots \subseteq Auths

States == {"ready", "cooldown", "blocked", "disabled"}
Entries == [auth : Auths, state : States, next : 0 .. MaxTime]
Strategies == {"roundRobin", "fillFirst"}
Requests == [allowed : SUBSET Ids, ws : Transports, strategy : Strategies]

VARIABLES now,      \* time.Now
          entries,  \* modelScheduler.entries, a partial function on Ids
          index,    \* readyByPriority and blocked
          last      \* history: what the last pick answered, reset by other steps

vars == <<now, entries, index, last>>

NoAnswer == [kind |-> "none", id |-> 0, at |-> 0, req |-> {}]

EmptyView == [flat |-> <<>>, cursor |-> 0]
EmptyIndex == [views |-> [p \in Priorities |-> [all |-> EmptyView, ws |-> EmptyView]],
               blocked |-> {}]

Init ==
  /\ now = 0
  /\ entries = <<>>
  /\ index = EmptyIndex
  /\ last = NoAnswer

-----------------------------------------------------------------------------
(***************************************************************************)
(* Availability of a snapshot at a time.                                   *)
(***************************************************************************)
availabilityBlock(a, t) ==
  CASE a.block = "none" \/ a.until \in 1 .. t -> [state |-> "ready", next |-> 0]
    [] a.block # "none" /\ a.until > t ->
         [state |-> IF a.block = "quota" THEN "cooldown" ELSE "blocked", next |-> a.until]
    [] OTHER -> [state |-> "blocked", next |-> 0]

\* Until the credential's own quota ends, the state of the model is not looked at.
isAuthBlockedForModel(a, t) ==
  CASE a.block = "disabled" -> [state |-> "disabled", next |-> 0]
    [] a.block # "disabled" /\ a.cred > t -> [state |-> "cooldown", next |-> a.cred]
    [] OTHER -> availabilityBlock(a, t)

scheduledAuth(a, t) ==
  [auth  |-> a,
   state |-> isAuthBlockedForModel(a, t).state,
   next  |-> isAuthBlockedForModel(a, t).next]

-----------------------------------------------------------------------------
(***************************************************************************)
(* Indexes.                                                                *)
(***************************************************************************)
normalizeCursor(cursor, size) == IF size <= 0 THEN 0 ELSE cursor % size

ReadySet(E, p, wsOnly) ==
  {i \in DOMAIN E : E[i].state = "ready" /\ E[i].auth.prio = p /\ (wsOnly => E[i].auth.ws)}

\* The sequence that lists S in increasing order.
Increasing(s, n) == \A j, k \in 1 .. n : j < k => s[j] < s[k]
Covers(s, n, S) == \A x \in S : \E k \in 1 .. n : s[k] = x
Sorted(S) ==
  LET n == Cardinality(S)
  IN  CHOOSE s \in [1 .. n -> S] : Increasing(s, n) /\ Covers(s, n, S)

buildReadyView(E, p, wsOnly) == Sorted(ReadySet(E, p, wsOnly))

BlockedSet(E) == {i \in DOMAIN E : E[i].state \in {"cooldown", "blocked"}}

\* Faulty variant: the cursor survives unchanged.
restoreReadyViewVerbatim(view, flat) == [flat |-> flat, cursor |-> view.cursor]

restoreReadyViewCursors(view, flat) ==
  [flat |-> flat, cursor |-> normalizeCursor(view.cursor, Len(flat))]

rebuildIndexesLocked(E, X) ==
  [views |-> [p \in Priorities |->
     [all |-> restoreReadyViewCursors(X.views[p].all, buildReadyView(E, p, FALSE)),
      ws  |-> restoreReadyViewCursors(X.views[p].ws, buildReadyView(E, p, TRUE))]],
   blocked |-> BlockedSet(E)]

-----------------------------------------------------------------------------
(***************************************************************************)
(* Entries.  Each operator gives the new entries and the new index.        *)
(***************************************************************************)
with(E, i, e) == [j \in DOMAIN E \union {i} |-> IF j = i THEN e ELSE E[j]]
without(E, i) == [j \in DOMAIN E \ {i} |-> E[j]]

\* Faulty variant: a change of priority or transport is not noticed.
SameState(e, f) == e.state = f.state /\ e.next = f.next

SameSchedule(e, f) ==
  e.state = f.state /\ e.next = f.next /\ e.auth.prio = f.auth.prio /\ e.auth.ws = f.auth.ws

upsertEntryLocked(E, X, i, a, t) ==
  LET e == scheduledAuth(a, t)
      F == with(E, i, e)
      same == i \in DOMAIN E /\ SameSchedule(E[i], e)
  IN  [entries |-> F, index |-> IF same THEN X ELSE rebuildIndexesLocked(F, X)]

removeEntryLocked(E, X, i) ==
  IF i \in DOMAIN E
  THEN [entries |-> without(E, i), index |-> rebuildIndexesLocked(without(E, i), X)]
  ELSE [entries |-> E, index |-> X]

\* Faulty variant: off by one, the entry waits for the instant after its retry time.
DueLate(E, X, t) == {i \in X.blocked : E[i].next # 0 /\ E[i].next < t}

\* Faulty variant: only quota cooldowns end, not other blocks.
DueCooldownOnly(E, X, t) ==
  {i \in X.blocked : E[i].state = "cooldown" /\ E[i].next # 0 /\ E[i].next <= t}

Due(E, X, t) == {i \in X.blocked : E[i].next # 0 /\ E[i].next <= t}

promoteExpiredLocked(E, X, t) ==
  LET due == Due(E, X, t)
      F == [i \in DOMAIN E |-> IF i \in due THEN scheduledAuth(E[i].auth, t) ELSE E[i]]
  IN  [entries |-> F, index |-> IF due = {} THEN X ELSE rebuildIndexesLocked(F, X)]

-----------------------------------------------------------------------------
(***************************************************************************)
(* Picks.                                                                  *)
(***************************************************************************)
Matching(view, allowed) == {k \in 1 .. Len(view.flat) : view.flat[k] \in allowed}

\* Priorities at which a view of the given kind has a match.
ReadyPriorities(X, kind, allowed) == {p \in Priorities : Matching(X.views[p][kind], allowed) # {}}

\* Faulty variant: the lowest priority wins.
lowestReadyPriority(X, r) ==
  LET wsReady == IF r.ws THEN ReadyPriorities(X, "ws", r.allowed) ELSE {}
  IN  Min(IF wsReady # {} THEN wsReady ELSE ReadyPriorities(X, "all", r.allowed))

highestReadyPriorityLocked(X, r) ==
  LET wsReady == IF r.ws THEN ReadyPriorities(X, "ws", r.allowed) ELSE {}
  IN  Max(IF wsReady # {} THEN wsReady ELSE ReadyPriorities(X, "all", r.allowed))

HasReady(X, r) == ReadyPriorities(X, "all", r.allowed) # {}

\* The view pickReadyAtPriorityLocked draws from.
ViewKind(X, p, r) ==
  IF r.ws /\ Matching(X.views[p].ws, r.allowed) # {} THEN "ws" ELSE "all"

pickFirst(view, allowed) == [pos |-> Min(Matching(view, allowed)), cursor |-> view.cursor]

\* Faulty variant: the cursor stays on the picked position.
pickRoundRobinStuck(view, allowed) ==
  LET n == Len(view.flat)
      offset == Min({o \in 0 .. n - 1 : view.flat[((view.cursor + o) % n) + 1] \in allowed})
      pos == ((view.cursor + offset) % n) + 1
  IN  [pos |-> pos, cursor |-> pos - 1]

pickRoundRobin(view, allowed) ==
  LET n == Len(view.flat)
      offset == Min({o \in 0 .. n - 1 : view.flat[((view.cursor + o) % n) + 1] \in allowed})
      pos == ((view.cursor + offset) % n) + 1
  IN  [pos |-> pos, cursor |-> pos]

pickReadyAtPriorityLocked(view, r) ==
  IF r.strategy = "fillFirst" THEN pickFirst(view, r.allowed) ELSE pickRoundRobin(view, r.allowed)

\* Faulty variant: one cooling credential is taken for all of them.
unavailableErrorSomeCooling(E, r) ==
  LET total == r.allowed \intersect DOMAIN E
      times == {E[i].next : i \in {j \in total : E[j].state = "cooldown"}} \ {0}
  IN  CASE total = {} -> [kind |-> "notFound", at |-> 0]
        [] times # {} -> [kind |-> "cooldown", at |-> Min(times)]
        [] OTHER -> [kind |-> "unavailable", at |-> 0]

\* total, cooldownCount and earliest, and the error made of them.
unavailableErrorLocked(E, r) ==
  LET total == r.allowed \intersect DOMAIN E
      cooling == {i \in total : E[i].state = "cooldown"}
      times == {E[i].next : i \in cooling} \ {0}
  IN  CASE total = {} -> [kind |-> "notFound", at |-> 0]
        [] total # {} /\ cooling = total /\ times # {} -> [kind |-> "cooldown", at |-> Min(times)]
        [] OTHER -> [kind |-> "unavailable", at |-> 0]

moveCursor(X, p, kind, cursor) ==
  [views |-> [q \in Priorities |->
     [all |-> [flat |-> X.views[q].all.flat,
               cursor |-> IF q = p /\ kind = "all" THEN cursor ELSE X.views[q].all.cursor],
      ws  |-> [flat |-> X.views[q].ws.flat,
               cursor |-> IF q = p /\ kind = "ws" THEN cursor ELSE X.views[q].ws.cursor]]],
   blocked |-> X.blocked]

\* The effect of one pick on entries and index, and its answer.
pickSingle(E, X, t, r) ==
  LET s == promoteExpiredLocked(E, X, t)
  IN  IF HasReady(s.index, r)
      THEN LET p == highestReadyPriorityLocked(s.index, r)
               kind == ViewKind(s.index, p, r)
               view == s.index.views[p][kind]
               picked == pickReadyAtPriorityLocked(view, r)
           IN  [entries |-> s.entries,
                index |-> moveCursor(s.index, p, kind, picked.cursor),
                kind |-> "auth", id |-> view.flat[picked.pos], at |-> 0]
      ELSE LET e == unavailableErrorLocked(s.entries, r)
           IN  [entries |-> s.entries, index |-> s.index,
                kind |-> e.kind, id |-> 0, at |-> e.at]

-----------------------------------------------------------------------------
(***************************************************************************)
(* Actions.                                                                *)
(***************************************************************************)
upsert(i, a) ==
  /\ LET s == upsertEntryLocked(entries, index, i, a, now)
     IN  entries' = s.entries /\ index' = s.index
  /\ last' = NoAnswer
  /\ UNCHANGED now

remove(i) ==
  /\ i \in DOMAIN entries
  /\ LET s == removeEntryLocked(entries, index, i)
     IN  entries' = s.entries /\ index' = s.index
  /\ last' = NoAnswer
  /\ UNCHANGED now

pick(r) ==
  LET s == pickSingle(entries, index, now, r)
  IN  /\ entries' = s.entries
      /\ index' = s.index
      /\ last' = [kind |-> s.kind, id |-> s.id, at |-> s.at, req |-> r]
      /\ UNCHANGED now

Tick ==
  /\ now < MaxTime
  /\ now' = now + 1
  /\ last' = NoAnswer
  /\ UNCHANGED <<entries, index>>

Next ==
  \/ \E i \in Ids, a \in Snapshots : upsert(i, a)
  \/ \E i \in Ids : remove(i)
  \/ \E r \in Requests : pick(r)
  \/ Tick

Spec == Init /\ [][Next]_vars

-----------------------------------------------------------------------------
(***************************************************************************)
(* Properties.                                                             *)
(***************************************************************************)
Views(X) == {X.views[p].all : p \in Priorities} \union {X.views[p].ws : p \in Priorities}

\* The types of the shard; a cursor is a position of its view, or just past it.
TypeOK ==
  /\ now \in 0 .. MaxTime
  /\ DOMAIN entries \subseteq Ids
  /\ \A i \in DOMAIN entries : entries[i] \in Entries
  /\ index.blocked \subseteq Ids
  /\ \A v \in Views(index) : v.flat \in Seq(Ids) /\ v.cursor \in 0 .. Len(v.flat)
  /\ last.kind \in {"none", "auth", "cooldown", "unavailable", "notFound"}

\* rebuildIndexesLocked is skipped when upsertEntryLocked or
\* promoteExpiredLocked see no change; the indexes must still be those of the
\* entries, or a credential is picked while it cools or is never picked again.
IndexMatchesEntries ==
  /\ index.blocked = BlockedSet(entries)
  /\ \A p \in Priorities : /\ index.views[p].all.flat = buildReadyView(entries, p, FALSE)
                           /\ index.views[p].ws.flat = buildReadyView(entries, p, TRUE)

Unblocked(i) == isAuthBlockedForModel(entries[i].auth, now).state = "ready"

Candidates(r) == {i \in DOMAIN entries \intersect r.allowed : Unblocked(i)}

\* A pick answers with an allowed credential whose snapshot is not blocked at
\* that moment, and no other such credential has a higher priority, except that
\* a websocket request goes to the best websocket credential if there is one.
PickIsBest ==
  last.kind = "auth" =>
    LET r == last.req
        wsOnes == {i \in Candidates(r) : r.ws /\ entries[i].auth.ws}
        field == IF wsOnes # {} THEN wsOnes ELSE Candidates(r)
    IN  /\ last.id \in field
        /\ \A i \in field : entries[i].auth.prio <= entries[last.id].auth.prio

\* The answer of a pick rests on current states: promoteExpiredLocked looks at
\* the blocked index only, yet after it no entry, blocked or not, has a state
\* other than the one its snapshot has at that moment.
PickSeesCurrentState ==
  last.kind # "none" =>
    \A i \in DOMAIN entries : entries[i] = scheduledAuth(entries[i].auth, now)

\* A pick fails only if every allowed credential is blocked at that moment: a
\* credential whose cooldown is over is promoted before the shard is searched.
FailureIsReal == last.kind \in {"cooldown", "unavailable", "notFound"} => Candidates(last.req) = {}

CoolsAt(i, t) == isAuthBlockedForModel(entries[i].auth, t).state = "cooldown"

\* The time in a model cooldown error is the earliest at which a retry can
\* succeed: until then every allowed credential cools at every instant, and then
\* one is free - or a credential-wide quota ends then behind which the model has
\* a longer pause of its own, from a failure that was under way, which
\* isAuthBlockedForModel does not look at as long as that quota lasts.
CooldownTimeIsEarliest ==
  last.kind = "cooldown" =>
    LET total == DOMAIN entries \intersect last.req.allowed
    IN  /\ now < last.at
        /\ \A i \in total, t \in now .. last.at - 1 : CoolsAt(i, t)
        /\ \E i \in total :
             LET a == entries[i].auth
             IN  \/ isAuthBlockedForModel(a, last.at).state = "ready"
                 \/ a.cred = last.at /\ availabilityBlock(a, last.at).state # "ready"
=============================================================================
