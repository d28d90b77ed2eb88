-------------------------- MODULE AutoRefreshProofs --------------------------
(***************************************************************************)
(* Proofs about the refresh of credentials: no refresh starts with a token *)
(* that another one has used up, and the loop loses no credential.         *)
(***************************************************************************)
EXTENDS AutoRefresh, FiniteSetTheorems, WellFoundedInduction, TLAPS

RefRecords == [pc : {"idle", "lock", "call", "queue", "again", "exited"},
               id : Credentials \cup {None}, failed : 0 .. MaxTokens,
               auth : Auths \cup {None}]

WrRecords == [pc : {"idle", "write", "queue", "unschedule"},
              id : Credentials \cup {None}, kind : Kinds \cup {"none", "register"},
              auth : Auths \cup {None}]

\* Whoever is at work has an id, and a clone where one is needed; the loop's
\* reading of the clock is not ahead of it.
RefDiscipline ==
    \A f \in Refreshers :
        /\ ref[f].pc \in {"lock", "call", "queue", "again"} => ref[f].id \in Credentials
        /\ ref[f].pc = "call" => ref[f].auth \in Auths

WrDiscipline ==
    \A u \in Writers :
        /\ wr[u].pc # "idle" => wr[u].id \in Credentials
        /\ wr[u].pc = "write" => wr[u].auth \in Auths

LoopDiscipline ==
    /\ loop \in {"act", "mark", "send"} => at \in Credentials
    /\ now <= clock

Basic == TypeOK /\ RefDiscipline /\ WrDiscipline /\ LoopDiscipline

\* The parts of TypeOK, each with the variables that move together.
LoopTypes ==
    /\ loop \in {"off", "installed", "listed", "waiting", "next", "act", "mark",
                 "send", "stopped"}
    /\ running \in BOOLEAN
    /\ timer \in Nat \cup {Never}
    /\ now \in Time
    /\ phase \in {"handle", "apply"}
    /\ todo \subseteq Credentials
    /\ at \in Credentials \cup {None}
    /\ plan \in Instants \cup {Never}
    /\ entries \in [Credentials -> Instants \cup {Never}]
QueueTypes ==
    /\ heap \in [Credentials -> Instants \cup {Never}]
    /\ dirty \subseteq Credentials /\ wake \in BOOLEAN
JobTypes == jobs \in Seq(Credentials) /\ Len(jobs) <= JobCap
RefTypes == ref \in [Refreshers -> RefRecords]
WrTypes == wr \in [Writers -> WrRecords]
AuthTypes == auths \in [Credentials -> Auths \cup {None}]
CountTypes == clock \in Time /\ tokens \in 0 .. MaxTokens /\ calls \in 0 .. MaxCalls
HistoryTypes == forgotten \subseteq Credentials /\ restored \subseteq Credentials /\ spent \subseteq Tokens

\* The type invariant is the conjunction of its parts.
LEMMA TypeParts ==
    /\ TypeOK <=> /\ LoopTypes /\ QueueTypes /\ JobTypes /\ RefTypes /\ WrTypes
                  /\ AuthTypes /\ CountTypes /\ HistoryTypes
    /\ TypeOK' <=> /\ LoopTypes' /\ QueueTypes' /\ JobTypes' /\ RefTypes' /\ WrTypes'
                   /\ AuthTypes' /\ CountTypes' /\ HistoryTypes'
BY DEF TypeOK, LoopTypes, QueueTypes, JobTypes, RefTypes, WrTypes, AuthTypes, CountTypes,
       HistoryTypes, RefRecords, WrRecords

-----------------------------------------------------------------------------
(* Times.                                                                  *)

\* The bounds and the backoffs are natural numbers.
LEMMA BoundsAreNaturals ==
    /\ MaxTime \in Nat /\ MaxTokens \in Nat /\ MaxCalls \in Nat
    /\ Period \in Nat /\ PendingBackoff \in Nat
    /\ FailureBackoff \in Nat /\ IneffectiveBackoff \in Nat /\ JobCap \in Nat
BY RefreshAssumption

\* Every moment the model computes lies within the instants.
LEMMA InstantFacts ==
    /\ Instants \subseteq Nat /\ Time \subseteq Instants /\ Time \subseteq Nat
    /\ 0 \in Instants /\ 0 \in Time
    /\ \A t \in Time : /\ t + Period \in Instants
                       /\ t + PendingBackoff \in Instants
                       /\ t + FailureBackoff \in Instants
                       /\ t + IneffectiveBackoff \in Instants
    /\ Never \notin Nat
BY BoundsAreNaturals DEF Instants, Time, Never

\* What nextRefreshCheckAt returns is a moment or nothing.
LEMMA CheckAtType ==
    ASSUME NEW a \in Auths, NEW t \in Time
    PROVE  CheckAt(a, t) \in Instants
<1>1. a.after \in Instants /\ a.due \in Instants
  BY DEF Auths
<1>2. t \in Instants
  BY InstantFacts
<1> QED
  BY <1>1, <1>2 DEF CheckAt, Later

\* nextRefreshCheckAt of a credential that may be missing: an instant or never.
LEMMA NextCheckType ==
    ASSUME NEW a \in Auths \cup {None}, NEW t \in Time
    PROVE  nextRefreshCheckAt(a, t) \in Instants \cup {Never}
<1>1. CASE Refreshable(a)
  <2>1. a \in Auths
    BY <1>1 DEF Refreshable
  <2> QED
    BY <1>1, <2>1, CheckAtType DEF nextRefreshCheckAt
<1>2. CASE ~Refreshable(a)
  BY <1>2 DEF nextRefreshCheckAt
<1> QED
  BY <1>1, <1>2

\* A credential is never due earlier because time has passed.
LEMMA CheckAtMonotone ==
    ASSUME NEW a \in Auths, NEW s \in Nat, NEW t \in Nat, s <= t
    PROVE  CheckAt(a, s) <= CheckAt(a, t) /\ CheckAt(a, s) \in Nat /\ CheckAt(a, t) \in Nat
<1>1. a.after \in Nat /\ a.due \in Nat
  BY InstantFacts DEF Auths
<1> QED
  BY <1>1 DEF CheckAt, Later

\* The earliest entry of a heap that is not empty is one of its entries.
LEMMA MinIsMember ==
    ASSUME NEW S \in SUBSET Nat, S # {}
    PROVE  Min(S) \in S
<1>1. \E x \in S : \A y \in S : x <= y
  <2>1. PICK x \in S : \A y \in S : <<y, x>> \notin OpToRel(<, Nat)
    BY NatLessThanWellFounded, WFMin, Zenon
  <2>2. \A a, b \in Nat : a < b => <<a, b>> \in OpToRel(<, Nat)
    BY DEF OpToRel
  <2>3. \A y \in S : ~(y < x)
    BY <2>1, <2>2, Zenon
  <2>4. x \in Nat /\ \A y \in S : y \in Nat
    OBVIOUS
  <2>5. \A y \in Nat : ~(y < x) => x <= y
    BY <2>4
  <2>6. \A y \in S : x <= y
    BY <2>3, <2>4, <2>5, Zenon
  <2> QED
    BY <2>6
<1> QED
  BY <1>1 DEF Min

\* resetTimer turns the timer off only over an empty heap.
LEMMA TimerFacts ==
    ASSUME NEW h \in [Credentials -> Instants \cup {Never}], NEW t \in Time,
           clock \in Time, resetTimer(h, t)
    PROVE  /\ timer' \in Nat \cup {Never}
           /\ \A c \in Credentials : h[c] # Never => timer' # Never
<1> DEFINE nexts == {h[c] : c \in {d \in Credentials : h[d] # Never}}
<1>1. nexts \subseteq Nat
  BY InstantFacts
<1>2. timer' = IF nexts = {} THEN Never ELSE clock + Later(Min(nexts) - t, 0)
  BY DEF resetTimer
<1>3. nexts # {} => timer' \in Nat
  <2>1. nexts # {} => Min(nexts) \in Nat
    BY <1>1, MinIsMember
  <2>2. clock \in Nat /\ t \in Nat
    BY InstantFacts
  <2> HIDE DEF nexts
  <2> QED
    BY <1>2, <2>1, <2>2 DEF Later
<1>4. \A c \in Credentials : h[c] # Never => nexts # {}
  OBVIOUS
<1> HIDE DEF nexts
<1> QED
  BY <1>2, <1>3, <1>4, InstantFacts

-----------------------------------------------------------------------------
(* The types, and whoever is at work has what it needs.                    *)

\* Initially every credential has a token of its own.
LEMMA InitBasic ==
    Init => Basic
<1> SUFFICES ASSUME Init PROVE Basic
  OBVIOUS
<1> USE BoundsAreNaturals
<1>1. tokens \in 0 .. MaxTokens
  BY RefreshAssumption, FS_CardinalityType DEF Init
<1>2. LoopTypes
  BY InstantFacts DEF LoopTypes, Init
<1>3. QueueTypes
  BY DEF QueueTypes, Init
<1>4. JobTypes
  BY DEF JobTypes, Init
<1>5. Idle \in RefRecords /\ IdleWriter \in WrRecords
  BY DEF Idle, IdleWriter, RefRecords, WrRecords
<1>6. RefTypes /\ WrTypes
  BY <1>5 DEF Init, RefTypes, WrTypes
<1>7. AuthTypes
  <2>1. PICK token \in [Credentials -> 1 .. tokens] :
           auths = [c \in Credentials |->
                        [token |-> token[c], due |-> 0, after |-> 0,
                         denied |-> FALSE, disabled |-> FALSE]]
    BY DEF Init
  <2>2. \A c \in Credentials : token[c] \in Tokens
    BY <1>1 DEF Tokens
  <2> QED
    BY <2>1, <2>2, InstantFacts DEF AuthTypes, Auths
<1>8. CountTypes /\ HistoryTypes
  BY <1>1, InstantFacts DEF Init, CountTypes, HistoryTypes
<1>9. RefDiscipline /\ WrDiscipline
  BY DEF Init, RefDiscipline, WrDiscipline, Idle, IdleWriter
<1>10. LoopDiscipline
  BY DEF Init, LoopDiscipline
<1> QED
  BY <1>2, <1>3, <1>4, <1>6, <1>7, <1>8, <1>9, <1>10, TypeParts DEF Basic

\* A refresher's step: the others keep their records, and its own is of the
\* right kind.
LEMMA RefChange ==
    ASSUME RefTypes, RefDiscipline, NEW f \in Refreshers, NEW r,
           ref' = [ref EXCEPT ![f] = r], r \in RefRecords,
           r.pc \in {"lock", "call", "queue", "again"} => r.id \in Credentials,
           r.pc = "call" => r.auth \in Auths
    PROVE  RefTypes' /\ RefDiscipline'
<1>1. RefTypes'
  BY DEF RefTypes
<1>2. ref'[f] = r /\ \A g \in Refreshers \ {f} : ref'[g] = ref[g]
  BY DEF RefTypes
<1> QED
  BY <1>1, <1>2 DEF RefDiscipline

\* The same for writers.
LEMMA WrChange ==
    ASSUME WrTypes, WrDiscipline, NEW u \in Writers, NEW r,
           wr' = [wr EXCEPT ![u] = r], r \in WrRecords,
           r.pc # "idle" => r.id \in Credentials,
           r.pc = "write" => r.auth \in Auths
    PROVE  WrTypes' /\ WrDiscipline'
<1>1. WrTypes'
  BY DEF WrTypes
<1>2. wr'[u] = r /\ \A v \in Writers \ {u} : wr'[v] = wr[v]
  BY DEF WrTypes
<1> QED
  BY <1>1, <1>2 DEF WrDiscipline

\* The end of a refresh leaves no clone behind.
LEMMA EndedTypes ==
    ASSUME RefTypes, RefDiscipline, NEW f \in Refreshers,
           ref[f].pc \in {"lock", "call", "queue", "again"}, Ended(f)
    PROVE  RefTypes' /\ RefDiscipline'
<1> DEFINE r == IF f \in Workers
                THEN [Idle EXCEPT !.pc = "again", !.id = ref[f].id] ELSE Idle
<1>1. ref[f].id \in Credentials
  BY DEF RefDiscipline
<1>2. /\ r \in RefRecords /\ r.pc # "call"
      /\ r.pc \in {"lock", "call", "queue", "again"} => r.id \in Credentials
  <2>1. CASE f \in Workers
    <3>1. r = [pc |-> "again", id |-> ref[f].id, failed |-> 0, auth |-> None]
      BY <2>1 DEF Idle
    <3> HIDE DEF r
    <3>2. r \in RefRecords
      BY <1>1, <3>1, BoundsAreNaturals DEF RefRecords
    <3> QED
      BY <1>1, <3>1, <3>2
  <2>2. CASE f \notin Workers
    BY <2>2, BoundsAreNaturals DEF RefRecords, Idle
  <2> QED
    BY <2>1, <2>2
<1>3. ref' = [ref EXCEPT ![f] = r]
  BY DEF Ended
<1> HIDE DEF r
<1> QED
  BY <1>2, <1>3, RefChange

\* A step of the queue keeps its types.
LEMMA QueueFacts ==
    ASSUME QueueTypes, NEW c \in Credentials, queueReschedule(c) \/ queueOwnLoop(c),
           heap' = heap
    PROVE  QueueTypes'
BY DEF QueueTypes, queueReschedule, queueOwnLoop

\* Basic is its parts.
LEMMA BasicParts ==
    /\ Basic <=> /\ LoopTypes /\ QueueTypes /\ JobTypes /\ RefTypes /\ WrTypes
                 /\ AuthTypes /\ CountTypes /\ HistoryTypes
                 /\ RefDiscipline /\ WrDiscipline /\ LoopDiscipline
    /\ Basic' <=> /\ LoopTypes' /\ QueueTypes' /\ JobTypes' /\ RefTypes' /\ WrTypes'
                  /\ AuthTypes' /\ CountTypes' /\ HistoryTypes'
                  /\ RefDiscipline' /\ WrDiscipline' /\ LoopDiscipline'
BY TypeParts DEF Basic

\* What a step leaves alone keeps its types.
LEMMA UnchangedTypes ==
    /\ LoopTypes /\ LoopDiscipline /\ CountTypes /\ UNCHANGED <<clock, loopVars>>
          => LoopTypes' /\ LoopDiscipline'
    /\ QueueTypes /\ UNCHANGED queueVars => QueueTypes'
    /\ JobTypes /\ UNCHANGED jobs => JobTypes'
    /\ RefTypes /\ RefDiscipline /\ UNCHANGED ref => RefTypes' /\ RefDiscipline'
    /\ WrTypes /\ WrDiscipline /\ UNCHANGED wr => WrTypes' /\ WrDiscipline'
    /\ AuthTypes /\ UNCHANGED auths => AuthTypes'
    /\ CountTypes /\ UNCHANGED clockVars => CountTypes'
    /\ HistoryTypes /\ UNCHANGED historyVars => HistoryTypes'
<1>1. LoopTypes /\ LoopDiscipline /\ UNCHANGED <<clock, loopVars>> => LoopTypes' /\ LoopDiscipline'
  BY DEF LoopTypes, LoopDiscipline, loopVars
<1>2. QueueTypes /\ UNCHANGED queueVars => QueueTypes'
  BY DEF QueueTypes, queueVars
<1>3. JobTypes /\ UNCHANGED jobs => JobTypes'
  BY DEF JobTypes
<1>4. RefTypes /\ RefDiscipline /\ UNCHANGED ref => RefTypes' /\ RefDiscipline'
  BY DEF RefTypes, RefDiscipline
<1>5. WrTypes /\ WrDiscipline /\ UNCHANGED wr => WrTypes' /\ WrDiscipline'
  BY DEF WrTypes, WrDiscipline
<1>6. AuthTypes /\ UNCHANGED auths => AuthTypes'
  BY DEF AuthTypes
<1>7. CountTypes /\ UNCHANGED clockVars => CountTypes'
  BY DEF CountTypes, clockVars
<1>8. HistoryTypes /\ UNCHANGED historyVars => HistoryTypes'
  BY DEF HistoryTypes, historyVars
<1> QED
  BY <1>1, <1>2, <1>3, <1>4, <1>5, <1>6, <1>7, <1>8

\* A step of the loop goroutine moves the loop's variables, the queue, and
\* by MarkRefreshPending a credential.
LEMMA LoopStepBasic ==
    ASSUME Basic, LoopTypes', QueueTypes', JobTypes', AuthTypes', LoopDiscipline',
           forgotten' \subseteq Credentials, UNCHANGED <<ref, wr, clockVars, spent, restored>>
    PROVE  Basic'
<1>1. /\ RefTypes' /\ RefDiscipline' /\ WrTypes' /\ WrDiscipline' /\ CountTypes'
  BY BasicParts, UnchangedTypes
<1>2. HistoryTypes'
  BY BasicParts DEF HistoryTypes
<1> QED
  BY <1>1, <1>2, BasicParts

\* RebuildRead, RebuildWrite, the start and the stop keep the types.
LEMMA RebuildBasic ==
    ASSUME Basic,
           \/ StartAutoRefresh \/ RebuildRead \/ RebuildWrite \/ LoopStops
    PROVE  Basic'
<1> USE BasicParts
<1>0. UNCHANGED <<jobs, auths, ref, wr, clockVars, spent, restored>>
  <2>1. StartAutoRefresh => UNCHANGED <<jobs, auths, ref, wr, clockVars, spent, restored>>
    BY DEF StartAutoRefresh, historyVars
  <2>2. RebuildRead => UNCHANGED <<jobs, auths, ref, wr, clockVars, spent, restored>>
    BY DEF RebuildRead, historyVars
  <2>3. RebuildWrite => UNCHANGED <<jobs, auths, ref, wr, clockVars, spent, restored>>
    BY DEF RebuildWrite
  <2>4. LoopStops => UNCHANGED <<jobs, auths, ref, wr, clockVars, spent, restored>>
    BY DEF LoopStops, historyVars
  <2> QED
    BY <2>1, <2>2, <2>3, <2>4
<1>1. JobTypes' /\ AuthTypes' /\ UNCHANGED <<ref, wr, clockVars, spent, restored>>
  BY <1>0, UnchangedTypes
<1>2. forgotten' \subseteq Credentials
  BY DEF StartAutoRefresh, RebuildRead, RebuildWrite, LoopStops, historyVars, HistoryTypes
<1>3. LoopTypes' /\ QueueTypes' /\ LoopDiscipline'
  <2>1. CASE StartAutoRefresh \/ LoopStops
    BY <2>1 DEF StartAutoRefresh, LoopStops, LoopTypes, QueueTypes, LoopDiscipline, queueVars,
           clockVars
  <2>2. CASE RebuildRead
    <3>1. \A c \in Credentials : nextRefreshCheckAt(auths[c], clock) \in Instants \cup {Never}
      BY NextCheckType DEF AuthTypes, CountTypes
    <3> QED
      BY <2>2, <3>1 DEF RebuildRead, LoopTypes, QueueTypes, LoopDiscipline, queueVars, clockVars
  <2>3. CASE RebuildWrite
    <3>1. timer' \in Nat \cup {Never}
      BY <2>3, TimerFacts DEF RebuildWrite, LoopTypes, CountTypes
    <3> QED
      BY <2>3, <3>1 DEF RebuildWrite, LoopTypes, QueueTypes, LoopDiscipline, clockVars
  <2> QED
    BY <2>1, <2>2, <2>3
<1> QED
  BY <1>1, <1>2, <1>3, LoopStepBasic

\* Waking, popping and the end of a pass keep the types.
LEMMA PassBasic ==
    ASSUME Basic, LoopWakes \/ TimerFires \/ DueDone \/ DirtyDone
    PROVE  Basic'
<1> USE BasicParts
<1>0. UNCHANGED <<jobs, auths, ref, wr, clockVars, spent, restored>>
  <2>1. LoopWakes => UNCHANGED <<jobs, auths, ref, wr, clockVars, spent, restored>>
    BY DEF LoopWakes, historyVars
  <2>2. TimerFires => UNCHANGED <<jobs, auths, ref, wr, clockVars, spent, restored>>
    BY DEF TimerFires, historyVars
  <2>3. DueDone => UNCHANGED <<jobs, auths, ref, wr, clockVars, spent, restored>>
    BY DEF DueDone, historyVars
  <2>4. DirtyDone => UNCHANGED <<jobs, auths, ref, wr, clockVars, spent, restored>>
    BY DEF DirtyDone, historyVars
  <2> QED
    BY <2>1, <2>2, <2>3, <2>4
<1>1. JobTypes' /\ AuthTypes' /\ UNCHANGED <<ref, wr, clockVars, spent, restored>>
  BY <1>0, UnchangedTypes
<1>2. forgotten' \subseteq Credentials
  <2>1. forgotten' = forgotten
    BY DEF LoopWakes, TimerFires, DueDone, DirtyDone, historyVars
  <2> QED
    BY <2>1 DEF HistoryTypes
<1>3. clock \in Time /\ clock <= clock /\ 0 <= clock /\ clock \in Nat /\ 0 \in Time
  <2>1. clock \in Time /\ 0 \in Time
    BY InstantFacts DEF CountTypes
  <2>2. clock \in Nat
    BY <2>1, InstantFacts
  <2> QED
    BY <2>1, <2>2
<1>4. LoopTypes' /\ QueueTypes' /\ LoopDiscipline'
  <2>1. CASE LoopWakes \/ DueDone
    BY <1>3, <2>1 DEF LoopWakes, DueDone, LoopTypes, QueueTypes, LoopDiscipline, clockVars
  <2>2. CASE TimerFires
    <3>1. todo' \subseteq Credentials
      BY <2>2 DEF TimerFires, InHeap
    <3>2. heap' \in [Credentials -> Instants \cup {Never}]
      BY <2>2 DEF TimerFires, QueueTypes
    <3> QED
      BY <1>3, <2>2, <3>1, <3>2 DEF TimerFires, LoopTypes, QueueTypes, LoopDiscipline, clockVars
  <2>3. CASE DirtyDone
    <3>1. timer' \in Nat \cup {Never}
      BY <2>3, TimerFacts DEF DirtyDone, LoopTypes, QueueTypes, CountTypes
    <3> QED
      BY <1>3, <2>3, <3>1 DEF DirtyDone, LoopTypes, QueueTypes, LoopDiscipline, clockVars, queueVars
  <2> QED
    BY <2>1, <2>2, <2>3
<1> QED
  BY <1>1, <1>2, <1>4, LoopStepBasic

\* Looking at one credential keeps the types.
LEMMA LookBasic ==
    ASSUME Basic, NEW c \in Credentials, HandleDueAuth(c) \/ ApplyDirty(c)
    PROVE  Basic'
<1> USE BasicParts
<1>1. JobTypes' /\ AuthTypes' /\ UNCHANGED <<ref, wr, clockVars, spent, restored>>
  BY UnchangedTypes DEF HandleDueAuth, ApplyDirty, historyVars
<1>2. forgotten' \subseteq Credentials
  BY DEF HandleDueAuth, ApplyDirty, historyVars, HistoryTypes
<1>3. nextRefreshCheckAt(auths[c], now) \in Instants \cup {Never}
  BY NextCheckType DEF AuthTypes, LoopTypes
<1>4. LoopTypes' /\ LoopDiscipline'
  <2>1. CASE HandleDueAuth(c)
    <3>1. CASE Present(c)
      BY <1>3, <2>1, <3>1 DEF HandleDueAuth, LoopTypes, LoopDiscipline, clockVars
    <3>2. CASE ~Present(c)
      BY <2>1, <3>2 DEF HandleDueAuth, LoopTypes, LoopDiscipline, clockVars
    <3> QED
      BY <3>1, <3>2
  <2>2. CASE ApplyDirty(c)
    BY <1>3, <2>2 DEF ApplyDirty, LoopTypes, LoopDiscipline, clockVars
  <2> QED
    BY <2>1, <2>2
<1>5. QueueTypes'
  BY UnchangedTypes DEF HandleDueAuth, ApplyDirty
<1> QED
  BY <1>1, <1>2, <1>4, <1>5, LoopStepBasic

\* markRefreshPending, the send and the heap update keep the types.
LEMMA DoBasic ==
    ASSUME Basic, MarkRefreshPending \/ SendJob \/ Act
    PROVE  Basic'
<1> USE BasicParts
<1>1. at \in Credentials
  BY DEF MarkRefreshPending, SendJob, Act, LoopDiscipline
<1>2. CASE MarkRefreshPending
  <2>1. now + PendingBackoff \in Instants
    BY InstantFacts DEF LoopTypes
  <2>2. nextRefreshCheckAt(auths[at], now) \in Instants \cup {Never}
    BY <1>1, NextCheckType DEF AuthTypes, LoopTypes
  <2>3. AuthTypes'
    <3>1. CASE Present(at) /\ auths[at].after <= now
      <4>1. auths[at] \in Auths
        BY <1>1, <3>1 DEF AuthTypes, Present
      <4>2. [auths[at] EXCEPT !.after = now + PendingBackoff] \in Auths
        BY <2>1, <4>1 DEF Auths
      <4> QED
        BY <1>1, <1>2, <3>1, <4>2 DEF MarkRefreshPending, AuthTypes
    <3>2. CASE ~(Present(at) /\ auths[at].after <= now)
      BY <1>2, <3>2 DEF MarkRefreshPending, AuthTypes
    <3> QED
      BY <3>1, <3>2
  <2>4. QueueTypes'
    BY <1>1, <1>2 DEF MarkRefreshPending, QueueTypes, queueReschedule
  <2>5. LoopTypes' /\ LoopDiscipline'
    BY <1>1, <1>2, <2>2 DEF MarkRefreshPending, LoopTypes, LoopDiscipline, clockVars
  <2>6. JobTypes' /\ forgotten' \subseteq Credentials
        /\ UNCHANGED <<ref, wr, clockVars, spent, restored>>
    BY <1>2, UnchangedTypes DEF MarkRefreshPending, historyVars, HistoryTypes
  <2> QED
    BY <2>3, <2>4, <2>5, <2>6, LoopStepBasic
<1>3. CASE SendJob
  <2>1. JobTypes'
    BY <1>1, <1>3, BoundsAreNaturals DEF SendJob, JobTypes
  <2>2. LoopTypes' /\ LoopDiscipline'
    BY <1>3 DEF SendJob, LoopTypes, LoopDiscipline, clockVars
  <2>3. AuthTypes' /\ QueueTypes' /\ forgotten' \subseteq Credentials
        /\ UNCHANGED <<ref, wr, clockVars, spent, restored>>
    BY <1>3, UnchangedTypes DEF SendJob, historyVars, HistoryTypes
  <2> QED
    BY <2>1, <2>2, <2>3, LoopStepBasic
<1>4. CASE Act
  <2>1. QueueTypes' /\ forgotten' \subseteq Credentials
    BY <1>1, <1>4 DEF Act, upsertOrRemove, QueueTypes, HistoryTypes, LoopTypes
  <2>2. LoopTypes' /\ LoopDiscipline'
    BY <1>4 DEF Act, LoopTypes, LoopDiscipline, clockVars
  <2>3. AuthTypes' /\ JobTypes' /\ UNCHANGED <<ref, wr, clockVars, spent, restored>>
    BY <1>4, UnchangedTypes DEF Act
  <2> QED
    BY <2>1, <2>2, <2>3, LoopStepBasic
<1> QED
  BY <1>2, <1>3, <1>4

\* Time passes and the loop is told to stop.
LEMMA TickBasic ==
    ASSUME Basic, Tick \/ StopAutoRefresh
    PROVE  Basic'
<1> USE BasicParts
<1>1. UNCHANGED <<queueVars, jobs, ref, wr, auths, historyVars, now, at>>
  BY DEF Tick, StopAutoRefresh, loopVars
<1>2. CountTypes' /\ clock <= clock' /\ clock \in Nat /\ clock' \in Nat /\ now \in Nat
  <2>1. clock \in Nat /\ now \in Nat
    BY InstantFacts DEF CountTypes, LoopTypes
  <2>2. CountTypes'
    BY BoundsAreNaturals DEF Tick, StopAutoRefresh, CountTypes, Time
  <2>3. clock' \in Nat
    BY <2>2, InstantFacts DEF CountTypes
  <2>4. clock <= clock'
    BY <2>1 DEF Tick, StopAutoRefresh
  <2> QED
    BY <2>1, <2>2, <2>3, <2>4
<1>3. LoopTypes'
  BY DEF Tick, StopAutoRefresh, LoopTypes, loopVars
<1>4. loop' = loop
  BY DEF Tick, StopAutoRefresh, loopVars
<1>5. LoopDiscipline'
  BY <1>1, <1>2, <1>4 DEF LoopDiscipline
<1> QED
  BY <1>1, <1>2, <1>3, <1>5, UnchangedTypes

\* A step of a refresher that touches nothing but its own record.
LEMMA RefStepBasic ==
    ASSUME Basic, RefTypes', RefDiscipline', AuthTypes', JobTypes', QueueTypes', CountTypes',
           HistoryTypes', UNCHANGED <<clock, loopVars, wr>>
    PROVE  Basic'
BY BasicParts, UnchangedTypes

\* A refresher at work goes on to another step with its id, with or without
\* a clone.
LEMMA GoOnTypes ==
    ASSUME RefTypes, RefDiscipline, NEW f \in Refreshers, ref[f].id \in Credentials,
           NEW pc \in {"call", "queue"}, NEW auth \in Auths \cup {None},
           pc = "call" => auth \in Auths,
           ref' = [ref EXCEPT ![f].pc = pc, ![f].auth = auth]
    PROVE  RefTypes' /\ RefDiscipline'
<1>1. PICK r : r = [ref[f] EXCEPT !.pc = pc, !.auth = auth]
  OBVIOUS
<1>2. ref[f] \in RefRecords
  BY DEF RefTypes
<1>3. r \in RefRecords /\ r.pc = pc /\ r.id = ref[f].id /\ r.auth = auth
  BY <1>1, <1>2 DEF RefRecords
<1>4. ref' = [ref EXCEPT ![f] = r]
  BY <1>1 DEF RefTypes
<1> QED
  BY <1>3, <1>4, RefChange

\* The start of a refresh keeps the types.
LEMMA BeginBasic ==
    ASSUME Basic,
           \/ \E w \in Workers : TakeJob(w)
           \/ \E q \in Requests, c \in Credentials : RequestUnauthorized(q, c)
           \/ \E f \in Refreshers : BeginRefresh(f)
    PROVE  Basic'
<1> USE BasicParts
<1>1. ASSUME NEW w \in Workers, TakeJob(w) PROVE Basic'
  <2>1. Head(jobs) \in Credentials /\ JobTypes'
    BY <1>1, BoundsAreNaturals DEF TakeJob, JobTypes
  <2>0. PICK c \in Credentials : c = Head(jobs)
    BY <2>1
  <2>2. PICK r : r = [Idle EXCEPT !.pc = "lock", !.id = c]
    OBVIOUS
  <2>3. r \in RefRecords /\ r.pc = "lock" /\ r.id \in Credentials
    <3>1. Idle \in RefRecords
      BY BoundsAreNaturals DEF RefRecords, Idle
    <3> QED
      BY <2>2, <3>1 DEF RefRecords
  <2>4. ref' = [ref EXCEPT ![w] = r]
    BY <1>1, <2>0, <2>2 DEF TakeJob
  <2>5. w \in Refreshers
    BY DEF Refreshers
  <2>6. RefTypes' /\ RefDiscipline'
    BY <2>3, <2>4, <2>5, RefChange
  <2> QED
    BY <1>1, <2>1, <2>6, UnchangedTypes, RefStepBasic DEF TakeJob, clockVars
<1>2. ASSUME NEW q \in Requests, NEW c \in Credentials, RequestUnauthorized(q, c) PROVE Basic'
  <2>1. auths[c].token \in 0 .. MaxTokens
    <3>1. auths[c] \in Auths
      BY <1>2 DEF RequestUnauthorized, Present, AuthTypes
    <3>2. Tokens \subseteq 0 .. MaxTokens
      BY BoundsAreNaturals DEF Tokens
    <3> QED
      BY <3>1, <3>2 DEF Auths
  <2>2. PICK r : r = [Idle EXCEPT !.pc = "lock", !.id = c, !.failed = auths[c].token]
    OBVIOUS
  <2>3. r \in RefRecords /\ r.pc = "lock" /\ r.id \in Credentials
    BY <2>1, <2>2 DEF RefRecords, Idle
  <2>4. ref' = [ref EXCEPT ![q] = r]
    BY <1>2, <2>2 DEF RequestUnauthorized
  <2>5. q \in Refreshers
    BY DEF Refreshers
  <2>6. RefTypes' /\ RefDiscipline'
    BY <2>3, <2>4, <2>5, RefChange
  <2>7. CountTypes'
    <3>1. calls < MaxCalls /\ calls' = calls + 1 /\ clock' = clock /\ tokens' = tokens
      BY <1>2 DEF RequestUnauthorized
    <3> QED
      BY <3>1, BoundsAreNaturals DEF CountTypes
  <2> QED
    BY <1>2, <2>6, <2>7, UnchangedTypes, RefStepBasic DEF RequestUnauthorized
<1>3. ASSUME NEW f \in Refreshers, BeginRefresh(f) PROVE Basic'
  <2>1. ref[f].pc = "lock" /\ ref[f].id \in Credentials
    BY <1>3 DEF BeginRefresh, RefDiscipline
  <2>2. RefTypes' /\ RefDiscipline'
    <3>1. CASE Ended(f)
      BY <2>1, <3>1, EndedTypes
    <3>2. CASE ~Ended(f)
      <4>1. /\ auths[ref[f].id] # None
            /\ ref' = [ref EXCEPT ![f].pc = "call", ![f].auth = auths[ref[f].id]]
        BY <1>3, <3>2 DEF BeginRefresh
      <4>2. auths[ref[f].id] \in Auths
        BY <2>1, <4>1 DEF AuthTypes
      <4> QED
        BY <2>1, <4>1, <4>2, GoOnTypes
    <3> QED
      BY <3>1, <3>2
  <2> QED
    BY <1>3, <2>2, UnchangedTypes, RefStepBasic DEF BeginRefresh, clockVars
<1> QED
  BY <1>1, <1>2, <1>3

\* A refreshed clone is a credential with the same or the next token.
LEMMA RefreshedFacts ==
    ASSUME NEW auth \in Auths, NEW effective \in BOOLEAN, clock \in Time,
           tokens \in 0 .. MaxTokens, effective => tokens < MaxTokens
    PROVE  /\ Refreshed(auth, effective) \in Auths
           /\ Refreshed(auth, effective).token = IF effective THEN tokens + 1 ELSE auth.token
<1>1. /\ clock + Period \in Instants /\ clock + IneffectiveBackoff \in Instants
      /\ 0 \in Instants
  BY InstantFacts
<1>2. effective => tokens + 1 \in Tokens
  BY BoundsAreNaturals DEF Tokens
<1>3. PICK fresh :
        fresh = [auth EXCEPT !.denied = FALSE, !.after = 0,
                             !.token = IF effective THEN tokens + 1 ELSE @,
                             !.due = IF effective THEN clock + Period ELSE @]
  OBVIOUS
<1>4. fresh \in Auths /\ fresh.token = IF effective THEN tokens + 1 ELSE auth.token
  <2>1. CASE effective
    BY <1>1, <1>2, <1>3, <2>1 DEF Auths
  <2>2. CASE ~effective
    BY <1>1, <1>3, <2>2 DEF Auths
  <2> QED
    BY <2>1, <2>2
<1>5. PICK late : late = [fresh EXCEPT !.after = clock + IneffectiveBackoff]
  OBVIOUS
<1>6. late \in Auths /\ late.token = fresh.token
  BY <1>1, <1>4, <1>5 DEF Auths
<1>7. Refreshed(auth, effective) = fresh \/ Refreshed(auth, effective) = late
  BY <1>3, <1>5 DEF Refreshed
<1> QED
  BY <1>4, <1>6, <1>7

\* The answer to a refresh keeps the types.
LEMMA AnswerBasic ==
    ASSUME Basic, NEW f \in Refreshers, Answer(f)
    PROVE  Basic'
<1> USE BasicParts
<1>1. ref[f].pc \in {"call", "queue"} /\ ref[f].id \in Credentials
  BY DEF Answer, RefreshCancelled, QueueRefreshed, RefreshFails, RefreshSucceeds, RefDiscipline
<1>2. CASE RefreshCancelled(f)
  <2>1. RefTypes' /\ RefDiscipline'
    BY <1>1, <1>2, EndedTypes DEF RefreshCancelled
  <2> QED
    BY <1>2, <2>1, UnchangedTypes, RefStepBasic DEF RefreshCancelled, clockVars
<1>3. CASE QueueRefreshed(f)
  <2>1. RefTypes' /\ RefDiscipline'
    BY <1>1, <1>3, EndedTypes DEF QueueRefreshed
  <2>2. QueueTypes'
    BY <1>1, <1>3, QueueFacts DEF QueueRefreshed
  <2> QED
    BY <1>3, <2>1, <2>2, UnchangedTypes, RefStepBasic DEF QueueRefreshed, clockVars
<1>4. ASSUME NEW denied \in BOOLEAN, RefreshFails(f, denied) PROVE Basic'
  <2>1. PICK c \in Credentials : c = ref[f].id
    BY <1>1
  <2>2. CASE Present(c)
    <3>1. auths[c] \in Auths
      BY <2>2 DEF Present, AuthTypes
    <3>2. PICK t \in Instants : t = IF denied THEN 0 ELSE clock + FailureBackoff
      BY InstantFacts DEF CountTypes
    <3>3. auths' = [auths EXCEPT ![c].denied = denied, ![c].after = t]
      BY <1>4, <2>1, <2>2, <3>2 DEF RefreshFails
    <3>4. AuthTypes'
      <4>1. PICK a : a = [auths[c] EXCEPT !.denied = denied, !.after = t]
        OBVIOUS
      <4>2. a \in Auths
        BY <3>1, <4>1 DEF Auths
      <4>3. auths' = [auths EXCEPT ![c] = a]
        BY <3>3, <4>1 DEF AuthTypes
      <4> QED
        BY <4>2, <4>3 DEF AuthTypes
    <3>5. RefTypes' /\ RefDiscipline'
      <4>1. ref' = [ref EXCEPT ![f].pc = "queue", ![f].auth = None]
        BY <1>4, <2>1, <2>2 DEF RefreshFails
      <4> QED
        BY <1>1, <4>1, GoOnTypes
    <3> QED
      BY <1>4, <3>4, <3>5, UnchangedTypes, RefStepBasic DEF RefreshFails, clockVars
  <2>3. CASE ~Present(c)
    <3>1. Ended(f) /\ auths' = auths
      BY <1>4, <2>1, <2>3 DEF RefreshFails
    <3>2. RefTypes' /\ RefDiscipline'
      BY <1>1, <3>1, EndedTypes
    <3> QED
      BY <1>4, <3>1, <3>2, UnchangedTypes, RefStepBasic DEF RefreshFails, clockVars
  <2> QED
    BY <2>2, <2>3
<1>5. ASSUME NEW effective \in BOOLEAN, RefreshSucceeds(f, effective) PROVE Basic'
  <2>1. PICK c \in Credentials : c = ref[f].id
    BY <1>1
  <2>2. ref[f].auth \in Auths
    BY <1>5 DEF RefreshSucceeds, RefDiscipline
  <2>3. CountTypes'
    <3>1. /\ clock' = clock /\ calls' = calls /\ (effective => tokens < MaxTokens)
          /\ tokens' = IF effective THEN tokens + 1 ELSE tokens
      BY <1>5 DEF RefreshSucceeds
    <3> QED
      BY <3>1, BoundsAreNaturals DEF CountTypes
  <2>4. HistoryTypes'
    <3>1. ref[f].auth.token \in Tokens
      BY <2>2 DEF Auths
    <3>2. restored' \subseteq restored \cup {c}
      <4>1. restored' = restored \cup {c} \/ restored' = restored
        BY <1>5, <2>1 DEF RefreshSucceeds
      <4> QED
        BY <4>1
    <3>3. spent' \subseteq spent \cup {ref[f].auth.token} /\ forgotten' = forgotten
      <4>1. spent' = IF effective THEN spent \cup {ref[f].auth.token} ELSE spent
        BY <1>5 DEF RefreshSucceeds
      <4>2. forgotten' = forgotten
        BY <1>5 DEF RefreshSucceeds
      <4> QED
        BY <4>1, <4>2
    <3> QED
      BY <3>1, <3>2, <3>3 DEF HistoryTypes
  <2>5. CASE Present(c)
    <3>1. Refreshed(ref[f].auth, effective) \in Auths
      BY <1>5, <2>2, RefreshedFacts DEF RefreshSucceeds, CountTypes
    <3>2. /\ auths' = [auths EXCEPT ![c] = Refreshed(ref[f].auth, effective)]
          /\ ref' = [ref EXCEPT ![f].pc = "queue", ![f].auth = None]
      BY <1>5, <2>1, <2>5 DEF RefreshSucceeds
    <3>3. AuthTypes'
      BY <3>1, <3>2 DEF AuthTypes
    <3>4. RefTypes' /\ RefDiscipline'
      BY <1>1, <3>2, GoOnTypes
    <3> QED
      BY <1>5, <2>3, <2>4, <3>3, <3>4, UnchangedTypes, RefStepBasic DEF RefreshSucceeds
  <2>6. CASE ~Present(c)
    <3>1. Ended(f) /\ auths' = auths
      BY <1>5, <2>1, <2>6 DEF RefreshSucceeds
    <3>2. RefTypes' /\ RefDiscipline'
      BY <1>1, <3>1, EndedTypes
    <3> QED
      BY <1>5, <2>3, <2>4, <3>1, <3>2, UnchangedTypes, RefStepBasic DEF RefreshSucceeds
  <2> QED
    BY <2>5, <2>6
<1> QED
  BY <1>2, <1>3, <1>4, <1>5 DEF Answer

\* The rest of a worker's round keeps the types.
LEMMA WorkerBasic ==
    ASSUME Basic, NEW w \in Workers, WorkerAgain(w) \/ WorkerStops(w)
    PROVE  Basic'
<1> USE BasicParts
<1>1. w \in Refreshers
  BY DEF Refreshers
<1>2. CASE WorkerAgain(w)
  <2>1. Idle \in RefRecords /\ Idle.pc = "idle"
    BY BoundsAreNaturals DEF Idle, RefRecords
  <2>2. ref[w].id \in Credentials
    BY <1>1, <1>2 DEF WorkerAgain, RefDiscipline
  <2>3. RefTypes' /\ RefDiscipline'
    BY <1>1, <1>2, <2>1, RefChange DEF WorkerAgain
  <2>4. QueueTypes'
    BY <1>2, <2>2, QueueFacts DEF WorkerAgain
  <2> QED
    BY <1>2, <2>3, <2>4, UnchangedTypes, RefStepBasic DEF WorkerAgain, clockVars
<1>3. CASE WorkerStops(w)
  <2>1. PICK r : r = [ref[w] EXCEPT !.pc = "exited"]
    OBVIOUS
  <2>2. ref[w] \in RefRecords
    BY <1>1 DEF RefTypes
  <2>3. r \in RefRecords /\ r.pc = "exited"
    BY <2>1, <2>2 DEF RefRecords
  <2>4. ref' = [ref EXCEPT ![w] = r]
    BY <1>3, <2>1 DEF WorkerStops
  <2>5. RefTypes' /\ RefDiscipline'
    BY <1>1, <2>3, <2>4, RefChange
  <2> QED
    BY <1>3, <2>5, UnchangedTypes, RefStepBasic DEF WorkerStops, clockVars
<1> QED
  BY <1>2, <1>3

\* A step of a writer keeps the types.
LEMMA WrStepBasic ==
    ASSUME Basic, WrTypes', WrDiscipline', AuthTypes', QueueTypes', CountTypes',
           HistoryTypes', UNCHANGED <<clock, loopVars, jobs, ref>>
    PROVE  Basic'
BY BasicParts, UnchangedTypes

\* A writer sets out with its clone.
LEMMA StartTypes ==
    ASSUME Basic, NEW u \in Writers, NEW c \in Credentials, NEW auth \in Auths,
           NEW kind \in Kinds \cup {"register"}, StartWrite(u, c, kind, auth)
    PROVE  WrTypes' /\ WrDiscipline' /\ calls' \in 0 .. MaxCalls
<1> USE BasicParts
<1>1. PICK r : r = [pc |-> "write", id |-> c, kind |-> kind, auth |-> auth]
  OBVIOUS
<1>2. r \in WrRecords /\ r.id = c /\ r.auth = auth
  BY <1>1 DEF WrRecords
<1>3. wr' = [wr EXCEPT ![u] = r]
  BY <1>1 DEF StartWrite
<1>4. WrTypes' /\ WrDiscipline'
  BY <1>2, <1>3, WrChange
<1>5. calls' \in 0 .. MaxCalls
  BY BoundsAreNaturals DEF StartWrite, CountTypes
<1> QED
  BY <1>4, <1>5

\* The start of a write keeps the types.
LEMMA WriterBeginsBasic ==
    ASSUME Basic, NEW u \in Writers, WriterBegins(u)
    PROVE  Basic'
<1> USE BasicParts
<1>1. ASSUME NEW c \in Credentials, NEW kind \in Kinds, PatchAuthFileStatus(u, c, kind)
      PROVE  Basic'
  <2>1. PICK auth : auth = [auths[c] EXCEPT !.disabled = (kind = "disable")]
    OBVIOUS
  <2>2. auths[c] \in Auths
    BY <1>1 DEF PatchAuthFileStatus, Present, AuthTypes
  <2>3. (kind = "disable") \in BOOLEAN
    OBVIOUS
  <2>4. auth \in Auths
    BY <2>1, <2>2, <2>3 DEF Auths
  <2>5. StartWrite(u, c, kind, auth)
    BY <1>1, <2>1 DEF PatchAuthFileStatus
  <2>6. WrTypes' /\ WrDiscipline' /\ calls' \in 0 .. MaxCalls
    BY <2>4, <2>5, StartTypes
  <2>7. CountTypes'
    BY <1>1, <2>6 DEF PatchAuthFileStatus, CountTypes
  <2> QED
    BY <1>1, <2>6, <2>7, UnchangedTypes, WrStepBasic DEF PatchAuthFileStatus
<1>2. ASSUME NEW c \in Credentials, ReloadAuthFile(u, c)
      PROVE  Basic'
  <2>0. PICK t : t = IF auths[c].disabled THEN 0 ELSE auths[c].after
    OBVIOUS
  <2>1. PICK auth : auth = [auths[c] EXCEPT !.denied = FALSE, !.after = t]
    OBVIOUS
  <2>2. auths[c] \in Auths
    BY <1>2 DEF ReloadAuthFile, Present, AuthTypes
  <2>3. t \in Instants
    BY <2>0, <2>2, InstantFacts DEF Auths
  <2>4. auth \in Auths
    BY <2>1, <2>2, <2>3 DEF Auths
  <2>5. StartWrite(u, c, "reload", auth)
    BY <1>2, <2>0, <2>1 DEF ReloadAuthFile
  <2>6. WrTypes' /\ WrDiscipline' /\ calls' \in 0 .. MaxCalls
    BY <1>2, <2>4, <2>5, StartTypes DEF ReloadAuthFile
  <2>7. CountTypes'
    BY <1>2, <2>6 DEF ReloadAuthFile, CountTypes
  <2> QED
    BY <1>2, <2>6, <2>7, UnchangedTypes, WrStepBasic DEF ReloadAuthFile
<1>3. ASSUME NEW c \in Credentials, LoginAuthFile(u, c)
      PROVE  Basic'
  <2>0. PICK t : t = IF Present(c) /\ ~auths[c].disabled THEN auths[c].after ELSE 0
    OBVIOUS
  <2>1. PICK auth : auth = [token |-> tokens + 1, due |-> clock + Period, after |-> t,
                            denied |-> FALSE, disabled |-> FALSE]
    OBVIOUS
  <2>2. t \in Instants
    BY <2>0, InstantFacts DEF Present, AuthTypes, Auths
  <2>3. tokens + 1 \in Tokens /\ clock + Period \in Instants
    <3>1. tokens < MaxTokens
      BY <1>3 DEF LoginAuthFile
    <3>2. tokens + 1 \in Tokens
      BY <3>1, BoundsAreNaturals DEF CountTypes, Tokens
    <3>3. clock + Period \in Instants
      BY InstantFacts DEF CountTypes
    <3> QED
      BY <3>2, <3>3
  <2>4. auth \in Auths
    BY <2>1, <2>2, <2>3 DEF Auths
  <2>5. PICK kind \in Kinds \cup {"register"} : kind = IF Present(c) THEN "login" ELSE "register"
    BY <1>3 DEF LoginAuthFile
  <2>6. StartWrite(u, c, kind, auth)
    BY <1>3, <2>0, <2>1, <2>5 DEF LoginAuthFile
  <2>7. WrTypes' /\ WrDiscipline' /\ calls' \in 0 .. MaxCalls
    BY <2>4, <2>6, StartTypes
  <2>8. tokens' \in 0 .. MaxTokens
    BY <1>3, BoundsAreNaturals DEF LoginAuthFile, CountTypes
  <2>9. CountTypes'
    BY <1>3, <2>7, <2>8 DEF LoginAuthFile, CountTypes
  <2> QED
    BY <1>3, <2>7, <2>9, UnchangedTypes, WrStepBasic DEF LoginAuthFile
<1>4. ASSUME NEW c \in Credentials, Remove(u, c)
      PROVE  Basic'
  <2>1. PICK r : r = [pc |-> "unschedule", id |-> c, kind |-> "remove", auth |-> None]
    OBVIOUS
  <2>2. "remove" \in Kinds
    BY <1>4 DEF Remove
  <2>3. r \in WrRecords /\ r.id = c /\ r.pc # "write"
    BY <2>1, <2>2 DEF WrRecords
  <2>4. wr' = [wr EXCEPT ![u] = r]
    BY <1>4, <2>1 DEF Remove
  <2>5. WrTypes' /\ WrDiscipline'
    BY <2>3, <2>4, WrChange
  <2>6. CountTypes'
    BY <1>4, BoundsAreNaturals DEF Remove, CountTypes
  <2>7. AuthTypes'
    BY <1>4 DEF Remove, AuthTypes
  <2> QED
    BY <1>4, <2>5, <2>6, <2>7, UnchangedTypes, WrStepBasic DEF Remove
<1> QED
  BY <1>1, <1>2, <1>3, <1>4 DEF WriterBegins

\* The end of a write keeps the types.
LEMMA WriterEndsBasic ==
    ASSUME Basic, NEW u \in Writers, WriterEnds(u)
    PROVE  Basic'
<1> USE BasicParts
<1>1. PICK c \in Credentials : c = wr[u].id
  BY DEF WriterEnds, WriteAuth, QueueWritten, Unschedule, WrDiscipline
<1>2. IdleWriter \in WrRecords /\ IdleWriter.pc = "idle"
  BY DEF IdleWriter, WrRecords
<1>3. CASE WriteAuth(u)
  <2>1. wr[u].auth \in Auths
    BY <1>3 DEF WriteAuth, WrDiscipline
  <2>2. CASE Present(c) \/ wr[u].kind = "register"
    <3>1. /\ auths' = [auths EXCEPT ![c] = wr[u].auth]
          /\ wr' = [wr EXCEPT ![u].pc = "queue", ![u].auth = None]
          /\ restored' = restored \cup {c} \/ restored' = restored
      BY <1>1, <1>3, <2>2 DEF WriteAuth
    <3>2. PICK r : r = [wr[u] EXCEPT !.pc = "queue", !.auth = None]
      OBVIOUS
    <3>3. wr[u] \in WrRecords
      BY DEF WrTypes
    <3>4. r \in WrRecords /\ r.pc = "queue" /\ r.id = wr[u].id
      BY <3>2, <3>3 DEF WrRecords
    <3>5. wr' = [wr EXCEPT ![u] = r]
      BY <3>1, <3>2
    <3>6. WrTypes' /\ WrDiscipline'
      BY <1>1, <3>4, <3>5, WrChange
    <3>7. AuthTypes'
      BY <2>1, <3>1 DEF AuthTypes
    <3>8. HistoryTypes'
      BY <1>3, <3>1 DEF WriteAuth, HistoryTypes
    <3> QED
      BY <1>3, <3>6, <3>7, <3>8, UnchangedTypes, WrStepBasic DEF WriteAuth, clockVars
  <2>3. CASE ~(Present(c) \/ wr[u].kind = "register")
    <3>1. wr' = [wr EXCEPT ![u] = IdleWriter] /\ UNCHANGED <<auths, restored>>
      BY <1>1, <1>3, <2>3 DEF WriteAuth
    <3>2. WrTypes' /\ WrDiscipline'
      BY <1>2, <3>1, WrChange
    <3> QED
      BY <1>3, <3>1, <3>2, UnchangedTypes, WrStepBasic DEF WriteAuth, clockVars, historyVars
  <2> QED
    BY <2>2, <2>3
<1>4. CASE QueueWritten(u)
  <2>1. WrTypes' /\ WrDiscipline'
    BY <1>2, <1>4, WrChange DEF QueueWritten
  <2>2. QueueTypes'
    BY <1>1, <1>4, QueueFacts DEF QueueWritten
  <2> QED
    BY <1>4, <2>1, <2>2, UnchangedTypes, WrStepBasic DEF QueueWritten, clockVars
<1>5. CASE Unschedule(u)
  <2>1. WrTypes' /\ WrDiscipline'
    BY <1>2, <1>5, WrChange DEF Unschedule
  <2>2. QueueTypes'
    BY <1>1, <1>5 DEF Unschedule, QueueTypes
  <2>3. HistoryTypes'
    BY <1>1, <1>5 DEF Unschedule, HistoryTypes
  <2> QED
    BY <1>5, <2>1, <2>2, <2>3, UnchangedTypes, WrStepBasic DEF Unschedule, clockVars
<1> QED
  BY <1>3, <1>4, <1>5 DEF WriterEnds

\* The result of a request keeps the types.
LEMMA ResultBasic ==
    ASSUME Basic, NEW c \in Credentials, NEW denied \in BOOLEAN, MarkResult(c, denied)
    PROVE  Basic'
<1> USE BasicParts
<1>1. auths[c] \in Auths
  BY DEF MarkResult, Present, AuthTypes
<1>2. PICK a : a = [auths[c] EXCEPT !.denied = denied]
  OBVIOUS
<1>3. a \in Auths
  BY <1>1, <1>2 DEF Auths
<1>4. auths' = [auths EXCEPT ![c] = a]
  BY <1>2 DEF MarkResult
<1>5. AuthTypes'
  BY <1>3, <1>4 DEF AuthTypes
<1>6. CountTypes'
  BY BoundsAreNaturals DEF MarkResult, CountTypes
<1>7. HistoryTypes'
  <2>1. forgotten' = forgotten \cup {c} \/ forgotten' = forgotten
    BY DEF MarkResult
  <2> QED
    BY <2>1 DEF MarkResult, HistoryTypes
<1> QED
  BY <1>5, <1>6, <1>7, UnchangedTypes, WrStepBasic DEF MarkResult

\* Basic is an invariant by itself.
LEMMA NextBasic ==
    Basic /\ [Next]_vars => Basic'
<1> SUFFICES ASSUME Basic, [Next]_vars PROVE Basic'
  OBVIOUS
<1>1. CASE Next
  <2>1. CASE LoopStep
    BY <2>1, RebuildBasic, PassBasic, LookBasic, DoBasic DEF LoopStep
  <2>2. CASE StartAutoRefresh \/ StopAutoRefresh \/ Tick
    BY <2>2, RebuildBasic, TickBasic
  <2>3. ASSUME NEW f \in Refreshers, BeginRefresh(f) \/ Answer(f) PROVE Basic'
    BY <2>3, BeginBasic, AnswerBasic
  <2>4. ASSUME NEW w \in Workers, WorkerStep(w) PROVE Basic'
    BY <2>4, BeginBasic, WorkerBasic DEF WorkerStep
  <2>5. ASSUME NEW q \in Requests, NEW c \in Credentials, RequestUnauthorized(q, c) PROVE Basic'
    BY <2>5, BeginBasic
  <2>6. ASSUME NEW u \in Writers, WriterBegins(u) \/ WriterEnds(u) PROVE Basic'
    BY <2>6, WriterBeginsBasic, WriterEndsBasic
  <2>7. ASSUME NEW c \in Credentials, NEW denied \in BOOLEAN, MarkResult(c, denied) PROVE Basic'
    BY <2>7, ResultBasic
  <2> QED
    BY <1>1, <2>1, <2>2, <2>3, <2>4, <2>5, <2>6, <2>7 DEF Next
<1>2. CASE UNCHANGED vars
  BY <1>2, BasicParts, UnchangedTypes DEF vars, clockVars
<1> QED
  BY <1>1, <1>2

-----------------------------------------------------------------------------
(* Tokens.                                                                 *)

\* A writer that brings a token nobody else has seen yet.
Pending(u) == wr[u].pc = "write" /\ wr[u].kind \in {"login", "register"}

\* Credential c uses token t: in the manager, in a refresh or in a prepared
\* write of an existing credential.
Uses(c, t) ==
    \/ auths[c] # None /\ auths[c].token = t
    \/ \E f \in Refreshers : ref[f].pc = "call" /\ ref[f].id = c /\ ref[f].auth.token = t
    \/ \E u \in Writers : /\ wr[u].pc = "write" /\ ~Pending(u)
                          /\ wr[u].id = c /\ wr[u].auth.token = t

\* Only tokens issued so far occur.
Issued ==
    /\ \A c \in Credentials, t \in Tokens : Uses(c, t) => t <= tokens
    /\ \A u \in Writers : Pending(u) => wr[u].auth.token <= tokens
    /\ \A t \in spent : t <= tokens

\* Two credentials never share a token.
OwnToken ==
    \A c, d \in Credentials, t \in Tokens : Uses(c, t) /\ Uses(d, t) => c = d

\* A token that is yet to be written is nobody's and is not spent.
NewToken ==
    \A u \in Writers : Pending(u) =>
        /\ wr[u].auth.token \notin spent
        /\ \A c \in Credentials, t \in Tokens : t = wr[u].auth.token => ~Uses(c, t)
        /\ \A v \in Writers : Pending(v) /\ wr[v].auth.token = wr[u].auth.token => u = v

\* The refresh lock of a credential.
OneRefresh ==
    \A f, g \in Refreshers, c \in Credentials : Holds(f, c) /\ Holds(g, c) => f = g

CurrentIsUnspent ==
    \A c \in Credentials : Present(c) /\ c \notin restored => auths[c].token \notin spent

\* What most steps do to the holders of tokens: no clone is taken, and a
\* credential keeps its token.
CallsKept ==
    \A g \in Refreshers :
        /\ ref'[g].pc = "call" => ref'[g] = ref[g]
        /\ ref'[g].pc = "queue" => ref[g].pc \in {"call", "queue"} /\ ref'[g].id = ref[g].id

WritesKept == \A u \in Writers : wr'[u].pc = "write" => wr'[u] = wr[u]

AuthsKept ==
    \A c \in Credentials :
        auths'[c] # None => auths[c] # None /\ auths'[c].token = auths[c].token

\* Who holds a token is a credential of the model, and the token a number.
LEMMA HeldFacts ==
    ASSUME Basic
    PROVE  /\ \A c \in Credentials : auths[c] # None => auths[c].token \in Tokens
           /\ \A f \in Refreshers : ref[f].pc = "call" =>
                 ref[f].id \in Credentials /\ ref[f].auth.token \in Tokens
           /\ \A u \in Writers : wr[u].pc = "write" =>
                 wr[u].id \in Credentials /\ wr[u].auth.token \in Tokens
           /\ tokens \in Nat /\ Tokens \subseteq Nat
<1> USE BasicParts
<1>1. \A c \in Credentials : auths[c] # None => auths[c].token \in Tokens
  BY DEF AuthTypes, Auths
<1>2. \A f \in Refreshers : ref[f].pc = "call" =>
         ref[f].id \in Credentials /\ ref[f].auth.token \in Tokens
  BY DEF RefDiscipline, Auths
<1>3. \A u \in Writers : wr[u].pc = "write" =>
         wr[u].id \in Credentials /\ wr[u].auth.token \in Tokens
  BY DEF WrDiscipline, Auths
<1>4. tokens \in Nat /\ Tokens \subseteq Nat
  BY BoundsAreNaturals DEF CountTypes, Tokens
<1> QED
  BY <1>1, <1>2, <1>3, <1>4

\* A refresher that is not at the call gives no token to anybody.
LEMMA RefKeeps ==
    ASSUME RefTypes, NEW f \in Refreshers, NEW r, ref' = [ref EXCEPT ![f] = r],
           r.pc \notin {"call", "queue"}
    PROVE  CallsKept
<1>1. ref'[f] = r /\ \A g \in Refreshers \ {f} : ref'[g] = ref[g]
  BY DEF RefTypes
<1> QED
  BY <1>1 DEF CallsKept

\* A refresh that ends neither calls upstream nor queues.
LEMMA EndedKeeps ==
    ASSUME RefTypes, NEW f \in Refreshers, Ended(f)
    PROVE  CallsKept
<1>1. PICK r : r = IF f \in Workers
                   THEN [Idle EXCEPT !.pc = "again", !.id = ref[f].id] ELSE Idle
  OBVIOUS
<1>2. r.pc \notin {"call", "queue"}
  BY <1>1 DEF Idle
<1>3. ref' = [ref EXCEPT ![f] = r]
  BY <1>1 DEF Ended
<1> QED
  BY <1>2, <1>3, RefKeeps

\* A writer that does not begin to write leaves the pending writes as they are.
LEMMA WrKeeps ==
    ASSUME WrTypes, NEW u \in Writers, NEW r, wr' = [wr EXCEPT ![u] = r], r.pc # "write"
    PROVE  WritesKept
<1>1. wr'[u] = r /\ \A v \in Writers \ {u} : wr'[v] = wr[v]
  BY DEF WrTypes
<1> QED
  BY <1>1 DEF WritesKept

\* Such a step gives nobody another token.
LEMMA QuietUses ==
    ASSUME CallsKept, WritesKept, AuthsKept
    PROVE  /\ \A c \in Credentials, t \in Tokens : Uses(c, t)' => Uses(c, t)
           /\ \A u \in Writers : Pending(u)' => Pending(u) /\ wr'[u] = wr[u]
<1>1. ASSUME NEW u \in Writers, Pending(u)' PROVE Pending(u) /\ wr'[u] = wr[u]
  <2>1. wr'[u].pc = "write"
    BY <1>1 DEF Pending
  <2>2. wr'[u] = wr[u]
    BY <2>1 DEF WritesKept
  <2> QED
    BY <1>1, <2>2 DEF Pending
<1>2. ASSUME NEW c \in Credentials, NEW t \in Tokens, Uses(c, t)' PROVE Uses(c, t)
  <2>1. CASE auths'[c] # None /\ auths'[c].token = t
    BY <2>1 DEF Uses, AuthsKept
  <2>2. ASSUME NEW f \in Refreshers, ref'[f].pc = "call", ref'[f].id = c, ref'[f].auth.token = t
        PROVE  Uses(c, t)
    <3>1. ref'[f] = ref[f]
      BY <2>2 DEF CallsKept
    <3> QED
      BY <2>2, <3>1 DEF Uses
  <2>3. ASSUME NEW u \in Writers, wr'[u].pc = "write", ~Pending(u)', wr'[u].id = c,
               wr'[u].auth.token = t
        PROVE  Uses(c, t)
    <3>1. wr'[u] = wr[u]
      BY <2>3 DEF WritesKept
    <3>2. ~Pending(u)
      BY <2>3, <3>1 DEF Pending
    <3> QED
      BY <2>3, <3>1, <3>2 DEF Uses
  <2> QED
    BY <1>2, <2>1, <2>2, <2>3 DEF Uses
<1> QED
  BY <1>1, <1>2

\* How tokens may move: at most the next one comes up, with the credential
\* c0, and only a token of c0 is spent.
LEMMA TokensMove ==
    ASSUME Basic, Issued, OwnToken, NewToken, NEW c0,
           \A c \in Credentials, t \in Tokens :
              Uses(c, t)' => Uses(c, t) \/ (c = c0 /\ t = tokens + 1 /\ tokens' = tokens + 1),
           \A u \in Writers : Pending(u)' => Pending(u) /\ wr'[u] = wr[u],
           \A t \in spent' : t \in spent \/ (c0 \in Credentials /\ t \in Tokens /\ Uses(c0, t)),
           tokens' \in {tokens, tokens + 1}
    PROVE  Issued' /\ OwnToken' /\ NewToken'
<1>1. /\ tokens \in Nat /\ Tokens \subseteq Nat
      /\ \A u \in Writers : Pending(u) => wr[u].auth.token \in Tokens
      /\ spent \subseteq Tokens
  BY HeldFacts, BasicParts DEF Pending, HistoryTypes
<1>2. /\ tokens < tokens + 1 /\ tokens <= tokens' /\ tokens' \in Nat
      /\ \A t \in Nat : t <= tokens => t <= tokens' /\ t # tokens + 1
  BY <1>1
<1>3. Issued'
  <2>1. ASSUME NEW c \in Credentials, NEW t \in Tokens, Uses(c, t)' PROVE t <= tokens'
    BY <1>1, <1>2, <2>1 DEF Issued
  <2>2. ASSUME NEW u \in Writers, Pending(u)' PROVE wr'[u].auth.token <= tokens'
    BY <1>1, <1>2, <2>2 DEF Issued
  <2>3. ASSUME NEW t \in spent' PROVE t <= tokens'
    BY <1>1, <1>2, <2>3 DEF Issued
  <2> QED
    BY <2>1, <2>2, <2>3 DEF Issued
<1>4. OwnToken'
  <2>1. ASSUME NEW c \in Credentials, NEW d \in Credentials, NEW t \in Tokens,
               Uses(c, t)', Uses(d, t)'
        PROVE  c = d
    <3>1. t <= tokens => t # tokens + 1
      BY <1>1, <1>2
    <3>2. Uses(c, t) => t <= tokens
      BY DEF Issued
    <3>3. Uses(d, t) => t <= tokens
      BY DEF Issued
    <3>4. CASE Uses(c, t) /\ Uses(d, t)
      BY <3>4 DEF OwnToken
    <3>5. CASE ~(Uses(c, t) /\ Uses(d, t))
      BY <2>1, <3>1, <3>2, <3>3, <3>5
    <3> QED
      BY <3>4, <3>5
  <2> QED
    BY <2>1 DEF OwnToken
<1>5. NewToken'
  <2>1. SUFFICES ASSUME NEW u \in Writers, Pending(u)'
                 PROVE  /\ wr'[u].auth.token \notin spent'
                        /\ \A c \in Credentials, s \in Tokens :
                              s = wr'[u].auth.token => ~Uses(c, s)'
                        /\ \A v \in Writers : Pending(v)' /\ wr'[v].auth.token = wr'[u].auth.token
                              => u = v
    BY DEF NewToken
  <2>2. PICK t \in Tokens : t = wr[u].auth.token
    BY <1>1, <2>1
  <2>3. /\ t = wr'[u].auth.token /\ t \notin spent /\ t <= tokens
        /\ \A c \in Credentials : ~Uses(c, t)
        /\ \A v \in Writers : Pending(v) /\ wr[v].auth.token = t => u = v
    BY <2>1, <2>2 DEF NewToken, Issued
  <2>4. t # tokens + 1
    BY <1>1, <1>2, <2>3
  <2>5. \A c \in Credentials : ~Uses(c, t)'
    BY <2>3, <2>4
  <2>6. t \notin spent'
    BY <2>3
  <2>7. \A v \in Writers : Pending(v)' /\ wr'[v].auth.token = t => u = v
    BY <2>3
  <2> QED
    BY <2>3, <2>5, <2>6, <2>7
<1> QED
  BY <1>3, <1>4, <1>5

TokenParts ==
    Issued /\ OwnToken /\ NewToken /\ OneRefresh /\ CurrentIsUnspent /\ SpentTokenIsNotUsed

\* A step that takes no clone and issues no token keeps the invariant.
LEMMA QuietTokens ==
    ASSUME Basic, TokenParts, CallsKept, WritesKept, AuthsKept,
           UNCHANGED <<tokens, spent, restored>>
    PROVE  TokenParts'
<1> USE DEF TokenParts
<1>1. Issued' /\ OwnToken' /\ NewToken'
  BY QuietUses, TokensMove
<1>2. OneRefresh'
  <2>1. ASSUME NEW g \in Refreshers, NEW c \in Credentials, Holds(g, c)' PROVE Holds(g, c)
    BY <2>1 DEF Holds, CallsKept
  <2> QED
    BY <2>1 DEF OneRefresh
<1>3. CurrentIsUnspent'
  BY DEF CurrentIsUnspent, AuthsKept, Present
<1>4. SpentTokenIsNotUsed'
  BY DEF SpentTokenIsNotUsed, CallsKept
<1> QED
  BY <1>1, <1>2, <1>3, <1>4

\* A credential of which only the other fields change keeps its token.
LEMMA AuthKeeps ==
    ASSUME AuthTypes, NEW c \in Credentials, NEW a \in Auths, auths[c] # None,
           a.token = auths[c].token, auths' = [auths EXCEPT ![c] = a]
    PROVE  AuthsKept
<1>1. auths'[c] = a /\ \A d \in Credentials \ {c} : auths'[d] = auths[d]
  BY DEF AuthTypes
<1> QED
  BY <1>1 DEF AuthsKept

\* What a step leaves alone is kept.
LEMMA UnchangedKeeps ==
    /\ UNCHANGED ref => CallsKept
    /\ UNCHANGED wr => WritesKept
    /\ UNCHANGED auths => AuthsKept
BY DEF CallsKept, WritesKept, AuthsKept

\* The loop only postpones the next check of a credential.
LEMMA LoopTokens ==
    ASSUME Basic, TokenParts, LoopStep \/ StartAutoRefresh \/ StopAutoRefresh \/ Tick
    PROVE  TokenParts'
<1>1. CASE MarkRefreshPending
  <2>1. at \in Credentials /\ now \in Time
    BY <1>1, BasicParts DEF MarkRefreshPending, LoopDiscipline, LoopTypes
  <2>2. AuthsKept
    <3>1. CASE Present(at) /\ auths[at].after <= now
      <4>1. PICK a : a = [auths[at] EXCEPT !.after = now + PendingBackoff]
        OBVIOUS
      <4>2. auths[at] \in Auths
        BY <2>1, <3>1, BasicParts DEF AuthTypes, Present
      <4>3. now + PendingBackoff \in Instants
        BY <2>1, InstantFacts
      <4>4. a \in Auths /\ a.token = auths[at].token
        BY <4>1, <4>2, <4>3 DEF Auths
      <4>5. auths' = [auths EXCEPT ![at] = a]
        BY <1>1, <3>1, <4>1 DEF MarkRefreshPending
      <4> QED
        BY <2>1, <3>1, <4>4, <4>5, AuthKeeps, BasicParts DEF Present
    <3>2. CASE ~(Present(at) /\ auths[at].after <= now)
      BY <1>1, <3>2, UnchangedKeeps DEF MarkRefreshPending
    <3> QED
      BY <3>1, <3>2
  <2> QED
    BY <1>1, <2>2, UnchangedKeeps, QuietTokens DEF MarkRefreshPending, clockVars, historyVars
<1>2. CASE RebuildRead \/ RebuildWrite \/ LoopStops \/ LoopWakes
  <2>1. UNCHANGED <<ref, wr, auths, tokens, spent, restored>>
    BY <1>2 DEF RebuildRead, RebuildWrite, LoopStops, LoopWakes, clockVars, historyVars
  <2> QED
    BY <2>1, UnchangedKeeps, QuietTokens
<1>3. CASE TimerFires \/ SendJob \/ DueDone \/ Act \/ DirtyDone
  <2>1. UNCHANGED <<ref, wr, auths, tokens, spent, restored>>
    BY <1>3 DEF TimerFires, SendJob, DueDone, Act, DirtyDone, clockVars, historyVars
  <2> QED
    BY <2>1, UnchangedKeeps, QuietTokens
<1>4. ASSUME NEW c \in Credentials, HandleDueAuth(c) \/ ApplyDirty(c) PROVE TokenParts'
  <2>1. UNCHANGED <<ref, wr, auths, tokens, spent, restored>>
    BY <1>4 DEF HandleDueAuth, ApplyDirty, clockVars, historyVars
  <2> QED
    BY <2>1, UnchangedKeeps, QuietTokens
<1>5. CASE StartAutoRefresh \/ StopAutoRefresh \/ Tick
  <2>1. UNCHANGED <<ref, wr, auths, tokens, spent, restored>>
    BY <1>5 DEF StartAutoRefresh, StopAutoRefresh, Tick, clockVars, historyVars
  <2> QED
    BY <2>1, UnchangedKeeps, QuietTokens
<1> QED
  BY <1>1, <1>2, <1>3, <1>4, <1>5 DEF LoopStep

\* Requests that start a refresh, workers and results of requests.
LEMMA OutsideTokens ==
    ASSUME Basic, TokenParts,
           \/ \E w \in Workers : WorkerStep(w)
           \/ \E q \in Requests, c \in Credentials : RequestUnauthorized(q, c)
           \/ \E c \in Credentials, denied \in BOOLEAN : MarkResult(c, denied)
    PROVE  TokenParts'
<1> USE BasicParts
<1>1. ASSUME NEW w \in Workers, TakeJob(w) PROVE TokenParts'
  <2>1. PICK r : r = [Idle EXCEPT !.pc = "lock", !.id = Head(jobs)]
    OBVIOUS
  <2>2. r.pc = "lock"
    BY <2>1 DEF Idle
  <2>3. w \in Refreshers /\ ref' = [ref EXCEPT ![w] = r]
    BY <1>1, <2>1 DEF TakeJob, Refreshers
  <2>4. CallsKept
    BY <2>2, <2>3, RefKeeps
  <2> QED
    BY <1>1, <2>4, UnchangedKeeps, QuietTokens DEF TakeJob, clockVars, historyVars
<1>2. ASSUME NEW w \in Workers, WorkerAgain(w) PROVE TokenParts'
  <2>1. w \in Refreshers /\ ref' = [ref EXCEPT ![w] = Idle] /\ Idle.pc = "idle"
    BY <1>2 DEF WorkerAgain, Refreshers, Idle
  <2>2. CallsKept
    BY <2>1, RefKeeps
  <2> QED
    BY <1>2, <2>2, UnchangedKeeps, QuietTokens DEF WorkerAgain, clockVars, historyVars
<1>3. ASSUME NEW w \in Workers, WorkerStops(w) PROVE TokenParts'
  <2>1. PICK r : r = [ref[w] EXCEPT !.pc = "exited"]
    OBVIOUS
  <2>2. w \in Refreshers /\ ref' = [ref EXCEPT ![w] = r]
    BY <1>3, <2>1 DEF WorkerStops, Refreshers
  <2>3. r.pc = "exited"
    BY <2>1, <2>2 DEF RefTypes, RefRecords
  <2>4. CallsKept
    BY <2>2, <2>3, RefKeeps
  <2> QED
    BY <1>3, <2>4, UnchangedKeeps, QuietTokens DEF WorkerStops, clockVars, historyVars
<1>4. ASSUME NEW q \in Requests, NEW c \in Credentials, RequestUnauthorized(q, c)
      PROVE  TokenParts'
  <2>1. PICK r : r = [Idle EXCEPT !.pc = "lock", !.id = c, !.failed = auths[c].token]
    OBVIOUS
  <2>2. r.pc = "lock"
    BY <2>1 DEF Idle
  <2>3. q \in Refreshers /\ ref' = [ref EXCEPT ![q] = r]
    BY <1>4, <2>1 DEF RequestUnauthorized, Refreshers
  <2>4. CallsKept
    BY <2>2, <2>3, RefKeeps
  <2> QED
    BY <1>4, <2>4, UnchangedKeeps, QuietTokens DEF RequestUnauthorized, historyVars
<1>5. ASSUME NEW c \in Credentials, NEW denied \in BOOLEAN, MarkResult(c, denied)
      PROVE  TokenParts'
  <2>1. PICK a : a = [auths[c] EXCEPT !.denied = denied]
    OBVIOUS
  <2>2. auths[c] \in Auths /\ auths[c] # None
    BY <1>5 DEF MarkResult, Present, AuthTypes
  <2>3. a \in Auths /\ a.token = auths[c].token
    BY <2>1, <2>2 DEF Auths
  <2>4. auths' = [auths EXCEPT ![c] = a]
    BY <1>5, <2>1 DEF MarkResult
  <2>5. AuthsKept
    BY <2>2, <2>3, <2>4, AuthKeeps
  <2> QED
    BY <1>5, <2>5, UnchangedKeeps, QuietTokens DEF MarkResult
<1> QED
  BY <1>1, <1>2, <1>3, <1>4, <1>5 DEF WorkerStep

\* What becomes of a refresher that goes on, and of the others.
LEMMA GoesOn ==
    ASSUME RefTypes, NEW f \in Refreshers,
           NEW pc \in {"call", "queue"}, NEW auth \in Auths \cup {None},
           ref' = [ref EXCEPT ![f].pc = pc, ![f].auth = auth]
    PROVE  /\ ref'[f].pc = pc /\ ref'[f].auth = auth /\ ref'[f].id = ref[f].id
           /\ \A g \in Refreshers \ {f} : ref'[g] = ref[g]
<1>1. PICK r : r = [ref[f] EXCEPT !.pc = pc, !.auth = auth]
  OBVIOUS
<1>2. ref[f] \in RefRecords
  BY DEF RefTypes
<1>3. r.pc = pc /\ r.id = ref[f].id /\ r.auth = auth
  BY <1>1, <1>2 DEF RefRecords
<1>4. ref' = [ref EXCEPT ![f] = r]
  BY <1>1 DEF RefTypes
<1>5. ref'[f] = r /\ \A g \in Refreshers \ {f} : ref'[g] = ref[g]
  BY <1>4 DEF RefTypes
<1> QED
  BY <1>3, <1>5

\* Under the lock the refresh takes the current token, alone.
LEMMA BeginTokens ==
    ASSUME Basic, TokenParts, NEW f \in Refreshers, BeginRefresh(f)
    PROVE  TokenParts'
<1> USE BasicParts
<1>1. CASE Ended(f)
  BY <1>1, EndedKeeps, UnchangedKeeps, QuietTokens DEF BeginRefresh, clockVars, historyVars
<1>2. CASE ~Ended(f)
  <2>1. PICK c \in Credentials : c = ref[f].id
    BY DEF BeginRefresh, RefDiscipline
  <2>2. /\ auths[c] # None
        /\ ref' = [ref EXCEPT ![f].pc = "call", ![f].auth = auths[c]]
        /\ \A g \in Refreshers : ~Holds(g, c)
        /\ UNCHANGED <<auths, wr, tokens, spent, restored>>
    BY <1>2, <2>1 DEF BeginRefresh, clockVars, historyVars
  <2>3. /\ ref'[f].pc = "call" /\ ref'[f].auth = auths[c] /\ ref'[f].id = c
        /\ \A g \in Refreshers \ {f} : ref'[g] = ref[g]
    <3>1. auths[c] \in Auths \cup {None}
      BY DEF AuthTypes
    <3> QED
      BY <2>1, <2>2, <3>1, GoesOn
  <2>4. ASSUME NEW d \in Credentials, NEW t \in Tokens, Uses(d, t)' PROVE Uses(d, t)
    <3>1. ASSUME NEW g \in Refreshers, ref'[g].pc = "call", ref'[g].id = d,
                 ref'[g].auth.token = t
          PROVE  Uses(d, t)
      <4>1. CASE g = f
        BY <2>2, <2>3, <3>1, <4>1 DEF Uses
      <4>2. CASE g # f
        <5>1. ref'[g] = ref[g]
          BY <2>3, <4>2
        <5> QED
          BY <3>1, <5>1 DEF Uses
      <4> QED
        BY <4>1, <4>2
    <3> QED
      BY <2>2, <2>4, <3>1 DEF Uses, Pending
  <2>5. \A u \in Writers : Pending(u)' => Pending(u) /\ wr'[u] = wr[u]
    BY <2>2 DEF Pending
  <2>6. Issued' /\ OwnToken' /\ NewToken'
    BY <2>2, <2>4, <2>5, TokensMove DEF TokenParts
  <2>7. OneRefresh'
    <3>1. ASSUME NEW g \in Refreshers, NEW d \in Credentials, Holds(g, d)', g # f
          PROVE  Holds(g, d) /\ d # c
      <4>1. ref'[g] = ref[g]
        BY <2>3, <3>1
      <4>2. Holds(g, d)
        BY <3>1, <4>1 DEF Holds
      <4> QED
        BY <2>2, <4>2
    <3>2. ASSUME NEW d \in Credentials, Holds(f, d)' PROVE d = c
      BY <2>3, <3>2 DEF Holds
    <3> QED
      BY <3>1, <3>2 DEF OneRefresh, TokenParts
  <2>8. CurrentIsUnspent'
    BY <2>2 DEF CurrentIsUnspent, TokenParts, Present
  <2>9. SpentTokenIsNotUsed'
    <3>1. ASSUME NEW g \in Refreshers, ref'[g].pc = "call", ref'[g].id \notin restored
          PROVE  ref'[g].auth.token \notin spent
      <4>1. CASE g = f
        BY <2>2, <2>3, <3>1, <4>1 DEF CurrentIsUnspent, TokenParts, Present
      <4>2. CASE g # f
        <5>1. ref'[g] = ref[g]
          BY <2>3, <4>2
        <5> QED
          BY <3>1, <5>1 DEF SpentTokenIsNotUsed, TokenParts
      <4> QED
        BY <4>1, <4>2
    <3> QED
      BY <2>2, <3>1 DEF SpentTokenIsNotUsed
  <2> QED
    BY <2>6, <2>7, <2>8, <2>9 DEF TokenParts
<1> QED
  BY <1>1, <1>2

\* A successful refresh spends the token of its clone, and no other refresh
\* of the credential is under way.
LEMMA SucceedsTokens ==
    ASSUME Basic, TokenParts, NEW f \in Refreshers, NEW effective \in BOOLEAN,
           RefreshSucceeds(f, effective)
    PROVE  TokenParts'
<1> USE BasicParts
<1>1. ref[f].pc = "call" /\ ref[f].auth \in Auths
  BY DEF RefreshSucceeds, RefDiscipline
<1>2. PICK c \in Credentials : c = ref[f].id
  BY <1>1 DEF RefDiscipline
<1>3. PICK t0 \in Tokens : t0 = ref[f].auth.token
  BY <1>1 DEF Auths
<1>4. /\ tokens' = (IF effective THEN tokens + 1 ELSE tokens)
      /\ spent' = (IF effective THEN spent \cup {t0} ELSE spent)
      /\ (effective => tokens < MaxTokens)
      /\ wr' = wr /\ restored \subseteq restored'
  <2>1. restored \subseteq restored'
    <3>1. restored' = restored \cup {c} \/ restored' = restored
      BY <1>2 DEF RefreshSucceeds
    <3> QED
      BY <3>1
  <2> QED
    BY <1>3, <2>1 DEF RefreshSucceeds
<1>5. Uses(c, t0)
  BY <1>1, <1>2, <1>3 DEF Uses
<1>6. /\ ref'[f].pc # "call"
      /\ ref'[f].pc = "queue" => ref'[f].id = c
      /\ \A g \in Refreshers \ {f} : ref'[g] = ref[g]
  <2>1. CASE Present(c)
    <3>1. ref' = [ref EXCEPT ![f].pc = "queue", ![f].auth = None]
      BY <1>2, <2>1 DEF RefreshSucceeds
    <3> QED
      BY <1>2, <3>1, GoesOn
  <2>2. CASE ~Present(c)
    <3>1. Ended(f)
      BY <1>2, <2>2 DEF RefreshSucceeds
    <3>2. PICK r : r = IF f \in Workers
                       THEN [Idle EXCEPT !.pc = "again", !.id = ref[f].id] ELSE Idle
      OBVIOUS
    <3>3. r.pc \notin {"call", "queue"}
      BY <3>2 DEF Idle
    <3>4. ref' = [ref EXCEPT ![f] = r]
      BY <3>1, <3>2 DEF Ended
    <3> QED
      BY <3>3, <3>4 DEF RefTypes
  <2> QED
    BY <2>1, <2>2
<1>7. /\ \A d \in Credentials \ {c} : auths'[d] = auths[d]
      /\ auths'[c] # None =>
            /\ auths'[c].token = (IF effective THEN tokens + 1 ELSE t0)
            /\ (~effective /\ auths[c].token # t0) => c \in restored'
  <2>1. CASE Present(c)
    <3>1. auths' = [auths EXCEPT ![c] = Refreshed(ref[f].auth, effective)]
      BY <1>2, <2>1 DEF RefreshSucceeds
    <3>2. Refreshed(ref[f].auth, effective).token = (IF effective THEN tokens + 1 ELSE t0)
      BY <1>1, <1>3, <1>4, RefreshedFacts DEF CountTypes
    <3>3. (~effective /\ auths[c].token # t0) => c \in restored'
      BY <1>2, <1>3, <2>1 DEF RefreshSucceeds
    <3>4. auths'[c] = Refreshed(ref[f].auth, effective)
          /\ \A d \in Credentials \ {c} : auths'[d] = auths[d]
      BY <3>1 DEF AuthTypes
    <3> QED
      BY <3>2, <3>3, <3>4
  <2>2. CASE ~Present(c)
    BY <1>2, <2>2 DEF RefreshSucceeds, Present
  <2> QED
    BY <2>1, <2>2
<1>8. tokens \in Nat /\ t0 \in Nat /\ t0 <= tokens /\ \A t \in spent : t \in Nat /\ t <= tokens
  BY <1>5, HeldFacts DEF TokenParts, Issued, HistoryTypes
<1>9. ASSUME NEW d \in Credentials, NEW t \in Tokens, Uses(d, t)'
      PROVE  Uses(d, t) \/ (d = c /\ t = tokens + 1 /\ tokens' = tokens + 1)
  <2>1. ASSUME auths'[d] # None, auths'[d].token = t
        PROVE  Uses(d, t) \/ (d = c /\ t = tokens + 1 /\ tokens' = tokens + 1)
    <3>1. CASE d = c
      BY <1>4, <1>5, <1>7, <2>1, <3>1
    <3>2. CASE d # c
      BY <1>7, <2>1, <3>2 DEF Uses
    <3> QED
      BY <3>1, <3>2
  <2>2. ASSUME NEW g \in Refreshers, ref'[g].pc = "call", ref'[g].id = d, ref'[g].auth.token = t
        PROVE  Uses(d, t)
    <3>1. ref'[g] = ref[g]
      BY <1>6, <2>2
    <3> QED
      BY <2>2, <3>1 DEF Uses
  <2> QED
    BY <1>4, <1>9, <2>1, <2>2 DEF Uses, Pending
<1>10. Issued' /\ OwnToken' /\ NewToken'
  <2>1. \A u \in Writers : Pending(u)' => Pending(u) /\ wr'[u] = wr[u]
    BY <1>4 DEF Pending
  <2>2. \A t \in spent' : t \in spent \/ (c \in Credentials /\ t \in Tokens /\ Uses(c, t))
    BY <1>4, <1>5
  <2>3. tokens' \in {tokens, tokens + 1}
    BY <1>4
  <2> QED
    BY <1>9, <2>1, <2>2, <2>3, TokensMove DEF TokenParts
<1>11. OneRefresh'
  <2>1. ASSUME NEW g \in Refreshers, NEW d \in Credentials, Holds(g, d)' PROVE Holds(g, d)
    BY <1>1, <1>2, <1>6, <2>1 DEF Holds
  <2> QED
    BY <2>1 DEF OneRefresh, TokenParts
<1>12. CurrentIsUnspent'
  <2>1. ASSUME NEW d \in Credentials, auths'[d] # None, d \notin restored', auths'[d].token \in spent'
        PROVE  FALSE
    <3>1. CASE d = c
      <4>1. CASE effective
        BY <1>4, <1>7, <1>8, <2>1, <3>1, <4>1
      <4>2. CASE ~effective
        <5>1. t0 \in spent /\ c \notin restored
          BY <1>4, <1>7, <2>1, <3>1, <4>2
        <5> QED
          BY <1>1, <1>2, <1>3, <5>1 DEF TokenParts, SpentTokenIsNotUsed
      <4> QED
        BY <4>1, <4>2
    <3>2. CASE d # c
      <4>1. /\ auths[d] # None /\ auths[d].token \notin spent /\ auths[d].token \in Tokens
            /\ auths'[d] = auths[d]
        BY <1>4, <1>7, <2>1, <3>2, HeldFacts DEF CurrentIsUnspent, TokenParts, Present
      <4>2. Uses(d, auths[d].token)
        BY <4>1 DEF Uses
      <4>3. auths[d].token # t0
        BY <1>5, <3>2, <4>1, <4>2 DEF TokenParts, OwnToken
      <4> QED
        BY <1>4, <2>1, <4>1, <4>3
    <3> QED
      BY <3>1, <3>2
  <2> QED
    BY <2>1 DEF CurrentIsUnspent, Present
<1>13. SpentTokenIsNotUsed'
  <2>1. ASSUME NEW g \in Refreshers, ref'[g].pc = "call", ref'[g].id \notin restored',
               ref'[g].auth.token \in spent'
        PROVE  FALSE
    <3>1. g # f /\ ref'[g] = ref[g]
      BY <1>6, <2>1
    <3>2. PICK d \in Credentials : d = ref[g].id
      BY <2>1, <3>1 DEF RefDiscipline
    <3>3. PICK t \in Tokens : t = ref[g].auth.token
      BY <2>1, <3>1, HeldFacts
    <3>4. d # c
      <4>1. Holds(f, c) /\ Holds(g, d)
        BY <1>1, <1>2, <2>1, <3>1, <3>2 DEF Holds
      <4> QED
        BY <3>1, <4>1 DEF TokenParts, OneRefresh
    <3>5. Uses(d, t) /\ t \notin spent
      BY <1>4, <2>1, <3>1, <3>2, <3>3 DEF Uses, TokenParts, SpentTokenIsNotUsed
    <3>6. t # t0
      BY <1>5, <3>4, <3>5 DEF TokenParts, OwnToken
    <3> QED
      BY <1>4, <2>1, <3>1, <3>3, <3>5, <3>6
  <2> QED
    BY <2>1 DEF SpentTokenIsNotUsed
<1> QED
  BY <1>10, <1>11, <1>12, <1>13 DEF TokenParts

\* The other answers to a refresh move no token.
LEMMA AnswerTokens ==
    ASSUME Basic, TokenParts, NEW f \in Refreshers, Answer(f)
    PROVE  TokenParts'
<1> USE BasicParts
<1>1. CASE RefreshCancelled(f)
  BY <1>1, EndedKeeps, UnchangedKeeps, QuietTokens DEF RefreshCancelled, clockVars, historyVars
<1>2. CASE QueueRefreshed(f)
  BY <1>2, EndedKeeps, UnchangedKeeps, QuietTokens DEF QueueRefreshed, clockVars, historyVars
<1>3. ASSUME NEW denied \in BOOLEAN, RefreshFails(f, denied) PROVE TokenParts'
  <2>1. PICK c \in Credentials : c = ref[f].id
    BY <1>3 DEF RefreshFails, RefDiscipline
  <2>2. CASE Present(c)
    <3>1. auths[c] \in Auths /\ auths[c] # None
      BY <2>2 DEF Present, AuthTypes
    <3>2. PICK t \in Instants : t = IF denied THEN 0 ELSE clock + FailureBackoff
      BY InstantFacts DEF CountTypes
    <3>3. PICK a : a = [auths[c] EXCEPT !.denied = denied, !.after = t]
      OBVIOUS
    <3>4. a \in Auths /\ a.token = auths[c].token
      BY <3>1, <3>3 DEF Auths
    <3>5. auths' = [auths EXCEPT ![c].denied = denied, ![c].after = t]
      BY <1>3, <2>1, <2>2, <3>2 DEF RefreshFails
    <3>6. auths' = [auths EXCEPT ![c] = a]
      BY <3>3, <3>5 DEF AuthTypes
    <3>7. AuthsKept
      BY <3>1, <3>4, <3>6, AuthKeeps
    <3>8. CallsKept
      <4>1. ref' = [ref EXCEPT ![f].pc = "queue", ![f].auth = None] /\ ref[f].pc = "call"
        BY <1>3, <2>1, <2>2 DEF RefreshFails
      <4>2. /\ ref'[f].pc = "queue" /\ ref'[f].id = ref[f].id
            /\ \A g \in Refreshers \ {f} : ref'[g] = ref[g]
        BY <4>1, GoesOn
      <4> QED
        BY <4>1, <4>2 DEF CallsKept
    <3> QED
      BY <1>3, <3>7, <3>8, UnchangedKeeps, QuietTokens DEF RefreshFails, clockVars, historyVars
  <2>3. CASE ~Present(c)
    <3>1. Ended(f) /\ auths' = auths
      BY <1>3, <2>1, <2>3 DEF RefreshFails
    <3> QED
      BY <1>3, <3>1, EndedKeeps, UnchangedKeeps, QuietTokens
         DEF RefreshFails, clockVars, historyVars
  <2> QED
    BY <2>2, <2>3
<1> QED
  BY <1>1, <1>2, <1>3, SucceedsTokens DEF Answer

\* What a writer's start does to the token holders, the other parts first.
LEMMA StartKeeps ==
    ASSUME Basic, TokenParts, NEW u \in Writers, NEW c \in Credentials, NEW auth \in Auths,
           NEW kind \in Kinds \cup {"register"}, StartWrite(u, c, kind, auth),
           UNCHANGED <<auths, ref, spent, restored>>
    PROVE  /\ OneRefresh' /\ CurrentIsUnspent' /\ SpentTokenIsNotUsed'
           /\ wr'[u].pc = "write" /\ wr'[u].id = c /\ wr'[u].kind = kind /\ wr'[u].auth = auth
           /\ \A v \in Writers \ {u} : wr'[v] = wr[v]
<1>1. /\ wr'[u].pc = "write" /\ wr'[u].id = c /\ wr'[u].kind = kind /\ wr'[u].auth = auth
      /\ \A v \in Writers \ {u} : wr'[v] = wr[v]
  BY BasicParts DEF StartWrite, WrTypes
<1>2. OneRefresh'
  BY DEF TokenParts, OneRefresh, Holds
<1>3. CurrentIsUnspent'
  BY DEF TokenParts, CurrentIsUnspent, Present
<1>4. SpentTokenIsNotUsed'
  BY DEF TokenParts, SpentTokenIsNotUsed
<1> QED
  BY <1>1, <1>2, <1>3, <1>4

\* A clone for a change or a reload has the token of its credential.
LEMMA CloneTokens ==
    ASSUME Basic, TokenParts, NEW u \in Writers, NEW c \in Credentials, NEW auth \in Auths,
           NEW kind \in Kinds \ {"login"}, StartWrite(u, c, kind, auth),
           auths[c] # None, auth.token = auths[c].token,
           UNCHANGED <<auths, ref, tokens, spent, restored>>
    PROVE  TokenParts'
<1>1. kind \notin {"login", "register"}
  BY RefreshAssumption
<1>2. /\ OneRefresh' /\ CurrentIsUnspent' /\ SpentTokenIsNotUsed'
      /\ wr'[u].pc = "write" /\ wr'[u].id = c /\ wr'[u].kind = kind /\ wr'[u].auth = auth
      /\ \A v \in Writers \ {u} : wr'[v] = wr[v]
  BY StartKeeps
<1>3. ASSUME NEW d \in Credentials, NEW t \in Tokens, Uses(d, t)' PROVE Uses(d, t)
  <2>1. ASSUME NEW v \in Writers, wr'[v].pc = "write", ~Pending(v)', wr'[v].id = d,
               wr'[v].auth.token = t
        PROVE  Uses(d, t)
    <3>1. CASE v = u
      BY <1>2, <2>1, <3>1 DEF Uses
    <3>2. CASE v # u
      <4>1. wr'[v] = wr[v]
        BY <1>2, <3>2
      <4> QED
        BY <2>1, <4>1 DEF Uses, Pending
    <3> QED
      BY <3>1, <3>2
  <2> QED
    BY <1>3, <2>1 DEF Uses
<1>4. ASSUME NEW v \in Writers, Pending(v)' PROVE Pending(v) /\ wr'[v] = wr[v]
  <2>1. v # u
    BY <1>1, <1>2, <1>4 DEF Pending
  <2>2. wr'[v] = wr[v]
    BY <1>2, <2>1
  <2> QED
    BY <1>4, <2>2 DEF Pending
<1>5. Issued' /\ OwnToken' /\ NewToken'
  BY <1>3, <1>4, TokensMove DEF TokenParts
<1> QED
  BY <1>2, <1>5 DEF TokenParts

\* A login brings the next token.
LEMMA LoginTokens ==
    ASSUME Basic, TokenParts, NEW u \in Writers, NEW c \in Credentials, NEW auth \in Auths,
           NEW kind \in {"login", "register"}, StartWrite(u, c, kind, auth),
           kind \in Kinds \cup {"register"},
           auth.token = tokens + 1, tokens' = tokens + 1,
           UNCHANGED <<auths, ref, spent, restored>>
    PROVE  TokenParts'
<1>2. /\ OneRefresh' /\ CurrentIsUnspent' /\ SpentTokenIsNotUsed'
      /\ wr'[u].pc = "write" /\ wr'[u].id = c /\ wr'[u].kind = kind /\ wr'[u].auth = auth
      /\ \A v \in Writers \ {u} : wr'[v] = wr[v]
  BY StartKeeps
<1>3. ASSUME NEW d \in Credentials, NEW t \in Tokens, Uses(d, t)' PROVE Uses(d, t)
  <2>1. ASSUME NEW v \in Writers, wr'[v].pc = "write", ~Pending(v)', wr'[v].id = d,
               wr'[v].auth.token = t
        PROVE  Uses(d, t)
    <3>1. v # u
      BY <1>2, <2>1 DEF Pending
    <3>2. wr'[v] = wr[v]
      BY <1>2, <3>1
    <3> QED
      BY <2>1, <3>2 DEF Uses, Pending
  <2> QED
    BY <1>3, <2>1 DEF Uses
<1>4. ASSUME NEW v \in Writers, Pending(v)', v # u PROVE Pending(v) /\ wr'[v] = wr[v]
  <2>2. wr'[v] = wr[v]
    BY <1>2, <1>4
  <2> QED
    BY <1>4, <2>2 DEF Pending
<1>5. /\ tokens \in Nat /\ Tokens \subseteq Nat
      /\ \A v \in Writers : Pending(v) => wr[v].auth.token \in Tokens
      /\ spent \subseteq Tokens
  BY HeldFacts, BasicParts DEF Pending, HistoryTypes
<1>6. \A t \in Nat : t <= tokens => t <= tokens + 1 /\ t # tokens + 1
  BY <1>5
<1>7. Issued'
  <2>1. ASSUME NEW d \in Credentials, NEW t \in Tokens, Uses(d, t)' PROVE t <= tokens'
    BY <1>3, <1>5, <1>6, <2>1 DEF Issued, TokenParts
  <2>2. ASSUME NEW v \in Writers, Pending(v)' PROVE wr'[v].auth.token <= tokens'
    <3>1. CASE v = u
      BY <1>2, <1>5, <3>1
    <3>2. CASE v # u
      BY <1>4, <1>5, <1>6, <2>2, <3>2 DEF Issued, TokenParts
    <3> QED
      BY <3>1, <3>2
  <2>3. ASSUME NEW t \in spent' PROVE t <= tokens'
    BY <1>5, <1>6, <2>3 DEF Issued, TokenParts
  <2> QED
    BY <2>1, <2>2, <2>3 DEF Issued
<1>8. OwnToken'
  BY <1>3 DEF OwnToken, TokenParts
<1>9. NewToken'
  <2>1. SUFFICES ASSUME NEW v \in Writers, Pending(v)'
                 PROVE  /\ wr'[v].auth.token \notin spent'
                        /\ \A d \in Credentials, s \in Tokens :
                              s = wr'[v].auth.token => ~Uses(d, s)'
                        /\ \A x \in Writers : Pending(x)' /\ wr'[x].auth.token = wr'[v].auth.token
                              => v = x
    BY DEF NewToken
  <2>2. CASE v = u
    <3>1. wr'[v].auth.token = tokens + 1
      BY <1>2, <2>2
    <3>2. tokens + 1 \notin spent'
      BY <1>5, <1>6 DEF Issued, TokenParts
    <3>3. \A d \in Credentials, s \in Tokens : s = tokens + 1 => ~Uses(d, s)'
      BY <1>3, <1>5, <1>6 DEF Issued, TokenParts
    <3>4. ASSUME NEW x \in Writers, Pending(x)', wr'[x].auth.token = tokens + 1, x # u
          PROVE  FALSE
      BY <1>4, <1>5, <1>6, <3>4 DEF Issued, TokenParts
    <3> QED
      BY <2>2, <3>1, <3>2, <3>3, <3>4
  <2>3. CASE v # u
    <3>1. Pending(v) /\ wr'[v] = wr[v]
      BY <1>4, <2>1, <2>3
    <3>2. PICK t \in Tokens : t = wr[v].auth.token
      BY <1>5, <3>1
    <3>3. /\ t \notin spent /\ t <= tokens
          /\ \A d \in Credentials : ~Uses(d, t)
          /\ \A x \in Writers : Pending(x) /\ wr[x].auth.token = t => v = x
      BY <3>1, <3>2 DEF NewToken, Issued, TokenParts
    <3>4. t # tokens + 1
      BY <1>5, <1>6, <3>3
    <3>5. \A d \in Credentials : ~Uses(d, t)'
      BY <1>3, <3>3
    <3>6. ASSUME NEW x \in Writers, Pending(x)', wr'[x].auth.token = t PROVE v = x
      <4>1. x # u
        BY <1>2, <3>4, <3>6
      <4> QED
        BY <1>4, <3>3, <3>6, <4>1
    <3> QED
      BY <3>1, <3>2, <3>3, <3>5, <3>6
  <2> QED
    BY <2>2, <2>3
<1> QED
  BY <1>2, <1>7, <1>8, <1>9 DEF TokenParts

\* The start of a write.
LEMMA WriterBeginsTokens ==
    ASSUME Basic, TokenParts, NEW u \in Writers, WriterBegins(u)
    PROVE  TokenParts'
<1> USE BasicParts
<1>1. ASSUME NEW c \in Credentials, NEW kind \in Kinds, PatchAuthFileStatus(u, c, kind)
      PROVE  TokenParts'
  <2>1. PICK auth : auth = [auths[c] EXCEPT !.disabled = (kind = "disable")]
    OBVIOUS
  <2>2. auths[c] \in Auths /\ auths[c] # None
    BY <1>1 DEF PatchAuthFileStatus, Present, AuthTypes
  <2>3. (kind = "disable") \in BOOLEAN
    OBVIOUS
  <2>4. auth \in Auths /\ auth.token = auths[c].token
    BY <2>1, <2>2, <2>3 DEF Auths
  <2>5. StartWrite(u, c, kind, auth) /\ kind # "login"
    BY <1>1, <2>1 DEF PatchAuthFileStatus
  <2>6. UNCHANGED <<auths, ref, tokens, spent, restored>>
    BY <1>1 DEF PatchAuthFileStatus, historyVars
  <2> QED
    BY <2>2, <2>4, <2>5, <2>6, CloneTokens
<1>2. ASSUME NEW c \in Credentials, ReloadAuthFile(u, c)
      PROVE  TokenParts'
  <2>0. PICK t : t = IF auths[c].disabled THEN 0 ELSE auths[c].after
    OBVIOUS
  <2>1. PICK auth : auth = [auths[c] EXCEPT !.denied = FALSE, !.after = t]
    OBVIOUS
  <2>2. auths[c] \in Auths /\ auths[c] # None
    BY <1>2 DEF ReloadAuthFile, Present, AuthTypes
  <2>3. t \in Instants
    BY <2>0, <2>2, InstantFacts DEF Auths
  <2>4. auth \in Auths /\ auth.token = auths[c].token
    BY <2>1, <2>2, <2>3 DEF Auths
  <2>5. StartWrite(u, c, "reload", auth) /\ "reload" \in Kinds \ {"login"}
    BY <1>2, <2>0, <2>1 DEF ReloadAuthFile
  <2>6. UNCHANGED <<auths, ref, tokens, spent, restored>>
    BY <1>2 DEF ReloadAuthFile, historyVars
  <2> QED
    BY <2>2, <2>4, <2>5, <2>6, CloneTokens
<1>3. ASSUME NEW c \in Credentials, LoginAuthFile(u, c)
      PROVE  TokenParts'
  <2>0. PICK t : t = IF Present(c) /\ ~auths[c].disabled THEN auths[c].after ELSE 0
    OBVIOUS
  <2>1. PICK auth : auth = [token |-> tokens + 1, due |-> clock + Period, after |-> t,
                            denied |-> FALSE, disabled |-> FALSE]
    OBVIOUS
  <2>2. t \in Instants
    BY <2>0, InstantFacts DEF Present, AuthTypes, Auths
  <2>3. tokens + 1 \in Tokens
    <3>1. tokens < MaxTokens
      BY <1>3 DEF LoginAuthFile
    <3> QED
      BY <3>1, BoundsAreNaturals DEF CountTypes, Tokens
  <2>4. clock + Period \in Instants
    BY InstantFacts DEF CountTypes
  <2>5. auth \in Auths /\ auth.token = tokens + 1
    BY <2>1, <2>2, <2>3, <2>4 DEF Auths
  <2>6. PICK kind \in {"login", "register"} : kind = IF Present(c) THEN "login" ELSE "register"
    OBVIOUS
  <2>7. StartWrite(u, c, kind, auth)
    BY <1>3, <2>0, <2>1, <2>6 DEF LoginAuthFile
  <2>8. kind \in Kinds \cup {"register"}
    BY <1>3, <2>6 DEF LoginAuthFile
  <2>9. tokens' = tokens + 1 /\ UNCHANGED <<auths, ref, spent, restored>>
    BY <1>3 DEF LoginAuthFile, historyVars
  <2> QED
    BY <2>5, <2>7, <2>8, <2>9, LoginTokens
<1>4. ASSUME NEW c \in Credentials, Remove(u, c)
      PROVE  TokenParts'
  <2>1. PICK r : r = [pc |-> "unschedule", id |-> c, kind |-> "remove", auth |-> None]
    OBVIOUS
  <2>2. r.pc # "write" /\ wr' = [wr EXCEPT ![u] = r]
    BY <1>4, <2>1 DEF Remove
  <2>3. WritesKept
    BY <2>2, WrKeeps
  <2>4. AuthsKept
    BY <1>4 DEF Remove, AuthsKept, AuthTypes
  <2> QED
    BY <1>4, <2>3, <2>4, UnchangedKeeps, QuietTokens DEF Remove, historyVars
<1> QED
  BY <1>1, <1>2, <1>3, <1>4 DEF WriterBegins

\* A login's token becomes the token of its credential.
LEMMA PendingLands ==
    ASSUME Basic, Issued, OwnToken, NewToken, NEW u \in Writers, Pending(u), ~Pending(u)',
           NEW c \in Credentials, NEW t0 \in Tokens, t0 = wr[u].auth.token,
           \A d \in Credentials, t \in Tokens : Uses(d, t)' => Uses(d, t) \/ (d = c /\ t = t0),
           \A v \in Writers : Pending(v)' => Pending(v) /\ wr'[v] = wr[v],
           UNCHANGED <<tokens, spent>>
    PROVE  Issued' /\ OwnToken' /\ NewToken'
<1>1. /\ t0 <= tokens /\ \A d \in Credentials : ~Uses(d, t0)
      /\ \A v \in Writers : Pending(v) /\ wr[v].auth.token = t0 => u = v
  BY DEF Issued, NewToken
<1>2. Issued'
  <2>1. ASSUME NEW d \in Credentials, NEW t \in Tokens, Uses(d, t)' PROVE t <= tokens'
    BY <1>1, <2>1 DEF Issued
  <2>2. ASSUME NEW v \in Writers, Pending(v)' PROVE wr'[v].auth.token <= tokens'
    BY <2>2 DEF Issued
  <2>3. \A t \in spent' : t <= tokens'
    BY DEF Issued
  <2> QED
    BY <2>1, <2>2, <2>3 DEF Issued
<1>3. OwnToken'
  <2>1. ASSUME NEW d \in Credentials, NEW e \in Credentials, NEW t \in Tokens,
               Uses(d, t)', Uses(e, t)'
        PROVE  d = e
    <3>1. CASE t = t0
      BY <1>1, <2>1, <3>1
    <3>2. CASE t # t0
      BY <2>1, <3>2 DEF OwnToken
    <3> QED
      BY <3>1, <3>2
  <2> QED
    BY <2>1 DEF OwnToken
<1>4. NewToken'
  <2>1. SUFFICES ASSUME NEW v \in Writers, Pending(v)'
                 PROVE  /\ wr'[v].auth.token \notin spent'
                        /\ \A d \in Credentials, s \in Tokens :
                              s = wr'[v].auth.token => ~Uses(d, s)'
                        /\ \A x \in Writers : Pending(x)' /\ wr'[x].auth.token = wr'[v].auth.token
                              => v = x
    BY DEF NewToken
  <2>2. v # u /\ Pending(v) /\ wr'[v] = wr[v]
    BY <2>1
  <2>3. PICK t \in Tokens : t = wr[v].auth.token
    BY <2>2, HeldFacts DEF Pending
  <2>4. t # t0
    BY <1>1, <2>2, <2>3
  <2>5. /\ t \notin spent /\ \A d \in Credentials : ~Uses(d, t)
        /\ \A x \in Writers : Pending(x) /\ wr[x].auth.token = t => v = x
    BY <2>2, <2>3 DEF NewToken
  <2>6. \A d \in Credentials : ~Uses(d, t)'
    BY <2>4, <2>5
  <2> QED
    BY <2>2, <2>3, <2>5, <2>6
<1> QED
  BY <1>2, <1>3, <1>4

\* Update and Register: the clone becomes the credential.
LEMMA WriteTokens ==
    ASSUME Basic, TokenParts, NEW u \in Writers, WriteAuth(u)
    PROVE  TokenParts'
<1> USE BasicParts
<1>1. wr[u].pc = "write" /\ wr[u].auth \in Auths
  BY DEF WriteAuth, WrDiscipline
<1>2. PICK c \in Credentials : c = wr[u].id
  BY <1>1 DEF WrDiscipline
<1>3. PICK t0 \in Tokens : t0 = wr[u].auth.token
  BY <1>1 DEF Auths
<1>4. UNCHANGED <<ref, tokens, spent>>
  BY DEF WriteAuth, clockVars
<1>5. CASE ~(Present(c) \/ wr[u].kind = "register")
  <2>1. wr' = [wr EXCEPT ![u] = IdleWriter] /\ UNCHANGED <<auths, restored>>
    BY <1>2, <1>5 DEF WriteAuth
  <2>2. IdleWriter.pc # "write"
    BY DEF IdleWriter
  <2>3. WritesKept
    BY <2>1, <2>2, WrKeeps
  <2> QED
    BY <1>4, <2>1, <2>3, UnchangedKeeps, QuietTokens
<1>6. CASE Present(c) \/ wr[u].kind = "register"
  <2>1. /\ auths' = [auths EXCEPT ![c] = wr[u].auth]
        /\ wr' = [wr EXCEPT ![u].pc = "queue", ![u].auth = None]
    BY <1>2, <1>6 DEF WriteAuth
  <2>2. /\ auths'[c].token = t0 /\ \A d \in Credentials \ {c} : auths'[d] = auths[d]
    BY <1>3, <2>1 DEF AuthTypes
  <2>3. /\ wr'[u].pc = "queue" /\ \A v \in Writers \ {u} : wr'[v] = wr[v]
    <3>1. wr[u] \in WrRecords
      BY DEF WrTypes
    <3> QED
      BY <2>1, <3>1 DEF WrTypes, WrRecords
  <2>4. /\ restored \subseteq restored'
        /\ wr[u].kind \notin {"login", "register"} /\ auths[c].token # t0 => c \in restored'
    <3>1. restored' = IF Present(c) /\ wr[u].kind \notin {"login", "register"}
                            /\ auths[c].token # wr[u].auth.token
                        THEN restored \cup {c} ELSE restored
      BY <1>2, <1>6 DEF WriteAuth
    <3>2. wr[u].kind \notin {"login", "register"} => Present(c)
      BY <1>6
    <3> QED
      BY <1>3, <3>1, <3>2
  <2>5. ASSUME NEW d \in Credentials, NEW t \in Tokens, Uses(d, t)'
        PROVE  Uses(d, t) \/ (d = c /\ t = t0)
    <3>1. ASSUME auths'[d] # None, auths'[d].token = t
          PROVE  Uses(d, t) \/ (d = c /\ t = t0)
      BY <2>2, <3>1 DEF Uses
    <3>2. ASSUME NEW v \in Writers, wr'[v].pc = "write", ~Pending(v)', wr'[v].id = d,
                 wr'[v].auth.token = t
          PROVE  Uses(d, t)
      <4>1. wr'[v] = wr[v]
        BY <2>3, <3>2
      <4> QED
        BY <3>2, <4>1 DEF Uses, Pending
    <3> QED
      BY <1>4, <2>5, <3>1, <3>2 DEF Uses
  <2>6. ASSUME NEW v \in Writers, Pending(v)' PROVE Pending(v) /\ wr'[v] = wr[v]
    <3>1. v # u
      BY <2>3, <2>6 DEF Pending
    <3>2. wr'[v] = wr[v]
      BY <2>3, <3>1
    <3> QED
      BY <2>6, <3>2 DEF Pending
  <2>7. ~Pending(u)'
    BY <2>3 DEF Pending
  <2>8. Issued' /\ OwnToken' /\ NewToken'
    <3>1. CASE Pending(u)
      BY <1>3, <1>4, <2>5, <2>6, <2>7, <3>1, PendingLands DEF TokenParts
    <3>2. CASE ~Pending(u)
      <4>1. Uses(c, t0)
        BY <1>1, <1>2, <1>3, <3>2 DEF Uses
      <4>2. \A d \in Credentials, t \in Tokens : Uses(d, t)' => Uses(d, t)
        BY <2>5, <4>1
      <4> QED
        BY <1>4, <2>6, <4>2, TokensMove DEF TokenParts
    <3> QED
      BY <3>1, <3>2
  <2>9. OneRefresh'
    BY <1>4 DEF TokenParts, OneRefresh, Holds
  <2>10. SpentTokenIsNotUsed'
    BY <1>4, <2>4 DEF TokenParts, SpentTokenIsNotUsed
  <2>11. CurrentIsUnspent'
    <3>1. ASSUME NEW d \in Credentials, auths'[d] # None, d \notin restored',
                 auths'[d].token \in spent
          PROVE  FALSE
      <4>1. CASE d # c
        BY <2>2, <2>4, <3>1, <4>1 DEF TokenParts, CurrentIsUnspent, Present
      <4>2. CASE d = c /\ Pending(u)
        BY <1>3, <2>2, <3>1, <4>2 DEF TokenParts, NewToken
      <4>3. CASE d = c /\ ~Pending(u)
        <5>1. wr[u].kind \notin {"login", "register"}
          BY <1>1, <4>3 DEF Pending
        <5>2. auths[c].token = t0 /\ Present(c) /\ c \notin restored
          BY <1>6, <2>4, <3>1, <4>3, <5>1
        <5> QED
          BY <2>2, <3>1, <4>3, <5>2 DEF TokenParts, CurrentIsUnspent
      <4> QED
        BY <4>1, <4>2, <4>3
    <3> QED
      BY <1>4, <3>1 DEF CurrentIsUnspent, Present
  <2> QED
    BY <2>8, <2>9, <2>10, <2>11 DEF TokenParts
<1> QED
  BY <1>5, <1>6

\* The end of a write.
LEMMA WriterEndsTokens ==
    ASSUME Basic, TokenParts, NEW u \in Writers, WriterEnds(u)
    PROVE  TokenParts'
<1> USE BasicParts
<1>1. CASE QueueWritten(u) \/ Unschedule(u)
  <2>1. wr' = [wr EXCEPT ![u] = IdleWriter] /\ IdleWriter.pc = "idle"
    BY <1>1 DEF QueueWritten, Unschedule, IdleWriter
  <2>2. WritesKept
    BY <2>1, WrKeeps
  <2>3. UNCHANGED <<ref, auths, tokens, spent, restored>>
    BY <1>1 DEF QueueWritten, Unschedule, clockVars, historyVars
  <2> QED
    BY <2>2, <2>3, UnchangedKeeps, QuietTokens
<1> QED
  BY <1>1, WriteTokens DEF WriterEnds

\* Initially every credential has a token of its own.
LEMMA InitTokens ==
    Init => TokenParts
<1> SUFFICES ASSUME Init PROVE TokenParts
  OBVIOUS
<1>1. PICK token \in [Credentials -> 1 .. tokens] :
        /\ \A c, d \in Credentials : token[c] = token[d] => c = d
        /\ auths = [c \in Credentials |->
                      [token |-> token[c], due |-> 0, after |-> 0,
                       denied |-> FALSE, disabled |-> FALSE]]
  BY DEF Init
<1>2. /\ \A f \in Refreshers : ref[f].pc = "idle"
      /\ \A u \in Writers : wr[u].pc = "idle"
      /\ spent = {} /\ tokens \in Nat
  BY InitBasic, HeldFacts DEF Init, Idle, IdleWriter
<1>3. ASSUME NEW c \in Credentials, NEW t \in Tokens, Uses(c, t) PROVE t = token[c]
  BY <1>1, <1>2, <1>3 DEF Uses
<1>4. Issued
  BY <1>1, <1>2, <1>3 DEF Issued, Pending
<1>5. OwnToken
  BY <1>1, <1>3 DEF OwnToken
<1>6. NewToken /\ OneRefresh /\ CurrentIsUnspent /\ SpentTokenIsNotUsed
  BY <1>2 DEF NewToken, OneRefresh, CurrentIsUnspent, SpentTokenIsNotUsed, Pending, Holds
<1> QED
  BY <1>4, <1>5, <1>6 DEF TokenParts

\* Refresh locks, the check of the failed token and Update keep the tokens
\* of the credentials apart from the spent ones.
LEMMA NextTokens ==
    Basic /\ TokenParts /\ [Next]_vars => TokenParts'
<1> SUFFICES ASSUME Basic, TokenParts, [Next]_vars PROVE TokenParts'
  OBVIOUS
<1>1. CASE Next
  <2>1. CASE LoopStep \/ StartAutoRefresh \/ StopAutoRefresh \/ Tick
    BY <2>1, LoopTokens
  <2>2. ASSUME NEW f \in Refreshers, BeginRefresh(f) \/ Answer(f) PROVE TokenParts'
    BY <2>2, BeginTokens, AnswerTokens
  <2>3. ASSUME NEW u \in Writers, WriterBegins(u) \/ WriterEnds(u) PROVE TokenParts'
    BY <2>3, WriterBeginsTokens, WriterEndsTokens
  <2> QED
    BY <1>1, <2>1, <2>2, <2>3, OutsideTokens DEF Next
<1>2. CASE UNCHANGED vars
  BY <1>2, UnchangedKeeps, QuietTokens DEF vars, clockVars, historyVars
<1> QED
  BY <1>1, <1>2

\* No refresh starts with a refresh token that another refresh has used up,
\* unless an Update prepared before that refresh has written it back, for
\* any number of credentials, workers, requests and writers.
THEOREM SpentTokenIsNotUsedHolds ==
    Spec => []SpentTokenIsNotUsed
<1>1. Init => Basic /\ TokenParts
  BY InitBasic, InitTokens
<1>2. Basic /\ TokenParts /\ [Next]_vars => Basic' /\ TokenParts'
  BY NextBasic, NextTokens
<1>3. TokenParts => SpentTokenIsNotUsed
  BY DEF TokenParts
<1> QED
  BY <1>1, <1>2, <1>3, PTL DEF Spec

-----------------------------------------------------------------------------
(* The loop loses no credential.                                           *)

\* A reschedule is under way.
Announced(c) ==
    \/ \E f \in Refreshers : ref[f].id = c /\ ref[f].pc = "queue"
    \/ \E u \in Writers : wr[u].id = c /\ wr[u].pc = "queue"

\* The loop is yet to look at c.
Attended(c) ==
    c \in dirty \/ c \in todo \/ (at = c /\ loop = "mark") \/ Announced(c)

\* What the heap says about c, or will say once the loop has written it.
Scheduled(c) ==
    IF loop = "listed" THEN entries[c]
    ELSE IF loop = "act" /\ at = c THEN plan ELSE heap[c]

\* An entry is not later than it should be, for a denied credential as well,
\* and a credential to be refreshed has one, unless the loop will look again.
OnTime(c) ==
    Present(c) /\ Scheduled(c) # Never =>
        Attended(c) \/ Scheduled(c) <= CheckAt(auths[c], clock)

HasEntry(c) ==
    c \notin forgotten /\ Refreshable(auths[c]) => Attended(c) \/ Scheduled(c) # Never

Watched == Started => \A c \in Credentials : OnTime(c) /\ HasEntry(c)

QueueWoken == dirty # {} => wake
PassEnded == loop \in {"off", "installed", "listed", "waiting"} => todo = {}
TimerSet == loop = "waiting" => \A c \in Credentials : heap[c] # Never => timer # Never

TrackParts == Watched /\ QueueWoken /\ PassEnded /\ TimerSet

\* Reschedules under way are not lost.
RefQueuesKept ==
    \A g \in Refreshers : ref[g].pc = "queue" =>
        (ref'[g].pc = "queue" /\ ref'[g].id = ref[g].id) \/ ref[g].id \in dirty'

WrQueuesKept ==
    \A u \in Writers : wr[u].pc = "queue" =>
        (wr'[u].pc = "queue" /\ wr'[u].id = wr[u].id) \/ wr[u].id \in dirty'

\* They are kept when one refresher or writer moves that has none.
LEMMA RefQueueMoves ==
    ASSUME RefTypes, NEW f \in Refreshers, NEW r, ref' = [ref EXCEPT ![f] = r],
           ref[f].pc # "queue" \/ ref[f].id \in dirty'
    PROVE  RefQueuesKept
<1>1. \A g \in Refreshers \ {f} : ref'[g] = ref[g]
  BY DEF RefTypes
<1> QED
  BY <1>1 DEF RefQueuesKept

\* A refresh may end if what it had to announce is marked dirty.
LEMMA EndedQueues ==
    ASSUME RefTypes, NEW f \in Refreshers, Ended(f), ref[f].pc # "queue" \/ ref[f].id \in dirty'
    PROVE  RefQueuesKept
<1>1. PICK r : r = IF f \in Workers
                   THEN [Idle EXCEPT !.pc = "again", !.id = ref[f].id] ELSE Idle
  OBVIOUS
<1>2. ref' = [ref EXCEPT ![f] = r]
  BY <1>1 DEF Ended
<1> QED
  BY <1>2, RefQueueMoves

\* A writer may move on if what it had to announce is marked dirty.
LEMMA WrQueueMoves ==
    ASSUME WrTypes, NEW u \in Writers, NEW r, wr' = [wr EXCEPT ![u] = r],
           wr[u].pc # "queue" \/ wr[u].id \in dirty'
    PROVE  WrQueuesKept
<1>1. \A v \in Writers \ {u} : wr'[v] = wr[v]
  BY DEF WrTypes
<1> QED
  BY <1>1 DEF WrQueuesKept

\* Steps of others lose no announcement.
LEMMA UnchangedQueues ==
    /\ UNCHANGED ref => RefQueuesKept
    /\ UNCHANGED wr => WrQueuesKept
BY DEF RefQueuesKept, WrQueuesKept

\* The loop stays where it is and what it is yet to look at does too.
LEMMA AttendedKept ==
    ASSUME RefQueuesKept, WrQueuesKept, dirty \subseteq dirty', UNCHANGED <<todo, at, loop>>
    PROVE  \A c \in Credentials : Attended(c) => Attended(c)'
<1>1. ASSUME NEW c \in Credentials, Attended(c) PROVE Attended(c)'
  <2>1. CASE c \in dirty \/ c \in todo \/ (at = c /\ loop = "mark")
    BY <2>1 DEF Attended
  <2>2. ASSUME NEW f \in Refreshers, ref[f].id = c, ref[f].pc = "queue" PROVE Attended(c)'
    BY <2>2 DEF Attended, Announced, RefQueuesKept
  <2>3. ASSUME NEW u \in Writers, wr[u].id = c, wr[u].pc = "queue" PROVE Attended(c)'
    BY <2>3 DEF Attended, Announced, WrQueuesKept
  <2> QED
    BY <1>1, <2>1, <2>2, <2>3 DEF Attended, Announced
<1> QED
  BY <1>1

\* Nothing about a credential changes but that it may be looked at again.
LEMMA WatchStays ==
    ASSUME NEW c \in Credentials, OnTime(c), HasEntry(c),
           Attended(c) => Attended(c)', auths'[c] = auths[c], clock' = clock,
           Scheduled(c)' = Scheduled(c),
           c \notin forgotten' => c \notin forgotten \/ Scheduled(c) # Never
    PROVE  OnTime(c)' /\ HasEntry(c)'
<1>1. OnTime(c)'
  BY DEF OnTime, Present, CheckAt, Later
<1>2. HasEntry(c)'
  BY DEF HasEntry, Refreshable
<1> QED
  BY <1>1, <1>2

\* What will be looked at again, or is gone, needs no entry.
LEMMA WatchAgain ==
    ASSUME NEW c \in Credentials, Attended(c)' \/ auths'[c] = None
    PROVE  OnTime(c)' /\ HasEntry(c)'
BY DEF OnTime, HasEntry, Present, Refreshable

\* An entry the loop has just computed is on time.
LEMMA WatchLook ==
    ASSUME NEW c \in Credentials, Basic, NEW t \in Time, t <= clock,
           UNCHANGED <<auths, clock>>, Scheduled(c)' = nextRefreshCheckAt(auths[c], t)
    PROVE  OnTime(c)' /\ HasEntry(c)'
<1>1. t \in Nat /\ clock \in Nat /\ auths[c] \in Auths \cup {None}
  BY InstantFacts, BasicParts DEF CountTypes, AuthTypes
<1>2. CASE Refreshable(auths[c])
  <2>1. auths[c] \in Auths
    BY <1>1, <1>2 DEF Refreshable
  <2>2. CheckAt(auths[c], t) <= CheckAt(auths[c], clock) /\ CheckAt(auths[c], t) \in Nat
    BY <1>1, <2>1, CheckAtMonotone
  <2>3. Scheduled(c)' = CheckAt(auths[c], t)
    BY <1>2 DEF nextRefreshCheckAt
  <2>4. Scheduled(c)' # Never
    BY <2>2, <2>3, InstantFacts
  <2>5. OnTime(c)'
    BY <2>2, <2>3 DEF OnTime, CheckAt, Later
  <2>6. HasEntry(c)'
    BY <2>4 DEF HasEntry
  <2> QED
    BY <2>5, <2>6
<1>3. CASE ~Refreshable(auths[c])
  <2>1. Scheduled(c)' = Never
    BY <1>3 DEF nextRefreshCheckAt
  <2>2. ~Refreshable(auths[c])'
    BY <1>3 DEF Refreshable
  <2> QED
    BY <2>1, <2>2 DEF OnTime, HasEntry
<1> QED
  BY <1>2, <1>3

\* A step outside the loop: a credential that changes is announced.
LEMMA OutsideTrack ==
    ASSUME Basic, TrackParts, UNCHANGED <<loopVars, heap, clock, forgotten>>,
           dirty \subseteq dirty', dirty' # {} => wake',
           Started => RefQueuesKept /\ WrQueuesKept,
           Started => \A c \in Credentials :
              Attended(c)' \/ auths'[c] = None \/ auths'[c] = auths[c]
    PROVE  TrackParts'
<1>1. QueueWoken' /\ PassEnded' /\ TimerSet'
  BY DEF TrackParts, QueueWoken, PassEnded, TimerSet, loopVars
<1>2. Started' => Started
  BY DEF Started, loopVars
<1>3. ASSUME Started, NEW c \in Credentials PROVE OnTime(c)' /\ HasEntry(c)'
  <2>1. CASE Attended(c)' \/ auths'[c] = None
    BY <2>1, WatchAgain
  <2>2. CASE auths'[c] = auths[c]
    <3>1. Attended(c) => Attended(c)'
      BY <1>3, AttendedKept DEF loopVars
    <3>2. Scheduled(c)' = Scheduled(c)
      BY DEF Scheduled, loopVars
    <3>3. OnTime(c) /\ HasEntry(c)
      BY <1>3 DEF TrackParts, Watched
    <3> QED
      BY <2>2, <3>1, <3>2, <3>3, WatchStays
  <2> QED
    BY <1>3, <2>1, <2>2
<1>4. Watched'
  BY <1>2, <1>3 DEF Watched
<1> QED
  BY <1>1, <1>4 DEF TrackParts

\* Rescheduling wakes the loop.
LEMMA QueueWakes ==
    ASSUME QueueWoken, NEW c, queueReschedule(c) \/ queueOwnLoop(c) \/ UNCHANGED <<dirty, wake>>
    PROVE  dirty \subseteq dirty' /\ (dirty' # {} => wake')
BY DEF QueueWoken, queueReschedule, queueOwnLoop

\* The start of a refresh, and workers.
LEMMA BeginTrack ==
    ASSUME Basic, TrackParts,
           \/ \E w \in Workers : WorkerStep(w)
           \/ \E q \in Requests, c \in Credentials : RequestUnauthorized(q, c)
           \/ \E f \in Refreshers : BeginRefresh(f)
    PROVE  TrackParts'
<1> USE BasicParts
<1>1. QueueWoken
  BY DEF TrackParts
<1>2. ASSUME RefQueuesKept, WrQueuesKept, UNCHANGED <<auths, loopVars, heap, clock, forgotten>>,
             dirty \subseteq dirty', dirty' # {} => wake'
      PROVE  TrackParts'
  BY <1>2, OutsideTrack
<1>3. ASSUME NEW w \in Workers, TakeJob(w) PROVE TrackParts'
  <2>1. PICK r : r = [Idle EXCEPT !.pc = "lock", !.id = Head(jobs)]
    OBVIOUS
  <2>2. w \in Refreshers /\ ref' = [ref EXCEPT ![w] = r] /\ ref[w].pc # "queue"
    BY <1>3, <2>1 DEF TakeJob, Refreshers
  <2>3. RefQueuesKept
    BY <2>2, RefQueueMoves
  <2>4. /\ UNCHANGED <<auths, wr, loopVars, heap, clock, forgotten>>
        /\ dirty \subseteq dirty' /\ (dirty' # {} => wake')
    BY <1>1, <1>3 DEF TakeJob, clockVars, historyVars, queueVars, QueueWoken
  <2> QED
    BY <1>2, <2>3, <2>4, UnchangedQueues
<1>4. ASSUME NEW w \in Workers, WorkerAgain(w) PROVE TrackParts'
  <2>1. w \in Refreshers /\ ref' = [ref EXCEPT ![w] = Idle] /\ ref[w].pc # "queue"
    BY <1>4 DEF WorkerAgain, Refreshers
  <2>2. RefQueuesKept
    BY <2>1, RefQueueMoves
  <2>3. UNCHANGED <<auths, wr, loopVars, heap, clock, forgotten>>
    BY <1>4 DEF WorkerAgain, clockVars, historyVars
  <2>4. dirty \subseteq dirty' /\ (dirty' # {} => wake')
    BY <1>1, <1>4, QueueWakes DEF WorkerAgain
  <2> QED
    BY <1>2, <2>2, <2>3, <2>4, UnchangedQueues
<1>5. ASSUME NEW w \in Workers, WorkerStops(w) PROVE TrackParts'
  <2>1. PICK r : r = [ref[w] EXCEPT !.pc = "exited"]
    OBVIOUS
  <2>2. w \in Refreshers /\ ref' = [ref EXCEPT ![w] = r] /\ ref[w].pc # "queue"
    BY <1>5, <2>1 DEF WorkerStops, Refreshers
  <2>3. RefQueuesKept
    BY <2>2, RefQueueMoves
  <2>4. /\ UNCHANGED <<auths, wr, loopVars, heap, clock, forgotten>>
        /\ dirty \subseteq dirty' /\ (dirty' # {} => wake')
    BY <1>1, <1>5 DEF WorkerStops, clockVars, historyVars, queueVars, QueueWoken
  <2> QED
    BY <1>2, <2>3, <2>4, UnchangedQueues
<1>6. ASSUME NEW q \in Requests, NEW c \in Credentials, RequestUnauthorized(q, c)
      PROVE  TrackParts'
  <2>1. PICK r : r = [Idle EXCEPT !.pc = "lock", !.id = c, !.failed = auths[c].token]
    OBVIOUS
  <2>2. q \in Refreshers /\ ref' = [ref EXCEPT ![q] = r] /\ ref[q].pc # "queue"
    BY <1>6, <2>1 DEF RequestUnauthorized, Refreshers
  <2>3. RefQueuesKept
    BY <2>2, RefQueueMoves
  <2>4. /\ UNCHANGED <<auths, wr, loopVars, heap, clock, forgotten>>
        /\ dirty \subseteq dirty' /\ (dirty' # {} => wake')
    BY <1>1, <1>6 DEF RequestUnauthorized, historyVars, queueVars, QueueWoken
  <2> QED
    BY <1>2, <2>3, <2>4, UnchangedQueues
<1>7. ASSUME NEW f \in Refreshers, BeginRefresh(f) PROVE TrackParts'
  <2>1. ref[f].pc = "lock"
    BY <1>7 DEF BeginRefresh
  <2>2. RefQueuesKept
    <3>1. CASE Ended(f)
      BY <2>1, <3>1, EndedQueues
    <3>2. CASE ~Ended(f)
      <4>1. PICK c \in Credentials : c = ref[f].id
        BY <2>1 DEF RefDiscipline
      <4>2. PICK a \in Auths \cup {None} : a = auths[c]
        BY DEF AuthTypes
      <4>3. ref' = [ref EXCEPT ![f].pc = "call", ![f].auth = a]
        BY <1>7, <3>2, <4>1, <4>2 DEF BeginRefresh
      <4> QED
        BY <2>1, <4>3, GoesOn DEF RefQueuesKept
    <3> QED
      BY <3>1, <3>2
  <2>3. /\ UNCHANGED <<auths, wr, loopVars, heap, clock, forgotten>>
        /\ dirty \subseteq dirty' /\ (dirty' # {} => wake')
    BY <1>1, <1>7 DEF BeginRefresh, clockVars, historyVars, queueVars, QueueWoken
  <2> QED
    BY <1>2, <2>2, <2>3, UnchangedQueues
<1> QED
  BY <1>3, <1>4, <1>5, <1>6, <1>7 DEF WorkerStep

\* A refresher that goes on to "queue" announces its credential.
LEMMA AnnouncedByRefresh ==
    ASSUME Basic, NEW f \in Refreshers, NEW c \in Credentials, c = ref[f].id,
           ref[f].pc = "call", ref' = [ref EXCEPT ![f].pc = "queue", ![f].auth = None]
    PROVE  Attended(c)' /\ RefQueuesKept
<1>1. /\ ref'[f].pc = "queue" /\ ref'[f].id = ref[f].id
      /\ \A g \in Refreshers \ {f} : ref'[g] = ref[g]
  BY GoesOn, BasicParts
<1> QED
  BY <1>1 DEF Attended, Announced, RefQueuesKept

\* The answers to a refresh.
LEMMA AnswerTrack ==
    ASSUME Basic, TrackParts, NEW f \in Refreshers, Answer(f)
    PROVE  TrackParts'
<1> USE BasicParts
<1>1. QueueWoken
  BY DEF TrackParts
<1>2. PICK c \in Credentials : c = ref[f].id
  BY DEF Answer, RefreshCancelled, QueueRefreshed, RefreshFails, RefreshSucceeds, RefDiscipline
<1>3. CASE RefreshCancelled(f)
  <2>1. RefQueuesKept
    BY <1>3, EndedQueues DEF RefreshCancelled
  <2>2. /\ UNCHANGED <<auths, wr, loopVars, heap, clock, forgotten>>
        /\ dirty \subseteq dirty' /\ (dirty' # {} => wake')
    BY <1>1, <1>3 DEF RefreshCancelled, clockVars, historyVars, queueVars, QueueWoken
  <2> QED
    BY <2>1, <2>2, UnchangedQueues, OutsideTrack
<1>4. CASE QueueRefreshed(f)
  <2>1. Started => c \in dirty'
    BY <1>2, <1>4 DEF QueueRefreshed, queueReschedule, Started
  <2>2. Started => RefQueuesKept
    BY <1>2, <1>4, <2>1, EndedQueues DEF QueueRefreshed
  <2>3. UNCHANGED <<auths, wr, loopVars, heap, clock, forgotten>>
    BY <1>4 DEF QueueRefreshed, clockVars, historyVars
  <2>4. dirty \subseteq dirty' /\ (dirty' # {} => wake')
    BY <1>1, <1>4, QueueWakes DEF QueueRefreshed
  <2> QED
    BY <2>2, <2>3, <2>4, UnchangedQueues, OutsideTrack
<1>5. ASSUME NEW denied \in BOOLEAN, RefreshFails(f, denied) PROVE TrackParts'
  <2>1. /\ UNCHANGED <<wr, loopVars, heap, clock, forgotten>> /\ ref[f].pc = "call"
        /\ dirty \subseteq dirty' /\ (dirty' # {} => wake')
    BY <1>1, <1>5 DEF RefreshFails, clockVars, historyVars, queueVars, QueueWoken
  <2>2. CASE Present(c)
    <3>1. ref' = [ref EXCEPT ![f].pc = "queue", ![f].auth = None]
      BY <1>2, <1>5, <2>2 DEF RefreshFails
    <3>2. Attended(c)' /\ RefQueuesKept
      BY <1>2, <2>1, <3>1, AnnouncedByRefresh
    <3>3. \A d \in Credentials : d # c => auths'[d] = auths[d]
      BY <1>2, <1>5, <2>2 DEF RefreshFails, AuthTypes
    <3>4. \A d \in Credentials : Attended(d)' \/ auths'[d] = None \/ auths'[d] = auths[d]
      BY <3>2, <3>3
    <3> QED
      BY <2>1, <3>2, <3>4, UnchangedQueues, OutsideTrack
  <2>3. CASE ~Present(c)
    <3>1. Ended(f) /\ auths' = auths
      BY <1>2, <1>5, <2>3 DEF RefreshFails
    <3>2. RefQueuesKept
      BY <2>1, <3>1, EndedQueues
    <3> QED
      BY <2>1, <3>1, <3>2, UnchangedQueues, OutsideTrack
  <2> QED
    BY <2>2, <2>3
<1>6. ASSUME NEW effective \in BOOLEAN, RefreshSucceeds(f, effective) PROVE TrackParts'
  <2>1. /\ UNCHANGED <<wr, loopVars, heap, clock, forgotten>> /\ ref[f].pc = "call"
        /\ dirty \subseteq dirty' /\ (dirty' # {} => wake')
    BY <1>1, <1>6 DEF RefreshSucceeds, clockVars, historyVars, queueVars, QueueWoken
  <2>2. CASE Present(c)
    <3>1. ref' = [ref EXCEPT ![f].pc = "queue", ![f].auth = None]
      BY <1>2, <1>6, <2>2 DEF RefreshSucceeds
    <3>2. Attended(c)' /\ RefQueuesKept
      BY <1>2, <2>1, <3>1, AnnouncedByRefresh
    <3>3. \A d \in Credentials : d # c => auths'[d] = auths[d]
      <4>1. auths' = [auths EXCEPT ![c] = Refreshed(ref[f].auth, effective)]
        BY <1>2, <1>6, <2>2 DEF RefreshSucceeds
      <4> QED
        BY <4>1 DEF AuthTypes
    <3>4. \A d \in Credentials : Attended(d)' \/ auths'[d] = None \/ auths'[d] = auths[d]
      BY <3>2, <3>3
    <3> QED
      BY <2>1, <3>2, <3>4, UnchangedQueues, OutsideTrack
  <2>3. CASE ~Present(c)
    <3>1. Ended(f) /\ auths' = auths
      BY <1>2, <1>6, <2>3 DEF RefreshSucceeds
    <3>2. RefQueuesKept
      BY <2>1, <3>1, EndedQueues
    <3> QED
      BY <2>1, <3>1, <3>2, UnchangedQueues, OutsideTrack
  <2> QED
    BY <2>2, <2>3
<1> QED
  BY <1>3, <1>4, <1>5, <1>6 DEF Answer

\* Management and service: the start of a write announces nothing yet, and
\* a removed credential needs no entry.
LEMMA WriterBeginsTrack ==
    ASSUME Basic, TrackParts, NEW u \in Writers, WriterBegins(u)
    PROVE  TrackParts'
<1> USE BasicParts
<1>1. QueueWoken
  BY DEF TrackParts
<1>2. ASSUME NEW c, NEW kind, NEW auth, StartWrite(u, c, kind, auth)
      PROVE  WrQueuesKept
  <2>1. PICK r : r = [pc |-> "write", id |-> c, kind |-> kind, auth |-> auth]
    OBVIOUS
  <2>2. wr' = [wr EXCEPT ![u] = r] /\ wr[u].pc # "queue"
    BY <1>2, <2>1 DEF StartWrite
  <2> QED
    BY <2>2, WrQueueMoves
<1>3. ASSUME NEW c \in Credentials, NEW kind \in Kinds, PatchAuthFileStatus(u, c, kind)
      PROVE  TrackParts'
  <2>1. PICK auth : auth = [auths[c] EXCEPT !.disabled = (kind = "disable")]
    OBVIOUS
  <2>2. StartWrite(u, c, kind, auth)
    BY <1>3, <2>1 DEF PatchAuthFileStatus
  <2>3. WrQueuesKept
    BY <1>2, <2>2
  <2>4. /\ UNCHANGED <<auths, ref, loopVars, heap, clock, forgotten>>
        /\ dirty \subseteq dirty' /\ (dirty' # {} => wake')
    BY <1>1, <1>3 DEF PatchAuthFileStatus, historyVars, queueVars, QueueWoken
  <2> QED
    BY <2>3, <2>4, UnchangedQueues, OutsideTrack
<1>4. ASSUME NEW c \in Credentials, ReloadAuthFile(u, c)
      PROVE  TrackParts'
  <2>1. PICK auth : auth = [auths[c] EXCEPT !.denied = FALSE,
                                 !.after = IF auths[c].disabled THEN 0 ELSE @]
    OBVIOUS
  <2>2. StartWrite(u, c, "reload", auth)
    BY <1>4, <2>1 DEF ReloadAuthFile
  <2>3. WrQueuesKept
    BY <1>2, <2>2
  <2>4. /\ UNCHANGED <<auths, ref, loopVars, heap, clock, forgotten>>
        /\ dirty \subseteq dirty' /\ (dirty' # {} => wake')
    BY <1>1, <1>4 DEF ReloadAuthFile, historyVars, queueVars, QueueWoken
  <2> QED
    BY <2>3, <2>4, UnchangedQueues, OutsideTrack
<1>5. ASSUME NEW c \in Credentials, LoginAuthFile(u, c)
      PROVE  TrackParts'
  <2>1. PICK kind, auth : StartWrite(u, c, kind, auth)
    BY <1>5 DEF LoginAuthFile
  <2>2. WrQueuesKept
    BY <1>2, <2>1
  <2>3. /\ UNCHANGED <<auths, ref, loopVars, heap, clock, forgotten>>
        /\ dirty \subseteq dirty' /\ (dirty' # {} => wake')
    BY <1>1, <1>5 DEF LoginAuthFile, historyVars, queueVars, QueueWoken
  <2> QED
    BY <2>2, <2>3, UnchangedQueues, OutsideTrack
<1>6. ASSUME NEW c \in Credentials, Remove(u, c)
      PROVE  TrackParts'
  <2>1. PICK r : r = [pc |-> "unschedule", id |-> c, kind |-> "remove", auth |-> None]
    OBVIOUS
  <2>2. wr' = [wr EXCEPT ![u] = r] /\ wr[u].pc # "queue"
    BY <1>6, <2>1 DEF Remove
  <2>3. WrQueuesKept
    BY <2>2, WrQueueMoves
  <2>4. /\ UNCHANGED <<ref, loopVars, heap, clock, forgotten>>
        /\ dirty \subseteq dirty' /\ (dirty' # {} => wake')
    BY <1>1, <1>6 DEF Remove, historyVars, queueVars, QueueWoken
  <2>5. \A d \in Credentials : auths'[d] = None \/ auths'[d] = auths[d]
    BY <1>6 DEF Remove, AuthTypes
  <2> QED
    BY <2>3, <2>4, <2>5, UnchangedQueues, OutsideTrack
<1> QED
  BY <1>3, <1>4, <1>5, <1>6 DEF WriterBegins

\* Unschedule takes the entry of a credential that is gone, or that is
\* forgotten from then on.
LEMMA UnscheduleTrack ==
    ASSUME Basic, TrackParts, NEW u \in Writers, Unschedule(u)
    PROVE  TrackParts'
<1> USE BasicParts
<1>1. PICK c \in Credentials : c = wr[u].id
  BY DEF Unschedule, WrDiscipline
<1>2. /\ wr' = [wr EXCEPT ![u] = IdleWriter] /\ wr[u].pc # "queue"
      /\ heap' = (IF running THEN [heap EXCEPT ![c] = Never] ELSE heap)
      /\ forgotten' = (IF Present(c) THEN forgotten \cup {c} ELSE forgotten \ {c})
      /\ UNCHANGED <<auths, clock, ref, dirty, wake, loopVars>>
  BY <1>1 DEF Unschedule, clockVars
<1>3. QueueWoken' /\ PassEnded'
  BY <1>2 DEF TrackParts, QueueWoken, PassEnded, loopVars
<1>4. \A d \in Credentials : heap'[d] # Never => heap'[d] = heap[d]
  BY <1>2 DEF QueueTypes
<1>5. TimerSet'
  BY <1>2, <1>4 DEF TrackParts, TimerSet, loopVars
<1>6. RefQueuesKept /\ WrQueuesKept
  BY <1>2, UnchangedQueues, WrQueueMoves
<1>7. \A d \in Credentials : Attended(d) => Attended(d)'
  BY <1>2, <1>6, AttendedKept DEF loopVars
<1>8. ASSUME Started, NEW d \in Credentials PROVE OnTime(d)' /\ HasEntry(d)'
  <2>1. OnTime(d) /\ HasEntry(d)
    BY <1>8 DEF TrackParts, Watched
  <2>2. CASE d # c
    <3>1. heap'[d] = heap[d]
      BY <1>2, <2>2 DEF QueueTypes
    <3>2. Scheduled(d)' = Scheduled(d)
      BY <1>2, <3>1 DEF Scheduled, loopVars
    <3>3. d \notin forgotten' => d \notin forgotten
      BY <1>2, <2>2
    <3> QED
      BY <1>2, <1>7, <2>1, <3>2, <3>3, WatchStays
  <2>3. CASE d = c
    <3>1. CASE ~Present(c)
      BY <1>2, <2>3, <3>1, WatchAgain DEF Present
    <3>2. CASE Present(c)
      <4>1. d \in forgotten'
        BY <1>2, <2>3, <3>2
      <4>2. Scheduled(d)' # Never => Scheduled(d)' = Scheduled(d)
        BY <1>2, <1>4 DEF Scheduled, loopVars
      <4>3. OnTime(d)'
        BY <1>2, <1>7, <2>1, <4>2 DEF OnTime, Present, CheckAt, Later
      <4>4. HasEntry(d)'
        BY <4>1 DEF HasEntry
      <4> QED
        BY <4>3, <4>4
    <3> QED
      BY <3>1, <3>2
  <2> QED
    BY <2>2, <2>3
<1>9. Watched'
  BY <1>2, <1>8 DEF Watched, Started, loopVars
<1> QED
  BY <1>3, <1>5, <1>9 DEF TrackParts

\* The end of a write.
LEMMA WriterEndsTrack ==
    ASSUME Basic, TrackParts, NEW u \in Writers, WriterEnds(u)
    PROVE  TrackParts'
<1> USE BasicParts
<1>1. QueueWoken
  BY DEF TrackParts
<1>2. PICK c \in Credentials : c = wr[u].id
  BY DEF WriterEnds, WriteAuth, QueueWritten, Unschedule, WrDiscipline
<1>3. CASE WriteAuth(u)
  <2>1. /\ UNCHANGED <<ref, loopVars, heap, clock, forgotten>> /\ wr[u].pc = "write"
        /\ dirty \subseteq dirty' /\ (dirty' # {} => wake')
    BY <1>1, <1>3 DEF WriteAuth, clockVars, queueVars, QueueWoken
  <2>2. CASE Present(c) \/ wr[u].kind = "register"
    <3>1. /\ auths' = [auths EXCEPT ![c] = wr[u].auth]
          /\ wr' = [wr EXCEPT ![u].pc = "queue", ![u].auth = None]
      BY <1>2, <1>3, <2>2 DEF WriteAuth
    <3>2. wr'[u].pc = "queue" /\ wr'[u].id = c /\ \A v \in Writers \ {u} : wr'[v] = wr[v]
      <4>1. wr[u] \in WrRecords
        BY DEF WrTypes
      <4> QED
        BY <1>2, <3>1, <4>1 DEF WrTypes, WrRecords
    <3>3. Attended(c)' /\ WrQueuesKept
      BY <2>1, <3>2 DEF Attended, Announced, WrQueuesKept
    <3>4. \A d \in Credentials : d # c => auths'[d] = auths[d]
      BY <3>1 DEF AuthTypes
    <3>5. \A d \in Credentials : Attended(d)' \/ auths'[d] = None \/ auths'[d] = auths[d]
      BY <3>3, <3>4
    <3> QED
      BY <2>1, <3>3, <3>5, UnchangedQueues, OutsideTrack
  <2>3. CASE ~(Present(c) \/ wr[u].kind = "register")
    <3>1. wr' = [wr EXCEPT ![u] = IdleWriter] /\ auths' = auths
      BY <1>2, <1>3, <2>3 DEF WriteAuth
    <3>2. WrQueuesKept
      BY <2>1, <3>1, WrQueueMoves
    <3> QED
      BY <2>1, <3>1, <3>2, UnchangedQueues, OutsideTrack
  <2> QED
    BY <2>2, <2>3
<1>4. CASE QueueWritten(u)
  <2>1. Started => c \in dirty'
    BY <1>2, <1>4 DEF QueueWritten, queueReschedule, Started
  <2>2. wr' = [wr EXCEPT ![u] = IdleWriter]
        /\ UNCHANGED <<auths, ref, loopVars, heap, clock, forgotten>>
    BY <1>4 DEF QueueWritten, clockVars, historyVars
  <2>3. Started => WrQueuesKept
    BY <1>2, <2>1, <2>2, WrQueueMoves
  <2>4. dirty \subseteq dirty' /\ (dirty' # {} => wake')
    BY <1>1, <1>4, QueueWakes DEF QueueWritten
  <2> QED
    BY <2>2, <2>3, <2>4, UnchangedQueues, OutsideTrack
<1> QED
  BY <1>3, <1>4, UnscheduleTrack DEF WriterEnds

\* A result changes neither the times of a credential nor its entry; one
\* that heals it makes it forgotten.
LEMMA ResultTrack ==
    ASSUME Basic, TrackParts, NEW c \in Credentials, NEW denied \in BOOLEAN,
           MarkResult(c, denied)
    PROVE  TrackParts'
<1> USE BasicParts
<1>1. /\ auths' = [auths EXCEPT ![c].denied = denied]
      /\ forgotten' = (IF auths[c].denied /\ ~denied THEN forgotten \cup {c} ELSE forgotten)
      /\ UNCHANGED <<clock, ref, wr, queueVars, loopVars>>
  BY DEF MarkResult
<1>2. QueueWoken' /\ PassEnded' /\ TimerSet'
  BY <1>1 DEF TrackParts, QueueWoken, PassEnded, TimerSet, loopVars, queueVars
<1>3. \A d \in Credentials : Attended(d)' = Attended(d) /\ Scheduled(d)' = Scheduled(d)
  BY <1>1 DEF Attended, Announced, Scheduled, loopVars, queueVars
<1>4. auths[c] \in Auths /\ auths[c] # None
  BY DEF MarkResult, Present, AuthTypes
<1>5. /\ auths'[c].after = auths[c].after /\ auths'[c].due = auths[c].due
      /\ auths'[c].denied = denied
  <2>1. auths'[c] = [auths[c] EXCEPT !.denied = denied]
    BY <1>1 DEF AuthTypes
  <2> QED
    BY <1>4, <2>1 DEF Auths
<1>6. ASSUME Started, NEW d \in Credentials PROVE OnTime(d)' /\ HasEntry(d)'
  <2>1. OnTime(d) /\ HasEntry(d)
    BY <1>6 DEF TrackParts, Watched
  <2>2. CASE d # c
    <3>1. auths'[d] = auths[d]
      BY <1>1, <2>2 DEF AuthTypes
    <3>2. d \notin forgotten' => d \notin forgotten
      BY <1>1
    <3> QED
      BY <1>1, <1>3, <2>1, <3>1, <3>2, WatchStays
  <2>3. CASE d = c
    <3>1. OnTime(c)'
      BY <1>1, <1>3, <1>4, <1>5, <2>1, <2>3 DEF OnTime, Present, CheckAt, Later
    <3>2. HasEntry(c)'
      <4>1. CASE c \in forgotten' \/ denied
        BY <1>5, <4>1 DEF HasEntry, Refreshable
      <4>2. CASE c \notin forgotten' /\ ~denied
        <5>1. c \notin forgotten /\ ~auths[c].denied
          BY <1>1, <4>2
        <5>2. Refreshable(auths[c])
          BY <1>4, <5>1 DEF Refreshable
        <5> QED
          BY <1>3, <2>1, <2>3, <5>1, <5>2 DEF HasEntry
      <4> QED
        BY <4>1, <4>2
    <3> QED
      BY <2>3, <3>1, <3>2
  <2> QED
    BY <2>2, <2>3
<1>7. Watched'
  BY <1>1, <1>6 DEF Watched, Started, loopVars
<1> QED
  BY <1>2, <1>7 DEF TrackParts

\* Time passes: nothing is due earlier for it.
LEMMA TickTrack ==
    ASSUME Basic, TrackParts, Tick
    PROVE  TrackParts'
<1> USE BasicParts
<1>1. /\ clock' = clock + 1
      /\ UNCHANGED <<auths, ref, wr, queueVars, loopVars, forgotten>>
  BY DEF Tick, historyVars
<1>2. QueueWoken' /\ PassEnded' /\ TimerSet'
  BY <1>1 DEF TrackParts, QueueWoken, PassEnded, TimerSet, loopVars, queueVars
<1>3. \A d \in Credentials : Attended(d)' = Attended(d) /\ Scheduled(d)' = Scheduled(d)
  BY <1>1 DEF Attended, Announced, Scheduled, loopVars, queueVars
<1>4. clock \in Nat /\ clock + 1 \in Nat /\ clock <= clock + 1
  <2>1. clock \in Nat
    BY InstantFacts DEF CountTypes
  <2> QED
    BY <2>1
<1>5. ASSUME Started, NEW d \in Credentials PROVE OnTime(d)' /\ HasEntry(d)'
  <2>1. OnTime(d) /\ HasEntry(d)
    BY <1>5 DEF TrackParts, Watched
  <2>2. HasEntry(d)'
    BY <1>1, <1>3, <2>1 DEF HasEntry, Refreshable
  <2>3. OnTime(d)'
    <3>1. CASE ~Present(d) \/ Scheduled(d) = Never \/ Attended(d)
      BY <1>1, <1>3, <3>1 DEF OnTime, Present
    <3>2. CASE Present(d) /\ Scheduled(d) # Never /\ ~Attended(d)
      <4>1. auths[d] \in Auths
        BY <3>2 DEF Present, AuthTypes
      <4>2. /\ CheckAt(auths[d], clock) <= CheckAt(auths[d], clock + 1)
            /\ CheckAt(auths[d], clock) \in Nat /\ CheckAt(auths[d], clock + 1) \in Nat
        BY <1>4, <4>1, CheckAtMonotone
      <4>3. Scheduled(d) <= CheckAt(auths[d], clock)
        BY <2>1, <3>2 DEF OnTime
      <4>4. Scheduled(d) \in Nat
        <5>1. Scheduled(d) \in Instants \cup {Never}
          BY DEF Scheduled, LoopTypes, QueueTypes
        <5> QED
          BY <3>2, <5>1, InstantFacts
      <4>5. Scheduled(d) <= CheckAt(auths[d], clock + 1)
        BY <4>2, <4>3, <4>4
      <4> QED
        BY <1>1, <1>3, <4>5 DEF OnTime, CheckAt, Later
    <3> QED
      BY <3>1, <3>2
  <2> QED
    BY <2>2, <2>3
<1>6. Watched'
  BY <1>1, <1>5 DEF Watched, Started, loopVars
<1> QED
  BY <1>2, <1>6 DEF TrackParts

\* Start, stop and rebuild: rebuild's reading of a credential is on time when
\* it is taken, and what changes later is announced to the new loop.
LEMMA RebuildTrack ==
    ASSUME Basic, TrackParts,
           StartAutoRefresh \/ StopAutoRefresh \/ LoopStops \/ RebuildRead \/ RebuildWrite
    PROVE  TrackParts'
<1> USE BasicParts
<1>1. CASE StartAutoRefresh \/ StopAutoRefresh \/ LoopStops
  <2>1. ~Started'
    BY <1>1 DEF StartAutoRefresh, StopAutoRefresh, LoopStops, Started
  <2>2. UNCHANGED <<dirty, wake, todo, heap, timer>>
    BY <1>1 DEF StartAutoRefresh, StopAutoRefresh, LoopStops, queueVars
  <2>3. loop' = loop \/ loop' = "stopped" \/ (loop = "off" /\ loop' = "installed")
    BY <1>1 DEF StartAutoRefresh, StopAutoRefresh, LoopStops
  <2>4. QueueWoken'
    BY <2>2 DEF TrackParts, QueueWoken
  <2>5. PassEnded'
    BY <2>2, <2>3 DEF TrackParts, PassEnded
  <2>6. TimerSet'
    BY <2>2, <2>3 DEF TrackParts, TimerSet
  <2> QED
    BY <2>1, <2>4, <2>5, <2>6 DEF TrackParts, Watched
<1>2. CASE RebuildRead
  <2>1. /\ loop = "installed" /\ loop' = "listed"
        /\ entries' = [c \in Credentials |-> nextRefreshCheckAt(auths[c], clock)]
        /\ UNCHANGED <<auths, clock, dirty, wake, todo>>
    BY <1>2 DEF RebuildRead, clockVars, queueVars
  <2>2. QueueWoken' /\ PassEnded' /\ TimerSet'
    BY <2>1 DEF TrackParts, QueueWoken, PassEnded, TimerSet
  <2>3. clock \in Time /\ clock <= clock
    <3>1. clock \in Time /\ clock \in Nat
      BY InstantFacts DEF CountTypes
    <3> QED
      BY <3>1
  <2>4. ASSUME NEW c \in Credentials PROVE OnTime(c)' /\ HasEntry(c)'
    <3>1. Scheduled(c)' = nextRefreshCheckAt(auths[c], clock)
      BY <2>1 DEF Scheduled
    <3> QED
      BY <2>1, <2>3, <3>1, WatchLook
  <2> QED
    BY <2>2, <2>4 DEF TrackParts, Watched
<1>3. CASE RebuildWrite
  <2>1. /\ loop = "listed" /\ loop' = "waiting" /\ heap' = entries
        /\ resetTimer(entries, clock)
        /\ forgotten' = {c \in forgotten : entries[c] = Never}
        /\ UNCHANGED <<auths, clock, ref, wr, running, dirty, wake, todo, at>>
    BY <1>3 DEF RebuildWrite, clockVars
  <2>2. QueueWoken' /\ PassEnded'
    BY <2>1 DEF TrackParts, QueueWoken, PassEnded
  <2>3. TimerSet'
    BY <2>1, TimerFacts DEF TimerSet, LoopTypes, CountTypes
  <2>4. ASSUME Started, NEW c \in Credentials PROVE OnTime(c)' /\ HasEntry(c)'
    <3>1. Scheduled(c)' = Scheduled(c) /\ Scheduled(c) = entries[c]
      BY <2>1 DEF Scheduled
    <3>2. Attended(c) => Attended(c)'
      BY <2>1 DEF Attended, Announced
    <3>3. OnTime(c) /\ HasEntry(c)
      BY <2>4 DEF TrackParts, Watched
    <3>4. c \notin forgotten' => c \notin forgotten \/ Scheduled(c) # Never
      BY <2>1, <3>1
    <3> QED
      BY <2>1, <3>1, <3>2, <3>3, <3>4, WatchStays
  <2>5. Started' => Started
    BY <2>1 DEF Started
  <2> QED
    BY <2>2, <2>3, <2>4, <2>5 DEF TrackParts, Watched
<1> QED
  BY <1>1, <1>2, <1>3

\* Between the phases of a pass ids change sets, and none is dropped.
LEMMA PassTrack ==
    ASSUME Basic, TrackParts, LoopWakes \/ TimerFires \/ DueDone \/ DirtyDone \/ SendJob
    PROVE  TrackParts'
<1> USE BasicParts
<1>1. UNCHANGED <<auths, clock, ref, wr, running, forgotten>>
  BY DEF LoopWakes, TimerFires, DueDone, DirtyDone, SendJob, clockVars, historyVars
<1>2. /\ loop \in {"waiting", "next", "send"} /\ loop' \in {"waiting", "next"}
      /\ Started' => Started
  <2>1. loop \in {"waiting", "next", "send"} /\ loop' \in {"waiting", "next"}
    BY DEF LoopWakes, TimerFires, DueDone, DirtyDone, SendJob
  <2> QED
    BY <1>1, <2>1 DEF Started
<1>3. ASSUME \A c \in Credentials : c \in dirty \/ c \in todo => c \in dirty' \/ c \in todo',
             \A c \in Credentials : heap'[c] = heap[c] \/ c \in todo'
      PROVE  Watched'
  <2>1. ASSUME Started, NEW c \in Credentials PROVE OnTime(c)' /\ HasEntry(c)'
    <3>1. OnTime(c) /\ HasEntry(c)
      BY <2>1 DEF TrackParts, Watched
    <3>2. Attended(c) => Attended(c)'
      BY <1>1, <1>2, <1>3 DEF Attended, Announced
    <3>3. CASE heap'[c] = heap[c]
      <4>1. Scheduled(c)' = Scheduled(c)
        BY <1>2, <3>3 DEF Scheduled
      <4> QED
        BY <1>1, <3>1, <3>2, <4>1, WatchStays
    <3>4. CASE c \in todo'
      BY <3>4, WatchAgain DEF Attended
    <3> QED
      BY <1>3, <3>3, <3>4
  <2> QED
    BY <1>2, <2>1 DEF Watched
<1>4. CASE LoopWakes
  <2>1. /\ loop = "waiting" /\ loop' = "next" /\ todo' = dirty /\ dirty' = {} /\ heap' = heap
    BY <1>4 DEF LoopWakes
  <2>2. todo = {}
    BY <2>1 DEF TrackParts, PassEnded
  <2>3. Watched'
    BY <1>3, <2>1, <2>2
  <2> QED
    BY <2>1, <2>3 DEF TrackParts, QueueWoken, PassEnded, TimerSet
<1>5. CASE TimerFires
  <2>1. /\ loop = "waiting" /\ loop' = "next" /\ UNCHANGED <<dirty, wake>>
        /\ \A c \in Credentials : heap'[c] = heap[c] \/ c \in todo'
    BY <1>5 DEF TimerFires
  <2>2. todo = {}
    BY <2>1 DEF TrackParts, PassEnded
  <2>3. Watched'
    BY <1>3, <2>1, <2>2
  <2> QED
    BY <2>1, <2>3 DEF TrackParts, QueueWoken, PassEnded, TimerSet
<1>6. CASE DueDone
  <2>1. /\ loop = "next" /\ loop' = "next" /\ todo = {} /\ todo' = dirty /\ dirty' = {}
        /\ heap' = heap
    BY <1>6 DEF DueDone
  <2>2. Watched'
    BY <1>3, <2>1
  <2> QED
    BY <2>1, <2>2 DEF TrackParts, QueueWoken, PassEnded, TimerSet
<1>7. CASE DirtyDone
  <2>1. /\ loop = "next" /\ loop' = "waiting" /\ todo = {} /\ UNCHANGED <<todo, dirty, wake, heap>>
        /\ resetTimer(heap, now)
    BY <1>7 DEF DirtyDone, queueVars
  <2>2. Watched'
    BY <1>3, <2>1
  <2>3. TimerSet'
    BY <2>1, TimerFacts DEF TimerSet, LoopTypes, CountTypes, QueueTypes
  <2> QED
    BY <2>1, <2>2, <2>3 DEF TrackParts, QueueWoken, PassEnded
<1>8. CASE SendJob
  <2>1. loop' = "next" /\ UNCHANGED <<todo, dirty, wake, heap>>
    BY <1>8 DEF SendJob, queueVars
  <2>2. Watched'
    BY <1>3, <2>1
  <2> QED
    BY <2>1, <2>2 DEF TrackParts, QueueWoken, PassEnded, TimerSet
<1> QED
  BY <1>4, <1>5, <1>6, <1>7, <1>8

\* The loop takes an id from its set and puts what it found into the plan.
LEMMA LookTrack ==
    ASSUME Basic, TrackParts, NEW c \in Credentials, HandleDueAuth(c) \/ ApplyDirty(c)
    PROVE  TrackParts'
<1> USE BasicParts
<1>1. UNCHANGED <<auths, clock, ref, wr, running, forgotten, heap, dirty, wake>>
  BY DEF HandleDueAuth, ApplyDirty, clockVars, historyVars, queueVars
<1>2. /\ loop = "next" /\ todo' = todo \ {c}
      /\ \/ loop' = "next" /\ auths[c] = None
         \/ loop' = "mark" /\ at' = c
         \/ loop' = "act" /\ at' = c /\ plan' = nextRefreshCheckAt(auths[c], now)
  BY DEF HandleDueAuth, ApplyDirty, Present
<1>3. QueueWoken' /\ PassEnded' /\ TimerSet'
  BY <1>1, <1>2 DEF TrackParts, QueueWoken, PassEnded, TimerSet
<1>4. Started' => Started
  BY <1>1, <1>2 DEF Started
<1>5. ASSUME Started, NEW d \in Credentials PROVE OnTime(d)' /\ HasEntry(d)'
  <2>1. OnTime(d) /\ HasEntry(d)
    BY <1>5 DEF TrackParts, Watched
  <2>2. CASE d # c
    <3>1. Attended(d) => Attended(d)'
      BY <1>1, <1>2, <2>2 DEF Attended, Announced
    <3>2. Scheduled(d)' = Scheduled(d)
      BY <1>1, <1>2, <2>2 DEF Scheduled
    <3> QED
      BY <1>1, <2>1, <3>1, <3>2, WatchStays
  <2>3. CASE d = c
    <3>1. CASE loop' = "next" /\ auths[c] = None
      BY <1>1, <2>3, <3>1, WatchAgain
    <3>2. CASE loop' = "mark" /\ at' = c
      BY <2>3, <3>2, WatchAgain DEF Attended
    <3>3. CASE loop' = "act" /\ at' = c /\ plan' = nextRefreshCheckAt(auths[c], now)
      <4>1. Scheduled(c)' = nextRefreshCheckAt(auths[c], now)
        BY <3>3 DEF Scheduled
      <4>2. now \in Time /\ now <= clock
        BY DEF LoopTypes, LoopDiscipline
      <4> QED
        BY <1>1, <2>3, <4>1, <4>2, WatchLook
    <3> QED
      BY <1>2, <3>1, <3>2, <3>3
  <2> QED
    BY <2>2, <2>3
<1>6. Watched'
  BY <1>4, <1>5 DEF Watched
<1> QED
  BY <1>3, <1>6 DEF TrackParts

\* markRefreshPending reschedules what it postpones.
LEMMA MarkTrack ==
    ASSUME Basic, TrackParts, MarkRefreshPending
    PROVE  TrackParts'
<1> USE BasicParts
<1>1. PICK c \in Credentials : c = at
  BY DEF MarkRefreshPending, LoopDiscipline
<1>2. /\ loop = "mark" /\ UNCHANGED <<clock, ref, wr, running, forgotten, heap, todo, at>>
  BY DEF MarkRefreshPending, clockVars, historyVars
<1>3. CASE Present(c) /\ auths[c].after <= now
  <2>1. /\ loop' = "send" /\ queueReschedule(c)
        /\ auths' = [auths EXCEPT ![c].after = now + PendingBackoff]
    BY <1>1, <1>3 DEF MarkRefreshPending
  <2>2. dirty \subseteq dirty' /\ QueueWoken' /\ (running => c \in dirty')
    BY <2>1 DEF TrackParts, QueueWoken, queueReschedule
  <2>3. PassEnded' /\ TimerSet'
    BY <2>1 DEF PassEnded, TimerSet
  <2>4. ASSUME Started, NEW d \in Credentials PROVE OnTime(d)' /\ HasEntry(d)'
    <3>1. CASE d = c
      BY <2>2, <2>4, <3>1, WatchAgain DEF Attended, Started
    <3>2. CASE d # c
      <4>1. auths'[d] = auths[d]
        BY <2>1, <3>2 DEF AuthTypes
      <4>2. Attended(d) => Attended(d)'
        BY <1>1, <1>2, <2>2, <3>2 DEF Attended, Announced
      <4>3. Scheduled(d)' = Scheduled(d)
        BY <1>2, <2>1 DEF Scheduled
      <4>4. OnTime(d) /\ HasEntry(d)
        BY <2>4 DEF TrackParts, Watched
      <4> QED
        BY <1>2, <4>1, <4>2, <4>3, <4>4, WatchStays
    <3> QED
      BY <3>1, <3>2
  <2>5. Started' => Started
    BY <1>2 DEF Started
  <2> QED
    BY <2>2, <2>3, <2>4, <2>5 DEF TrackParts, Watched
<1>4. CASE ~(Present(c) /\ auths[c].after <= now)
  <2>1. /\ loop' = "act" /\ plan' = nextRefreshCheckAt(auths[c], now)
        /\ UNCHANGED <<auths, dirty, wake>>
    BY <1>1, <1>4 DEF MarkRefreshPending
  <2>2. QueueWoken' /\ PassEnded' /\ TimerSet'
    BY <2>1 DEF TrackParts, QueueWoken, PassEnded, TimerSet
  <2>3. ASSUME Started, NEW d \in Credentials PROVE OnTime(d)' /\ HasEntry(d)'
    <3>1. CASE d = c
      <4>1. Scheduled(c)' = nextRefreshCheckAt(auths[c], now)
        BY <1>1, <1>2, <2>1 DEF Scheduled
      <4>2. now \in Time /\ now <= clock
        BY DEF LoopTypes, LoopDiscipline
      <4> QED
        BY <1>2, <2>1, <3>1, <4>1, <4>2, WatchLook
    <3>2. CASE d # c
      <4>1. Attended(d) => Attended(d)'
        BY <1>1, <1>2, <2>1, <3>2 DEF Attended, Announced
      <4>2. Scheduled(d)' = Scheduled(d)
        BY <1>1, <1>2, <2>1, <3>2 DEF Scheduled
      <4>3. OnTime(d) /\ HasEntry(d)
        BY <2>3 DEF TrackParts, Watched
      <4> QED
        BY <1>2, <2>1, <4>1, <4>2, <4>3, WatchStays
    <3> QED
      BY <3>1, <3>2
  <2>4. Started' => Started
    BY <1>2 DEF Started
  <2> QED
    BY <2>2, <2>3, <2>4 DEF TrackParts, Watched
<1> QED
  BY <1>3, <1>4

\* upsert and remove write the plan.
LEMMA ActTrack ==
    ASSUME Basic, TrackParts, Act
    PROVE  TrackParts'
<1> USE BasicParts
<1>1. PICK c \in Credentials : c = at
  BY DEF Act, LoopDiscipline
<1>2. /\ loop = "act" /\ loop' = "next" /\ heap' = [heap EXCEPT ![c] = plan]
      /\ forgotten' = (IF plan = Never THEN forgotten ELSE forgotten \ {c})
      /\ UNCHANGED <<auths, clock, ref, wr, running, dirty, wake, todo>>
  BY <1>1 DEF Act, upsertOrRemove, clockVars
<1>3. QueueWoken' /\ PassEnded' /\ TimerSet'
  BY <1>2 DEF TrackParts, QueueWoken, PassEnded, TimerSet
<1>4. ASSUME Started, NEW d \in Credentials PROVE OnTime(d)' /\ HasEntry(d)'
  <2>1. OnTime(d) /\ HasEntry(d)
    BY <1>4 DEF TrackParts, Watched
  <2>2. Attended(d) => Attended(d)'
    BY <1>2 DEF Attended, Announced
  <2>3. Scheduled(d)' = Scheduled(d)
    BY <1>1, <1>2 DEF Scheduled, QueueTypes
  <2>4. d \notin forgotten' => d \notin forgotten \/ Scheduled(d) # Never
    <3>1. CASE d = c
      <4>1. Scheduled(d) = plan
        BY <1>1, <1>2, <3>1 DEF Scheduled
      <4> QED
        BY <1>2, <4>1
    <3>2. CASE d # c
      BY <1>2, <3>2
    <3> QED
      BY <3>1, <3>2
  <2> QED
    BY <1>2, <2>1, <2>2, <2>3, <2>4, WatchStays
<1>5. Started' => Started
  BY <1>2 DEF Started
<1> QED
  BY <1>3, <1>4, <1>5 DEF TrackParts, Watched

\* Every step keeps every credential watched.
LEMMA NextTrack ==
    Basic /\ TrackParts /\ [Next]_vars => TrackParts'
<1> SUFFICES ASSUME Basic, TrackParts, [Next]_vars PROVE TrackParts'
  OBVIOUS
<1>1. CASE Next
  <2>1. CASE LoopStep \/ StartAutoRefresh \/ StopAutoRefresh \/ Tick
    BY <2>1, RebuildTrack, PassTrack, LookTrack, MarkTrack, ActTrack, TickTrack DEF LoopStep
  <2>2. ASSUME NEW f \in Refreshers, BeginRefresh(f) \/ Answer(f) PROVE TrackParts'
    BY <2>2, BeginTrack, AnswerTrack
  <2>3. ASSUME NEW u \in Writers, WriterBegins(u) \/ WriterEnds(u) PROVE TrackParts'
    BY <2>3, WriterBeginsTrack, WriterEndsTrack
  <2> QED
    BY <1>1, <2>1, <2>2, <2>3, BeginTrack, ResultTrack DEF Next
<1>2. CASE UNCHANGED vars
  <2>1. QueueWoken
    BY DEF TrackParts
  <2>2. /\ UNCHANGED <<ref, wr, auths, loopVars, heap, clock, forgotten>>
        /\ dirty \subseteq dirty' /\ (dirty' # {} => wake')
    BY <1>2, <2>1 DEF vars, clockVars, historyVars, queueVars, QueueWoken
  <2> QED
    BY <2>2, UnchangedQueues, OutsideTrack
<1> QED
  BY <1>1, <1>2

\* While the loop runs, no credential that should be refreshed drops out of
\* its heap, its dirty set and its hands or is kept there for too late a
\* time, whatever refreshes, updates and the rebuild do at once, for any
\* number of credentials, workers, requests and writers.
THEOREM TrackedUnlessForgottenHolds ==
    Spec => []TrackedUnlessForgotten
<1>1. Init => Basic /\ TrackParts
  BY InitBasic
     DEF Init, TrackParts, Watched, Started, QueueWoken, PassEnded, TimerSet
<1>2. Basic /\ TrackParts /\ [Next]_vars => Basic' /\ TrackParts'
  BY NextBasic, NextTrack
<1>3. ASSUME Basic, TrackParts PROVE TrackedUnlessForgotten
  <2>1. TypeOK
    BY <1>3 DEF Basic
  <2>2. ASSUME Started, NEW c \in Credentials \ forgotten, Refreshable(auths[c])
        PROVE  Tracked(c)
    <3>1. OnTime(c) /\ HasEntry(c) /\ Present(c)
      BY <1>3, <2>2 DEF TrackParts, Watched, Refreshable, Present
    <3>2. CASE Attended(c)
      <4>1. c \in dirty => wake
        BY <1>3 DEF TrackParts, QueueWoken
      <4> QED
        BY <3>2, <4>1 DEF Attended, Announced, Tracked
    <3>3. CASE ~Attended(c)
      <4>1. Scheduled(c) # Never /\ Scheduled(c) <= CheckAt(auths[c], clock)
        BY <2>2, <3>1, <3>3 DEF OnTime, HasEntry
      <4>2. InTime(Scheduled(c), c)
        BY <4>1 DEF InTime
      <4>3. CASE loop = "listed"
        BY <4>2, <4>3 DEF Scheduled, Tracked
      <4>4. CASE loop = "act" /\ at = c
        BY <4>2, <4>4 DEF Scheduled, Tracked
      <4>5. CASE loop # "listed" /\ ~(loop = "act" /\ at = c)
        <5>1. Scheduled(c) = heap[c]
          BY <4>5 DEF Scheduled
        <5>2. loop = "waiting" => timer # Never
          BY <1>3, <2>2, <4>1, <5>1 DEF TrackParts, TimerSet
        <5>3. InTime(heap[c], c)
          BY <4>2, <5>1
        <5> QED
          BY <4>5, <5>2, <5>3 DEF Tracked
      <4> QED
        BY <4>3, <4>4, <4>5
    <3> QED
      BY <3>2, <3>3
  <2> QED
    BY <2>1, <2>2 DEF TrackedUnlessForgotten
<1> QED
  BY <1>1, <1>2, <1>3, PTL DEF Spec
=============================================================================
