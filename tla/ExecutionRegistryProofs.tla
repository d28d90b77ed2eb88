----------------------- MODULE ExecutionRegistryProofs -----------------------
(***************************************************************************)
(* Theorems about ExecutionRegistry, for any number of dispatches, groups, *)
(* sinks, threads and barrier revisions.                                   *)
(***************************************************************************)
EXTENDS ExecutionRegistry, FiniteSetTheorems, TLAPS

-----------------------------------------------------------------------------
(***************************************************************************)
(* Type correctness.                                                       *)
(***************************************************************************)

\* The initial registry is well typed.
LEMMA InitTypeOK == Init => TypeOK
<1> SUFFICES ASSUME Init PROVE TypeOK OBVIOUS
<1>1. 0 \in 0 .. MaxDispatches /\ 0 \in Revisions /\ 0 \in 0 .. MaxSnapshots
  BY BoundsAssumption DEF Revisions
<1>2. /\ state \in States
      /\ phase \in [Ids -> Phases]
      /\ spec \in [Ids -> Groups \union {NoGroup}]
      /\ res \in [Ids -> Resources]
      /\ pc \in [Threads -> PCs]
  BY DEF Init, States, Phases, Resources, PCs
<1>3. /\ releaseSequences \in [Groups -> Nat]
      /\ callSink \in [Ids -> Sinks \union {NoSink}]
      /\ callSeq \in [Ids -> Nat]
      /\ replay \in [Groups -> Nat]
      /\ heard \in [Sinks -> [Groups -> Nat]]
  BY DEF Init
<1>4. /\ freeze \in [barrier : Revisions, executions : SUBSET Ids]
      /\ barrierNext \in [Revisions -> 0 .. MaxDispatches]
      /\ todo \in [Threads -> SUBSET Ids]
      /\ cur \in [Threads -> 0 .. MaxDispatches]
  BY <1>1 DEF Init
<1> QED BY <1>1, <1>2, <1>3, <1>4 DEF Init, TypeOK

\* Steps of the goroutine that owns a dispatch, and of the goroutine that
\* closes a resource, preserve the types.
LEMMA OwnerTypeOK ==
  ASSUME TypeOK, NEW i \in Ids, OwnerStep(i) \/ closeResource(i)
  PROVE  TypeOK'
<1> USE DEF TypeOK, States, Phases, Resources, dispatchVars, scopeVars, releaseVars,
            barrierVars, threadVars
<1>1. CASE EndDispatch(i) BY <1>1 DEF EndDispatch, signalLocked
<1>2. ASSUME NEW g \in Groups \union {NoGroup}, Install(i, g) PROVE TypeOK'
  BY <1>2 DEF Install, signalLocked
<1>3. CASE Bind(i) BY <1>3 DEF Bind
<1>4. CASE EndDeactivate(i) BY <1>4 DEF EndDeactivate
<1>5. CASE EndCloseResource(i) BY <1>5 DEF EndCloseResource, startBoundResourceClose
<1>6. CASE markReleasedLocked(i)
  <2>1. CASE spec[i] \in Groups
    <3>1. releaseSequences[spec[i]] + 1 \in Nat BY <2>1
    <3>2. releaseSequences' \in [Groups -> Nat] BY <1>6, <2>1, <3>1 DEF markReleasedLocked
    <3>3. callSink' \in [Ids -> Sinks \union {NoSink}] BY <1>6, <2>1 DEF markReleasedLocked
    <3>4. callSeq' \in [Ids -> Nat] BY <1>6, <2>1, <3>1 DEF markReleasedLocked
    <3> QED BY <1>6, <3>2, <3>3, <3>4 DEF markReleasedLocked
  <2>2. CASE spec[i] \notin Groups BY <1>6, <2>2 DEF markReleasedLocked
  <2> QED BY <2>1, <2>2
<1>7. CASE EndReport(i)
  <2>1. heard' \in [Sinks -> [Groups -> Nat]] BY <1>7 DEF EndReport, Hear
  <2> QED BY <1>7, <2>1 DEF EndReport
<1>8. CASE EndDelete(i) BY <1>8 DEF EndDelete, signalLocked
<1>9. CASE closeResource(i) BY <1>9 DEF closeResource
<1> QED BY <1>1, <1>2, <1>3, <1>4, <1>5, <1>6, <1>7, <1>8, <1>9 DEF OwnerStep

\* Sink swaps and replays, barriers and snapshots preserve the types.
LEMMA EnvironmentTypeOK ==
  ASSUME TypeOK, BeginDispatch \/ SinkStep \/ BarrierStep
  PROVE  TypeOK'
<1> USE DEF TypeOK, dispatchVars, scopeVars, releaseVars, barrierVars, threadVars
<1>1. CASE BeginDispatch
  <2>1. next + 1 \in Ids BY <1>1, BoundsAssumption DEF BeginDispatch, Ids
  <2> QED BY <1>1, <2>1, BoundsAssumption, SMTT(60) DEF BeginDispatch, Phases, Ids
<1>2. ASSUME NEW s \in Sinks \union {NoSink}, SetReleaseSink(s) PROVE TypeOK'
  BY <1>2 DEF SetReleaseSink
<1>3. ASSUME NEW g \in Groups, ReplayRelease(g) PROVE TypeOK'
  <2>1. heard' \in [Sinks -> [Groups -> Nat]] BY <1>3 DEF ReplayRelease, Hear
  <2> QED BY <1>3, <2>1 DEF ReplayRelease
<1>4. ASSUME NEW b \in Revisions, ObserveBarrier(b) PROVE TypeOK'
  BY <1>4 DEF ObserveBarrier
<1>5. CASE FreezeInFlight
  <2>1. publishedBarrier' \in Revisions BY <1>5 DEF FreezeInFlight
  <2>2. snapshotRevision' \in 0 .. MaxSnapshots
    BY <1>5, BoundsAssumption DEF FreezeInFlight
  <2> QED BY <1>5, <2>1, <2>2 DEF FreezeInFlight
<1> QED BY <1>1, <1>2, <1>3, <1>4, <1>5 DEF SinkStep, BarrierStep

\* Steps of WaitPending, Drain and Close preserve the types.
LEMMA ThreadTypeOK ==
  ASSUME TypeOK, NEW t \in Threads, ThreadStep(t)
  PROVE  TypeOK'
<1> USE DEF TypeOK, States, PCs, Goto, dispatchVars, scopeVars, releaseVars, barrierVars,
            threadVars
<1>1. CASE WaitPending(t) BY <1>1 DEF WaitPending
<1>2. CASE WaitPendingCheck(t) BY <1>2 DEF WaitPendingCheck
<1>3. CASE Drain(t) BY <1>3 DEF Drain
<1>4. CASE DrainSnapshot(t) BY <1>4 DEF DrainSnapshot
<1>5. CASE DrainClosedAll(t) BY <1>5 DEF DrainClosedAll
<1>6. CASE DrainCheck(t) BY <1>6 DEF DrainCheck
<1>7. ASSUME NEW i \in Ids, DrainCloseScope(t, i) PROVE TypeOK'
  BY <1>7 DEF DrainCloseScope, startBoundResourceClose, Resources
<1>8. CASE ContextDone(t) BY <1>8 DEF ContextDone
<1>9. CASE Close(t)
  <2>1. pc' \in [Threads -> PCs] /\ closeStarted' \in BOOLEAN BY <1>9 DEF Close
  <2> QED BY <1>9, <2>1 DEF Close
<1>10. CASE CloseCAS(t) BY <1>10 DEF CloseCAS
<1>11. CASE CloseSnapshot(t) BY <1>11 DEF CloseSnapshot
<1>12. CASE CloseWaitScope(t) BY <1>12, BoundsAssumption DEF CloseWaitScope
<1>13. ASSUME NEW i \in Ids, CloseStartScope(t, i) PROVE TypeOK'
  <2>1. i \in 0 .. MaxDispatches BY BoundsAssumption DEF Ids
  <2>2. /\ res' \in [Ids -> Resources]
        /\ cur' \in [Threads -> 0 .. MaxDispatches]
        /\ todo' \in [Threads -> SUBSET Ids]
    BY <1>13, <2>1 DEF CloseStartScope, startBoundResourceClose, Resources
  <2> QED BY <1>13, <2>2 DEF CloseStartScope
<1>14. CASE CloseFinish(t) BY <1>14 DEF CloseFinish
<1>15. CASE CloseJoin(t) BY <1>15 DEF CloseJoin
<1> QED BY <1>1, <1>2, <1>3, <1>4, <1>5, <1>6, <1>7, <1>8, <1>9, <1>10, <1>11, <1>12,
           <1>13, <1>14, <1>15 DEF ThreadStep

\* A step that changes nothing preserves the types.
LEMMA StutterTypeOK == TypeOK /\ UNCHANGED vars => TypeOK'
  BY DEF TypeOK, vars, dispatchVars, scopeVars, releaseVars, barrierVars, threadVars

\* One step of the registry, whichever operation takes it, keeps every field
\* in its type.
LEMMA NextTypeOK == TypeOK /\ [Next]_vars => TypeOK'
  BY OwnerTypeOK, EnvironmentTypeOK, ThreadTypeOK, StutterTypeOK DEF Next

\* Every field of the registry keeps its type for ever.
THEOREM TypeCorrect == Spec => []TypeOK
  BY InitTypeOK, NextTypeOK, PTL DEF Spec

-----------------------------------------------------------------------------
(***************************************************************************)
(* The inductive invariant, in parts.                                      *)
(***************************************************************************)

\* The two maps of the registry agree with where each dispatch's owner is, and
\* identifiers are handed out in order.
PhaseInv ==
  /\ pending = {i \in Ids : phase[i] = "pending"}
  /\ scopes = {i \in Ids : phase[i] \in Installed}
  /\ \A i \in Ids : phase[i] = "none" <=> i > next

\* A resource exists only while its scope does, and is closed before the
\* release is counted.
ResourceInv ==
  \A i \in Ids :
    /\ phase[i] \in {"none", "pending", "gone"} => res[i] = "none" /\ spec[i] = NoGroup
    /\ phase[i] = "closing" => res[i] # "bound"
    /\ phase[i] \in Counted => res[i] \in {"none", "closed"}

\* Why a snapshot may be trusted: barriers advance in order, and no dispatch
\* begun before a published barrier is still unresolved.
BarrierInv ==
  /\ freeze.barrier <= publishedBarrier
  /\ publishedBarrier <= observedBarrier
  /\ pendingBarrierSequence <= next
  /\ \A b \in Revisions : barrierNext[b] <= pendingBarrierSequence
  /\ \A b \in Revisions : b <= publishedBarrier =>
       \A i \in Ids : i <= barrierNext[b] => phase[i] \notin {"none", "pending"}

\* A Drain past its compare-and-swap has stopped the registry; one that has
\* returned found it empty; only such a Drain closes it without a Close.
DrainInv ==
  /\ \A t \in Threads :
       /\ pc[t] \in {"drainSnapshot", "drainClose", "drainWait"} => state # "accepting"
       /\ pc[t] = "drained" => state = "closed" /\ pending = {} /\ scopes = {}
  /\ state = "closed" /\ ~closeStarted => pending = {} /\ scopes = {}

\* A Close still holds every open resource in its copy, and leaves none.
CloseInv ==
  /\ \A t \in Threads :
       /\ pc[t] \in {"closeCAS", "closeSnapshot", "closeScopes"} => closeStarted
       /\ pc[t] \in {"closeSnapshot", "closeScopes", "closeReturned"} => state = "closed"
       /\ pc[t] = "closeScopes" =>
            \A i \in Ids : OpenResource(i) => i \in todo[t] \/ i = cur[t]
       /\ pc[t] = "closeReturned" => \A i \in Ids : ~OpenResource(i)
  /\ closeDone => state = "closed" /\ \A i \in Ids : ~OpenResource(i)

CountedOf(g) == {i \in Ids : spec[i] = g /\ phase[i] \in Counted}

\* The cumulative sequence counts the accounted scopes released so far; every
\* number in a sink, in a replay or in a call under way was such a count; and
\* the latest one has reached the current sink or is on its way there.
ReleaseInv ==
  /\ \A g \in Groups : releaseSequences[g] = Cardinality(CountedOf(g))
  /\ \A g \in Groups : replay[g] <= releaseSequences[g]
  /\ \A s \in Sinks, g \in Groups : heard[s][g] <= releaseSequences[g]
  /\ \A i \in Ids : phase[i] = "released" /\ spec[i] \in Groups =>
       callSeq[i] <= releaseSequences[spec[i]]
  /\ releaseSink \in Sinks => \A g \in Groups :
       \/ heard[releaseSink][g] = releaseSequences[g]
       \/ replay[g] = releaseSequences[g]
       \/ \E i \in Ids : /\ phase[i] = "released"
                         /\ spec[i] = g
                         /\ callSink[i] = releaseSink
                         /\ callSeq[i] = releaseSequences[g]

-----------------------------------------------------------------------------
(***************************************************************************)
(* Frames: what each kind of step leaves alone.                            *)
(***************************************************************************)

\* WaitPending, Drain and Close touch no dispatch, sequence or barrier; to a
\* resource they do nothing but start its close.
LEMMA ThreadFrame ==
  ASSUME TypeOK, NEW t \in Threads, ThreadStep(t)
  PROVE  /\ UNCHANGED <<next, pending, scopes, phase, spec, releaseVars, barrierVars>>
         /\ \A j \in Ids : \/ res'[j] = res[j]
                           \/ res[j] = "bound" /\ res'[j] = "closing"
<1> USE DEF TypeOK, dispatchVars, scopeVars
<1>1. ASSUME NEW i \in Ids, DrainCloseScope(t, i) \/ CloseStartScope(t, i)
      PROVE  /\ UNCHANGED <<next, pending, scopes, phase, spec, releaseVars, barrierVars>>
             /\ \A j \in Ids : \/ res'[j] = res[j]
                               \/ res[j] = "bound" /\ res'[j] = "closing"
  BY <1>1 DEF DrainCloseScope, CloseStartScope, startBoundResourceClose
<1> QED
  BY <1>1 DEF ThreadStep, WaitPending, WaitPendingCheck, Drain, DrainSnapshot,
              DrainClosedAll, DrainCheck, ContextDone, Close, CloseCAS, CloseSnapshot,
              CloseWaitScope, CloseFinish, CloseJoin

\* Owners touch neither the registry state nor barriers nor supervisors.
LEMMA OwnerFrame ==
  ASSUME NEW i \in Ids, OwnerStep(i) \/ closeResource(i)
  PROVE  UNCHANGED <<state, next, barrierVars, threadVars>>
  BY DEF OwnerStep, closeResource, EndDispatch, Install, Bind, EndDeactivate,
         EndCloseResource, markReleasedLocked, EndReport, EndDelete, dispatchVars

\* Swapping and replaying sinks touches nothing else.
LEMMA SinkFrame ==
  ASSUME SinkStep
  PROVE  UNCHANGED <<dispatchVars, scopeVars, releaseSequences, callSink, callSeq,
                     barrierVars, threadVars>>
  BY DEF SinkStep, SetReleaseSink, ReplayRelease

\* Barriers and snapshots touch nothing else.
LEMMA BarrierFrame ==
  ASSUME BarrierStep
  PROVE  UNCHANGED <<dispatchVars, scopeVars, releaseVars, threadVars>>
  BY DEF BarrierStep, ObserveBarrier, FreezeInFlight

\* How one step of an owner moves one phase.
LEMMA OwnerPhase ==
  ASSUME TypeOK, NEW i \in Ids, OwnerStep(i) \/ closeResource(i)
  PROVE  /\ \A j \in Ids \ {i} : phase'[j] = phase[j] /\ spec'[j] = spec[j] /\ res'[j] = res[j]
         /\ \/ phase[i] = "pending" /\ phase'[i] = "gone"
            \/ phase[i] = "pending" /\ phase'[i] = "running" /\ state = "accepting"
            \/ phase'[i] = phase[i]
            \/ phase[i] = "running" /\ phase'[i] = "ending"
            \/ phase[i] = "ending" /\ phase'[i] = "closing"
            \/ phase[i] = "closing" /\ phase'[i] = "released"
            \/ phase[i] = "released" /\ phase'[i] = "deleting"
            \/ phase[i] = "deleting" /\ phase'[i] = "ended"
<1> USE DEF TypeOK, dispatchVars, scopeVars
<1>1. ASSUME NEW g \in Groups \union {NoGroup}, Install(i, g)
      PROVE  /\ \A j \in Ids \ {i} : phase'[j] = phase[j] /\ spec'[j] = spec[j] /\ res'[j] = res[j]
             /\ \/ phase[i] = "pending" /\ phase'[i] = "gone"
                \/ phase[i] = "pending" /\ phase'[i] = "running" /\ state = "accepting"
  BY <1>1 DEF Install
<1> QED
  BY <1>1 DEF OwnerStep, closeResource, EndDispatch, Bind, EndDeactivate,
              EndCloseResource, startBoundResourceClose, markReleasedLocked, EndReport,
              EndDelete

-----------------------------------------------------------------------------
(***************************************************************************)
(* Maps and phases.                                                        *)
(***************************************************************************)

\* The maps agree with the phases in the initial state.
LEMMA PhaseInit == Init => PhaseInv
  BY BoundsAssumption DEF Init, PhaseInv, Installed, Ids

\* Every step keeps the maps in agreement with the phases.
LEMMA PhaseStep == TypeOK /\ PhaseInv /\ [Next]_vars => PhaseInv'
<1> SUFFICES ASSUME TypeOK, PhaseInv, [Next]_vars PROVE PhaseInv' OBVIOUS
<1>1. CASE BeginDispatch
  <2>1. next + 1 \in Ids /\ next \in Nat BY <1>1, BoundsAssumption DEF BeginDispatch, Ids, TypeOK
  <2>2. phase' = [phase EXCEPT ![next + 1] = "pending"] /\ scopes' = scopes
        /\ pending' = pending \union {next + 1} /\ next' = next + 1
    BY <1>1 DEF BeginDispatch
  <2>3. phase[next + 1] = "none" BY <2>1 DEF PhaseInv, Ids
  <2>4. \A i \in Ids : phase'[i] = "none" <=> i > next'
    BY <2>1, <2>2 DEF PhaseInv, TypeOK, Ids
  <2> QED BY <2>1, <2>2, <2>3, <2>4 DEF PhaseInv, TypeOK, Installed
<1>2. ASSUME NEW i \in Ids, OwnerStep(i) \/ closeResource(i) PROVE PhaseInv'
  <2>1. next' = next BY <1>2, OwnerFrame
  <2>2. \A j \in Ids : phase'[j] = "none" <=> j > next'
    BY <1>2, <2>1, OwnerPhase DEF PhaseInv
  <2> DEFINE Agree == /\ pending' = {j \in Ids : phase'[j] = "pending"}
                      /\ scopes' = {j \in Ids : phase'[j] \in Installed}
  <2>3. Agree
    <3> USE DEF PhaseInv, TypeOK, Installed, dispatchVars
    <3>1. CASE EndDispatch(i) BY <3>1 DEF EndDispatch
    <3>2. ASSUME NEW g \in Groups \union {NoGroup}, Install(i, g) PROVE Agree
      BY <3>2 DEF Install
    <3>3. CASE EndDelete(i) BY <3>3 DEF EndDelete
    <3>4. CASE Bind(i) \/ closeResource(i) BY <3>4 DEF Bind, closeResource
    <3>5. CASE EndDeactivate(i) BY <3>5 DEF EndDeactivate
    <3>6. CASE EndCloseResource(i) BY <3>6 DEF EndCloseResource
    <3>7. CASE markReleasedLocked(i) BY <3>7 DEF markReleasedLocked
    <3>8. CASE EndReport(i) BY <3>8 DEF EndReport
    <3> QED BY <1>2, <3>1, <3>2, <3>3, <3>4, <3>5, <3>6, <3>7, <3>8 DEF OwnerStep
  <2> QED BY <2>2, <2>3 DEF PhaseInv
<1>3. CASE SinkStep BY <1>3, SinkFrame DEF PhaseInv, dispatchVars
<1>4. CASE BarrierStep BY <1>4, BarrierFrame DEF PhaseInv, dispatchVars
<1>5. ASSUME NEW t \in Threads, ThreadStep(t) PROVE PhaseInv'
  BY <1>5, ThreadFrame DEF PhaseInv
<1>6. CASE UNCHANGED vars BY <1>6 DEF PhaseInv, vars, dispatchVars
<1> QED BY <1>1, <1>2, <1>3, <1>4, <1>5, <1>6 DEF Next

-----------------------------------------------------------------------------
(***************************************************************************)
(* Resources.                                                              *)
(***************************************************************************)

\* No resource exists initially.
LEMMA ResourceInit == Init => ResourceInv
  BY DEF Init, ResourceInv, Counted

\* Bind and startBoundResourceClose never open the resource of a scope that
\* is being released, and markReleasedLocked waits for the close.
LEMMA ResourceStep == TypeOK /\ PhaseInv /\ ResourceInv /\ [Next]_vars => ResourceInv'
<1> SUFFICES ASSUME TypeOK, PhaseInv, ResourceInv, [Next]_vars PROVE ResourceInv' OBVIOUS
<1> USE DEF TypeOK, ResourceInv, Counted
<1>1. CASE BeginDispatch
  <2>1. next + 1 \in Ids /\ phase[next + 1] = "none"
    BY <1>1, BoundsAssumption DEF BeginDispatch, Ids, PhaseInv
  <2> QED BY <1>1, <2>1 DEF BeginDispatch, scopeVars
<1>2. ASSUME NEW i \in Ids, OwnerStep(i) \/ closeResource(i) PROVE ResourceInv'
  <2> USE DEF dispatchVars, scopeVars
  <2>1. CASE EndDispatch(i) BY <2>1 DEF EndDispatch
  <2>2. ASSUME NEW g \in Groups \union {NoGroup}, Install(i, g) PROVE ResourceInv'
    BY <2>2 DEF Install
  <2>3. CASE EndDelete(i) BY <2>3 DEF EndDelete
  <2>4. CASE Bind(i) BY <2>4 DEF Bind
  <2>5. CASE EndDeactivate(i) BY <2>5 DEF EndDeactivate
  <2>6. CASE EndCloseResource(i) BY <2>6 DEF EndCloseResource, startBoundResourceClose
  <2>7. CASE markReleasedLocked(i) BY <2>7 DEF markReleasedLocked, BoundResourceClosed
  <2>8. CASE EndReport(i) BY <2>8 DEF EndReport
  <2>9. CASE closeResource(i) BY <2>9 DEF closeResource
  <2> QED BY <1>2, <2>1, <2>2, <2>3, <2>4, <2>5, <2>6, <2>7, <2>8, <2>9 DEF OwnerStep
<1>3. CASE SinkStep BY <1>3, SinkFrame DEF dispatchVars, scopeVars
<1>4. CASE BarrierStep BY <1>4, BarrierFrame DEF dispatchVars, scopeVars
<1>5. ASSUME NEW t \in Threads, ThreadStep(t) PROVE ResourceInv'
  BY <1>5, ThreadFrame
<1>6. CASE UNCHANGED vars BY <1>6 DEF vars, dispatchVars, scopeVars
<1> QED BY <1>1, <1>2, <1>3, <1>4, <1>5, <1>6 DEF Next

\* An open resource belongs to a scope that is still in the registry.
LEMMA OpenIsInstalled ==
  ASSUME TypeOK, PhaseInv, ResourceInv, NEW i \in Ids, OpenResource(i)
  PROVE  i \in scopes
  BY DEF TypeOK, PhaseInv, ResourceInv, OpenResource, Phases, Installed, Counted

-----------------------------------------------------------------------------
(***************************************************************************)
(* Barriers and snapshots.                                                 *)
(***************************************************************************)

\* No barrier is published initially.
LEMMA BarrierInit == Init => BarrierInv /\ FreezeComplete
<1> SUFFICES ASSUME Init PROVE BarrierInv /\ FreezeComplete OBVIOUS
<1>1. \A b \in Revisions : barrierNext[b] = 0 BY DEF Init
<1>2. \A i \in Ids : ~(i <= 0) BY BoundsAssumption DEF Ids
<1>3. freeze.barrier = 0 /\ publishedBarrier = 0 /\ observedBarrier = 0
      /\ pendingBarrierSequence = 0 /\ next = 0
  BY DEF Init
<1> QED BY <1>1, <1>2, <1>3 DEF BarrierInv, FreezeComplete

\* FreezeInFlight publishes a barrier only when every dispatch begun before it
\* is resolved, and a resolved dispatch never becomes unresolved again.
LEMMA BarrierStepInv ==
  TypeOK /\ PhaseInv /\ BarrierInv /\ FreezeComplete /\ [Next]_vars
    => BarrierInv' /\ FreezeComplete'
<1> SUFFICES ASSUME TypeOK, PhaseInv, BarrierInv, FreezeComplete, [Next]_vars
             PROVE  BarrierInv' /\ FreezeComplete'
  OBVIOUS
<1>n. /\ next \in Nat /\ pendingBarrierSequence \in Nat
      /\ observedBarrier \in Nat /\ publishedBarrier \in Nat /\ freeze.barrier \in Nat
      /\ \A b \in Revisions : b \in Nat /\ barrierNext[b] \in Nat
      /\ \A i \in Ids : i \in Nat
  BY BoundsAssumption DEF TypeOK, Revisions, Ids
<1>1. ASSUME UNCHANGED barrierVars, next' \in Nat, next <= next',
             \A i \in Ids : phase[i] \notin {"none", "pending"}
                              => phase'[i] \notin {"none", "pending"},
             \A i \in Ids : phase[i] \in {"gone", "ended"} => phase'[i] = phase[i]
      PROVE  BarrierInv' /\ FreezeComplete'
  <2>1. BarrierInv' BY <1>n, <1>1 DEF BarrierInv, barrierVars
  <2>2. FreezeComplete' BY <1>1 DEF FreezeComplete, barrierVars
  <2> QED BY <2>1, <2>2
<1>2. CASE BeginDispatch
  <2>1. next + 1 \in Ids /\ phase[next + 1] = "none"
    BY <1>2, BoundsAssumption DEF BeginDispatch, Ids, PhaseInv, TypeOK
  <2>2. \A i \in Ids : i # next + 1 => phase'[i] = phase[i]
    BY <1>2 DEF BeginDispatch, TypeOK
  <2>3. UNCHANGED barrierVars /\ next' = next + 1 BY <1>2 DEF BeginDispatch
  <2> QED BY <1>n, <1>1, <2>1, <2>2, <2>3
<1>3. ASSUME NEW i \in Ids, OwnerStep(i) \/ closeResource(i)
      PROVE  BarrierInv' /\ FreezeComplete'
  <2>1. UNCHANGED barrierVars /\ next' = next BY <1>3, OwnerFrame
  <2>2. \A j \in Ids : /\ phase[j] \notin {"none", "pending"}
                            => phase'[j] \notin {"none", "pending"}
                       /\ phase[j] \in {"gone", "ended"} => phase'[j] = phase[j]
    BY <1>3, OwnerPhase
  <2> QED BY <1>n, <1>1, <2>1, <2>2
<1>4. CASE SinkStep
  <2>1. UNCHANGED <<barrierVars, next, phase>> BY <1>4, SinkFrame DEF dispatchVars
  <2> QED BY <1>n, <1>1, <2>1
<1>5. ASSUME NEW b \in Revisions, ObserveBarrier(b) PROVE BarrierInv' /\ FreezeComplete'
  <2>1. /\ observedBarrier' = b /\ pendingBarrierSequence' = next /\ next' = next
        /\ b > observedBarrier /\ phase' = phase
        /\ barrierNext' = [barrierNext EXCEPT ![b] = next]
        /\ publishedBarrier' = publishedBarrier /\ freeze' = freeze
    BY <1>5 DEF ObserveBarrier, dispatchVars
  <2>2. \A c \in Revisions : c # b => barrierNext'[c] = barrierNext[c]
    BY <2>1 DEF TypeOK
  <2>3. barrierNext'[b] = next BY <2>1 DEF TypeOK
  <2>4. BarrierInv'
    <3>1. \A c \in Revisions : barrierNext'[c] <= pendingBarrierSequence'
      BY <1>n, <2>1, <2>2, <2>3 DEF BarrierInv
    <3>2. \A c \in Revisions : c <= publishedBarrier' => c # b
      BY <1>n, <2>1 DEF BarrierInv
    <3>3. \A c \in Revisions : c <= publishedBarrier' =>
            \A i \in Ids : i <= barrierNext'[c] => phase'[i] \notin {"none", "pending"}
      BY <2>1, <2>2, <3>2 DEF BarrierInv
    <3> QED BY <1>n, <2>1, <3>1, <3>3 DEF BarrierInv
  <2>5. FreezeComplete'
    <3>1. \A c \in Revisions : c <= freeze.barrier => c # b
      BY <1>n, <2>1 DEF BarrierInv
    <3> QED BY <2>1, <2>2, <3>1 DEF FreezeComplete
  <2> QED BY <2>4, <2>5
<1>6. CASE FreezeInFlight
  <2>1. /\ publishedBarrier' = (IF observedBarrier > publishedBarrier /\ ~BarrierBlocked
                                THEN observedBarrier ELSE publishedBarrier)
        /\ freeze' = [barrier |-> publishedBarrier', executions |-> scopes]
        /\ UNCHANGED <<next, phase, observedBarrier, pendingBarrierSequence, barrierNext>>
    BY <1>6 DEF FreezeInFlight, dispatchVars
  <2>2. \A b \in Revisions : b <= publishedBarrier' =>
          \A i \in Ids : i <= barrierNext[b] => phase[i] \notin {"none", "pending"}
    <3>1. CASE observedBarrier > publishedBarrier /\ ~BarrierBlocked
      <4>1. SUFFICES ASSUME NEW b \in Revisions, NEW i \in Ids, i <= barrierNext[b]
                     PROVE  phase[i] \notin {"none", "pending"}
        OBVIOUS
      <4>2. i <= pendingBarrierSequence /\ i <= next
        BY <1>n, <4>1 DEF BarrierInv
      <4>3. i \notin pending BY <3>1, <4>2 DEF BarrierBlocked
      <4>4. ~(i > next) BY <1>n, <4>2
      <4> QED BY <4>3, <4>4 DEF PhaseInv
    <3>2. CASE ~(observedBarrier > publishedBarrier /\ ~BarrierBlocked)
      BY <2>1, <3>2 DEF BarrierInv
    <3> QED BY <3>1, <3>2
  <2>3. publishedBarrier' \in Nat /\ publishedBarrier' <= observedBarrier
    BY <1>n, <2>1 DEF BarrierInv
  <2>4. BarrierInv' BY <1>n, <2>1, <2>2, <2>3 DEF BarrierInv
  <2>5. FreezeComplete'
    <3>1. \A i \in Ids : phase[i] \notin {"none", "pending"}
            => i \in scopes \/ phase[i] \in {"gone", "ended"}
      BY DEF PhaseInv, TypeOK, Phases, Installed
    <3>2. freeze'.barrier = publishedBarrier' /\ freeze'.executions = scopes
      BY <2>1
    <3> QED BY <2>1, <2>2, <3>1, <3>2 DEF FreezeComplete
  <2> QED BY <2>4, <2>5
<1>7. ASSUME NEW t \in Threads, ThreadStep(t) PROVE BarrierInv' /\ FreezeComplete'
  <2>1. UNCHANGED <<barrierVars, next, phase>> BY <1>7, ThreadFrame
  <2> QED BY <1>n, <1>1, <2>1
<1>8. CASE UNCHANGED vars
  <2>1. UNCHANGED <<barrierVars, next, phase>> BY <1>8 DEF vars, dispatchVars
  <2> QED BY <1>n, <1>1, <2>1
<1> QED BY <1>2, <1>3, <1>4, <1>5, <1>6, <1>7, <1>8 DEF Next, BarrierStep

-----------------------------------------------------------------------------
(***************************************************************************)
(* Drain.                                                                  *)
(***************************************************************************)

\* No Drain has started initially.
LEMMA DrainInit == Init => DrainInv
  BY DEF Init, DrainInv

\* After the compare-and-swap nothing is dispatched or installed, so an empty
\* registry stays empty.
LEMMA DrainStep ==
  TypeOK /\ PhaseInv /\ CloseInv /\ DrainInv /\ [Next]_vars => DrainInv'
<1> SUFFICES ASSUME TypeOK, PhaseInv, CloseInv, DrainInv, [Next]_vars PROVE DrainInv'
  OBVIOUS
<1> USE DEF DrainInv
<1>1. CASE BeginDispatch BY <1>1 DEF BeginDispatch, threadVars
<1>2. ASSUME NEW i \in Ids, OwnerStep(i) \/ closeResource(i) PROVE DrainInv'
  <2>1. UNCHANGED <<state, threadVars>> BY <1>2, OwnerFrame
  <2>2. pending = {} /\ scopes = {} => pending' = {} /\ scopes' = {}
    <3>1. SUFFICES ASSUME pending = {}, scopes = {} PROVE pending' = {} /\ scopes' = {}
      OBVIOUS
    <3>2. phase[i] \notin Installed /\ phase[i] # "pending" BY <3>1 DEF PhaseInv
    <3> QED
      BY <1>2, <3>1, <3>2 DEF OwnerStep, closeResource, EndDispatch, Install, Bind,
         EndDeactivate, EndCloseResource, markReleasedLocked, EndReport, EndDelete,
         Installed, dispatchVars
  <2> QED BY <2>1, <2>2 DEF threadVars
<1>3. CASE SinkStep BY <1>3, SinkFrame DEF dispatchVars, threadVars
<1>4. CASE BarrierStep BY <1>4, BarrierFrame DEF dispatchVars, threadVars
<1>5. ASSUME NEW t \in Threads, ThreadStep(t) PROVE DrainInv'
  <2>1. UNCHANGED <<pending, scopes>> BY <1>5, ThreadFrame
  <2> USE <2>1 DEF TypeOK, Goto, dispatchVars
  <2>2. CASE Drain(t) BY <2>2 DEF Drain
  <2>3. CASE DrainCheck(t) BY <2>3 DEF DrainCheck
  <2>4. CASE CloseCAS(t) BY <2>4 DEF CloseCAS, CloseInv
  <2>5. CASE Close(t) BY <2>5 DEF Close
  <2>6. CASE WaitPending(t) \/ WaitPendingCheck(t) BY <2>6 DEF WaitPending, WaitPendingCheck
  <2>7. CASE DrainSnapshot(t) \/ DrainClosedAll(t) BY <2>7 DEF DrainSnapshot, DrainClosedAll
  <2>8. ASSUME NEW i \in Ids, DrainCloseScope(t, i) \/ CloseStartScope(t, i) PROVE DrainInv'
    BY <2>8 DEF DrainCloseScope, CloseStartScope
  <2>9. CASE ContextDone(t) BY <2>9 DEF ContextDone
  <2>10. CASE CloseSnapshot(t) \/ CloseWaitScope(t) BY <2>10 DEF CloseSnapshot, CloseWaitScope
  <2>11. CASE CloseFinish(t) \/ CloseJoin(t) BY <2>11 DEF CloseFinish, CloseJoin
  <2> QED BY <1>5, <2>2, <2>3, <2>4, <2>5, <2>6, <2>7, <2>8, <2>9, <2>10, <2>11
         DEF ThreadStep
<1>6. CASE UNCHANGED vars BY <1>6 DEF vars, dispatchVars, threadVars
<1> QED BY <1>1, <1>2, <1>3, <1>4, <1>5, <1>6 DEF Next

-----------------------------------------------------------------------------
(***************************************************************************)
(* Close.                                                                  *)
(***************************************************************************)

\* No Close has started initially.
LEMMA CloseInit == Init => CloseInv
  BY DEF Init, CloseInv

\* Close copies the scopes after it has closed the registry, when no resource
\* can be bound any more, and visits each of them.
LEMMA CloseStep ==
  TypeOK /\ PhaseInv /\ ResourceInv /\ DrainInv /\ CloseInv /\ [Next]_vars => CloseInv'
<1> SUFFICES ASSUME TypeOK, PhaseInv, ResourceInv, DrainInv, CloseInv, [Next]_vars
             PROVE  CloseInv'
  OBVIOUS
<1>o. \A i \in Ids : OpenResource(i) => i \in scopes BY OpenIsInstalled
<1> USE DEF CloseInv, OpenResource
<1>1. CASE BeginDispatch BY <1>1 DEF BeginDispatch, threadVars, scopeVars
<1>2. ASSUME NEW i \in Ids, OwnerStep(i) \/ closeResource(i) PROVE CloseInv'
  <2>1. UNCHANGED <<state, threadVars>> BY <1>2, OwnerFrame
  <2>2. state = "closed" =>
          \A j \in Ids : res'[j] \in {"bound", "closing"} => res[j] \in {"bound", "closing"}
    BY <1>2 DEF OwnerStep, closeResource, EndDispatch, Install, Bind, EndDeactivate,
         EndCloseResource, startBoundResourceClose, markReleasedLocked, EndReport,
         EndDelete, TypeOK, scopeVars
  <2> QED BY <2>1, <2>2 DEF threadVars
<1>3. CASE SinkStep BY <1>3, SinkFrame DEF dispatchVars, scopeVars, threadVars
<1>4. CASE BarrierStep BY <1>4, BarrierFrame DEF dispatchVars, scopeVars, threadVars
<1>5. ASSUME NEW t \in Threads, ThreadStep(t) PROVE CloseInv'
  <2>1. \A j \in Ids : res'[j] \in {"bound", "closing"} => res[j] \in {"bound", "closing"}
    BY <1>5, ThreadFrame
  <2> USE <2>1 DEF TypeOK, Goto, dispatchVars, scopeVars
  <2>2. CASE Drain(t) BY <2>2 DEF Drain
  <2>3. CASE DrainCheck(t) BY <2>3 DEF DrainCheck
  <2>4. CASE CloseCAS(t) BY <2>4 DEF CloseCAS
  <2>5. CASE Close(t)
    <3>1. CASE closeStarted BY <2>5, <3>1 DEF Close
    <3>2. CASE ~closeStarted /\ state = "closed"
      <4>1. \A i \in Ids : ~OpenResource(i) BY <1>o, <3>2 DEF DrainInv
      <4> QED BY <2>5, <3>2, <4>1 DEF Close
    <3>3. CASE ~closeStarted /\ state # "closed" BY <2>5, <3>3 DEF Close
    <3> QED BY <3>1, <3>2, <3>3
  <2>6. CASE WaitPending(t) \/ WaitPendingCheck(t) BY <2>6 DEF WaitPending, WaitPendingCheck
  <2>7. CASE DrainSnapshot(t) BY <2>7 DEF DrainSnapshot
  <2>8. CASE DrainClosedAll(t) BY <2>8 DEF DrainClosedAll
  <2>9. ASSUME NEW i \in Ids, DrainCloseScope(t, i) PROVE CloseInv'
    BY <2>9 DEF DrainCloseScope
  <2>10. ASSUME NEW i \in Ids, CloseStartScope(t, i) PROVE CloseInv'
    <3>1. /\ pc' = pc /\ state' = state /\ closeStarted' = closeStarted
          /\ closeDone' = closeDone /\ cur[t] = 0
          /\ cur' = [cur EXCEPT ![t] = i] /\ todo' = [todo EXCEPT ![t] = @ \ {i}]
      BY <2>10 DEF CloseStartScope
    <3>2. \A u \in Threads, j \in Ids :
            j \in todo[u] \/ j = cur[u] => j \in todo'[u] \/ j = cur'[u]
      BY <3>1, BoundsAssumption DEF Ids
    <3> QED BY <3>1, <3>2
  <2>11. CASE ContextDone(t) BY <2>11 DEF ContextDone
  <2>12. CASE CloseSnapshot(t)
    <3>1. /\ pc' = [pc EXCEPT ![t] = "closeScopes"] /\ pc[t] = "closeSnapshot"
          /\ todo' = [todo EXCEPT ![t] = scopes]
          /\ UNCHANGED <<state, res, cur, closeStarted, closeDone>>
      BY <2>12 DEF CloseSnapshot
    <3>2. \A i \in Ids : OpenResource(i) => i \in todo'[t] BY <1>o, <3>1
    <3>3. \A u \in Threads \ {t} : pc'[u] = pc[u] /\ todo'[u] = todo[u] BY <3>1
    <3> QED BY <3>1, <3>2, <3>3
  <2>13. CASE CloseWaitScope(t)
    <3>1. res[cur[t]] \notin {"bound", "closing"} /\ cur' = [cur EXCEPT ![t] = 0]
          /\ UNCHANGED <<pc, todo, closeStarted, closeDone, state>>
      BY <2>13 DEF CloseWaitScope, BoundResourceClosed
    <3> QED BY <3>1
  <2>14. CASE CloseFinish(t)
    <3>0. pc[t] = "closeScopes" /\ cur[t] = 0 /\ todo[t] = {} BY <2>14 DEF CloseFinish
    <3>1. \A i \in Ids : ~OpenResource(i)
      <4>1. \A i \in Ids : i # 0 BY BoundsAssumption DEF Ids
      <4> QED BY <3>0, <4>1
    <3>2. state = "closed" BY <3>0
    <3> QED BY <2>14, <3>1, <3>2 DEF CloseFinish
  <2>15. CASE CloseJoin(t) BY <2>15 DEF CloseJoin
  <2> QED BY <1>5, <2>2, <2>3, <2>4, <2>5, <2>6, <2>7, <2>8, <2>9, <2>10, <2>11, <2>12,
             <2>13, <2>14, <2>15 DEF ThreadStep
<1>6. CASE UNCHANGED vars BY <1>6 DEF vars, dispatchVars, scopeVars, threadVars
<1> QED BY <1>1, <1>2, <1>3, <1>4, <1>5, <1>6 DEF Next

-----------------------------------------------------------------------------
(***************************************************************************)
(* Releases.                                                               *)
(***************************************************************************)

\* Identifiers are finitely many, hence so are the counted scopes of a group.
LEMMA CountedFinite ==
  \A g : IsFiniteSet(CountedOf(g)) /\ Cardinality(CountedOf(g)) \in Nat
<1>1. IsFiniteSet(Ids) BY BoundsAssumption, FS_Interval DEF Ids
<1> QED BY <1>1, FS_Subset, FS_CardinalityType DEF CountedOf

\* Nothing is released initially.
LEMMA ReleaseInit == Init => ReleaseInv
<1> SUFFICES ASSUME Init PROVE ReleaseInv OBVIOUS
<1>1. \A g : CountedOf(g) = {} BY DEF Init, CountedOf, Counted
<1>2. \A g : Cardinality(CountedOf(g)) = 0 BY <1>1, FS_EmptySet
<1> QED BY <1>2 DEF Init, ReleaseInv

\* A step that keeps every counted scope and every sequence where they are.
LEMMA ReleaseUnchanged ==
  ASSUME ReleaseInv, UNCHANGED releaseVars,
         \A i \in Ids : /\ spec'[i] = spec[i] \/ (phase[i] = "pending" /\ phase'[i] = "running")
                        /\ phase'[i] \in Counted <=> phase[i] \in Counted
                        /\ phase'[i] = "released" <=> phase[i] = "released"
  PROVE  ReleaseInv'
<1>0. \A i \in Ids : phase'[i] \in Counted => spec'[i] = spec[i]
  BY DEF Counted
<1>1. \A g : CountedOf(g)' = CountedOf(g) BY <1>0 DEF CountedOf, Counted
<1>2. \A i \in Ids : phase'[i] = "released" => spec'[i] = spec[i] BY <1>0 DEF Counted
<1> QED BY <1>1, <1>2 DEF ReleaseInv, releaseVars

\* markReleasedLocked counts the scope once and captures the new count;
\* delivery may happen in any order, since sinks keep the maximum.
LEMMA ReleaseStep ==
  TypeOK /\ PhaseInv /\ ResourceInv /\ ReleaseInv /\ [Next]_vars => ReleaseInv'
<1> SUFFICES ASSUME TypeOK, PhaseInv, ResourceInv, ReleaseInv, [Next]_vars
             PROVE  ReleaseInv'
  OBVIOUS
<1>1. CASE BeginDispatch
  <2>1. next + 1 \in Ids /\ phase[next + 1] = "none"
    BY <1>1, BoundsAssumption DEF BeginDispatch, Ids, PhaseInv, TypeOK
  <2> QED BY <1>1, <2>1, ReleaseUnchanged DEF BeginDispatch, TypeOK, Counted, scopeVars
<1>2. ASSUME NEW i \in Ids, OwnerStep(i) \/ closeResource(i) PROVE ReleaseInv'
  <2> USE DEF TypeOK, Counted, dispatchVars, scopeVars
  <2>1. CASE EndDispatch(i) BY <2>1, ReleaseUnchanged DEF EndDispatch
  <2>2. ASSUME NEW g \in Groups \union {NoGroup}, Install(i, g) PROVE ReleaseInv'
    BY <2>2, ReleaseUnchanged DEF Install
  <2>3. CASE EndDelete(i) BY <2>3, ReleaseUnchanged DEF EndDelete
  <2>4. CASE Bind(i) BY <2>4, ReleaseUnchanged DEF Bind
  <2>5. CASE EndDeactivate(i) BY <2>5, ReleaseUnchanged DEF EndDeactivate
  <2>6. CASE EndCloseResource(i) BY <2>6, ReleaseUnchanged DEF EndCloseResource
  <2>7. CASE closeResource(i) BY <2>7, ReleaseUnchanged DEF closeResource
  <2>8. CASE markReleasedLocked(i)
    <3>1. /\ phase[i] = "closing" /\ phase' = [phase EXCEPT ![i] = "released"]
          /\ UNCHANGED <<spec, replay, heard, releaseSink>>
      BY <2>8 DEF markReleasedLocked
    <3>2. \A j \in Ids : phase[j] = "released" => phase'[j] = "released" /\ j # i
      BY <3>1
    <3>3. CASE spec[i] \notin Groups
      <4>1. UNCHANGED <<releaseSequences, callSink, callSeq>>
        BY <2>8, <3>3 DEF markReleasedLocked
      <4>2. \A g \in Groups : CountedOf(g)' = CountedOf(g)
        BY <3>1, <3>3 DEF CountedOf
      <4> QED BY <3>1, <3>2, <3>3, <4>1, <4>2 DEF ReleaseInv
    <3>4. CASE spec[i] \in Groups
      <4>0. PICK h \in Groups : h = spec[i] BY <3>4
      <4> DEFINE n == releaseSequences[h] + 1
      <4>1. /\ releaseSequences' = [releaseSequences EXCEPT ![h] = n]
            /\ callSink' = [callSink EXCEPT ![i] = releaseSink]
            /\ callSeq' = [callSeq EXCEPT ![i] = n]
        BY <2>8, <4>0 DEF markReleasedLocked
      <4>2. \A g \in Groups : g # h => CountedOf(g)' = CountedOf(g)
        BY <3>1, <4>0 DEF CountedOf
      <4>3. CountedOf(h)' = CountedOf(h) \union {i} /\ i \notin CountedOf(h)
        BY <3>1, <4>0 DEF CountedOf
      <4>4. Cardinality(CountedOf(h)') = Cardinality(CountedOf(h)) + 1
        <5>1. Cardinality(CountedOf(h) \union {i}) = Cardinality(CountedOf(h)) + 1
          BY <4>3, CountedFinite, FS_AddElement, Zenon
        <5> QED BY <4>3, <5>1, Zenon
      <4>5. \A g \in Groups : releaseSequences'[g] = Cardinality(CountedOf(g)')
        <5>1. \A g \in Groups : releaseSequences[g] = Cardinality(CountedOf(g))
          BY DEF ReleaseInv
        <5>2. releaseSequences'[h] = Cardinality(CountedOf(h)') BY <4>1, <4>4, <5>1
        <5>3. ASSUME NEW g \in Groups, g # h
              PROVE  releaseSequences'[g] = Cardinality(CountedOf(g)')
          BY <4>1, <4>2, <5>1, <5>3
        <5> QED BY <5>2, <5>3
      <4>6. \A g \in Groups : /\ releaseSequences[g] <= releaseSequences'[g]
                              /\ releaseSequences'[g] \in Nat
                              /\ g # h => releaseSequences'[g] = releaseSequences[g]
        BY <4>1
      <4>7. releaseSequences'[h] = n /\ callSeq'[i] = n /\ callSink'[i] = releaseSink
        BY <4>1
      <4>8. \A g \in Groups : replay'[g] <= releaseSequences'[g]
        <5>1. \A g \in Groups : /\ replay[g] <= releaseSequences[g]
                                /\ replay[g] \in Nat /\ releaseSequences[g] \in Nat
          BY DEF ReleaseInv
        <5> QED BY <3>1, <4>6, <5>1
      <4>9. \A s \in Sinks, g \in Groups : heard'[s][g] <= releaseSequences'[g]
        <5>1. \A s \in Sinks, g \in Groups : /\ heard[s][g] <= releaseSequences[g]
                                              /\ heard[s][g] \in Nat
                                              /\ releaseSequences[g] \in Nat
          BY DEF ReleaseInv
        <5> QED BY <3>1, <4>6, <5>1
      <4>10. \A j \in Ids : j # i => callSeq'[j] = callSeq[j] /\ callSink'[j] = callSink[j]
                                     /\ phase'[j] = phase[j]
        BY <3>1, <4>1
      <4>11. \A j \in Ids : phase'[j] = "released" /\ spec'[j] \in Groups =>
               callSeq'[j] <= releaseSequences'[spec'[j]]
        <5>1. SUFFICES ASSUME NEW j \in Ids, phase'[j] = "released", spec'[j] \in Groups
                       PROVE  callSeq'[j] <= releaseSequences'[spec'[j]]
          OBVIOUS
        <5>2. CASE j = i BY <3>1, <4>0, <4>6, <4>7, <5>2
        <5>3. CASE j # i
          <6>1. callSeq[j] <= releaseSequences[spec[j]] /\ callSeq'[j] = callSeq[j]
                /\ spec'[j] = spec[j]
            BY <3>1, <4>10, <5>1, <5>3 DEF ReleaseInv
          <6>2. releaseSequences[spec[j]] <= releaseSequences'[spec[j]]
                /\ releaseSequences[spec[j]] \in Nat /\ releaseSequences'[spec[j]] \in Nat
            BY <4>6, <5>1, <6>1
          <6> QED BY <6>1, <6>2
        <5> QED BY <5>2, <5>3
      <4>12. ASSUME releaseSink \in Sinks, NEW g \in Groups
             PROVE  \/ heard[releaseSink][g] = releaseSequences'[g]
                    \/ replay[g] = releaseSequences'[g]
                    \/ \E j \in Ids : /\ phase'[j] = "released" /\ spec'[j] = g
                                      /\ callSink'[j] = releaseSink
                                      /\ callSeq'[j] = releaseSequences'[g]
        <5>1. CASE g = h
          <6>1. /\ phase'[i] = "released" /\ spec'[i] = g
                /\ callSink'[i] = releaseSink /\ callSeq'[i] = releaseSequences'[g]
            BY <3>1, <4>0, <4>7, <5>1
          <6> QED BY <6>1
        <5>2. CASE g # h
          <6>1. releaseSequences'[g] = releaseSequences[g] BY <4>6, <5>2
          <6> QED BY <3>1, <3>2, <4>10, <4>12, <6>1, SMTT(60) DEF ReleaseInv
        <5> QED BY <5>1, <5>2
      <4> QED BY <3>1, <4>5, <4>8, <4>9, <4>11, <4>12 DEF ReleaseInv
    <3> QED BY <3>3, <3>4
  <2>9. CASE EndReport(i)
    <3>1. /\ phase[i] = "released" /\ phase' = [phase EXCEPT ![i] = "deleting"]
          /\ UNCHANGED <<spec, releaseSequences, releaseSink, callSink, callSeq, replay>>
          /\ Hear(callSink[i], spec[i], callSeq[i])
      BY <2>9 DEF EndReport
    <3>2. \A g \in Groups : CountedOf(g)' = CountedOf(g) BY <3>1 DEF CountedOf
    <3>3. \A j \in Ids : j # i => phase'[j] = phase[j] BY <3>1
    <3>4. phase'[i] = "deleting" BY <3>1
    <3>5. CASE heard' = heard /\ ~(callSink[i] \in Sinks /\ spec[i] \in Groups
                                    /\ callSeq[i] > heard[callSink[i]][spec[i]])
      <4>1. ASSUME releaseSink \in Sinks, NEW g \in Groups,
                   spec[i] = g, callSink[i] = releaseSink, callSeq[i] = releaseSequences[g]
            PROVE  heard[releaseSink][g] = releaseSequences[g]
        <5>1. ~(callSeq[i] > heard[releaseSink][g]) BY <3>5, <4>1
        <5>2. heard[releaseSink][g] <= releaseSequences[g] BY <4>1 DEF ReleaseInv
        <5>3. heard[releaseSink][g] \in Nat /\ releaseSequences[g] \in Nat BY <4>1
        <5> HIDE DEF TypeOK
        <5> QED BY <4>1, <5>1, <5>2, <5>3
      <4> QED BY <3>1, <3>2, <3>3, <3>4, <3>5, <4>1 DEF ReleaseInv
    <3>6. CASE /\ callSink[i] \in Sinks /\ spec[i] \in Groups
               /\ callSeq[i] > heard[callSink[i]][spec[i]]
               /\ heard' = [heard EXCEPT ![callSink[i]][spec[i]] = callSeq[i]]
      <4>1. \A s \in Sinks, g \in Groups :
              heard'[s][g] = IF s = callSink[i] /\ g = spec[i] THEN callSeq[i] ELSE heard[s][g]
        BY <3>6
      <4>2. \A s \in Sinks, g \in Groups : heard'[s][g] <= releaseSequences[g]
        <5>1. callSeq[i] <= releaseSequences[spec[i]] BY <3>1, <3>6 DEF ReleaseInv
        <5>2. \A s \in Sinks, g \in Groups : heard[s][g] <= releaseSequences[g]
          BY DEF ReleaseInv
        <5> QED BY <4>1, <5>1, <5>2
      <4>3. ASSUME releaseSink \in Sinks, NEW g \in Groups,
                   spec[i] = g, callSink[i] = releaseSink, callSeq[i] = releaseSequences[g]
            PROVE  heard'[releaseSink][g] = releaseSequences[g]
        BY <4>1, <4>3
      <4>4. \A s \in Sinks, g \in Groups :
              heard[s][g] = releaseSequences[g] => heard'[s][g] = releaseSequences[g]
        <5>1. \A s \in Sinks, g \in Groups : heard'[s][g] >= heard[s][g]
          BY <3>6, <4>1
        <5>2. ASSUME NEW s \in Sinks, NEW g \in Groups, heard[s][g] = releaseSequences[g]
              PROVE  heard'[s][g] = releaseSequences[g]
          <6>1. heard[s][g] \in Nat /\ heard'[s][g] \in Nat BY <4>1
          <6>2. heard'[s][g] <= heard[s][g] /\ heard'[s][g] >= heard[s][g]
            BY <4>2, <5>1, <5>2
          <6> HIDE DEF TypeOK
          <6> QED BY <5>2, <6>1, <6>2
        <5> QED BY <5>2
      <4> QED BY <3>1, <3>2, <3>3, <3>4, <4>2, <4>3, <4>4 DEF ReleaseInv
    <3>7. spec[i] \notin Groups => heard' = heard \/ callSink[i] \in Sinks
      BY <3>1 DEF Hear
    <3>8. CASE callSink[i] \in Sinks /\ spec[i] \notin Groups /\ heard' # heard
      <4>1. heard' = [heard EXCEPT ![callSink[i]][spec[i]] = callSeq[i]]
        BY <3>1, <3>8 DEF Hear
      <4>2. \A s \in Sinks, g \in Groups : heard'[s][g] = heard[s][g] BY <3>8, <4>1
      <4>3. \A j \in Ids : phase'[j] = "released" => phase[j] = "released" BY <3>3, <3>4
      <4>4. \A j \in Ids : phase[j] = "released" /\ spec[j] \in Groups
                             => phase'[j] = "released"
        BY <3>3, <3>8
      <4> QED BY <3>1, <3>2, <4>2, <4>3, <4>4 DEF ReleaseInv
    <3> QED BY <3>1, <3>5, <3>6, <3>7, <3>8 DEF Hear
  <2> QED BY <1>2, <2>1, <2>2, <2>3, <2>4, <2>5, <2>6, <2>7, <2>8, <2>9 DEF OwnerStep
<1>3. CASE SinkStep
  <2>1. UNCHANGED <<phase, spec, releaseSequences, callSink, callSeq>>
    BY <1>3, SinkFrame DEF dispatchVars, scopeVars
  <2>2. \A g : CountedOf(g)' = CountedOf(g) BY <2>1 DEF CountedOf
  <2>3. ASSUME NEW s \in Sinks \union {NoSink}, SetReleaseSink(s) PROVE ReleaseInv'
    BY <2>1, <2>2, <2>3, NullAssumption DEF SetReleaseSink, ReleaseInv, TypeOK
  <2>4. ASSUME NEW g \in Groups, ReplayRelease(g) PROVE ReleaseInv'
    <3>1. /\ releaseSink' = releaseSink /\ replay' = [replay EXCEPT ![g] = 0]
          /\ replay[g] > 0 /\ Hear(releaseSink, g, replay[g])
      BY <2>4 DEF ReplayRelease
    <3>2. \A s \in Sinks, k \in Groups :
            heard'[s][k] = IF s = releaseSink /\ k = g /\ replay[g] > heard[s][g]
                           THEN replay[g] ELSE heard[s][k]
      BY <3>1 DEF Hear, TypeOK
    <3>3. \A s \in Sinks, k \in Groups : heard'[s][k] <= releaseSequences[k]
      BY <3>1, <3>2 DEF ReleaseInv
    <3>4. \A k \in Groups : replay'[k] <= releaseSequences[k]
      BY <3>1 DEF ReleaseInv, TypeOK
    <3>5. ASSUME releaseSink \in Sinks, NEW k \in Groups,
                 heard[releaseSink][k] = releaseSequences[k] \/ replay[k] = releaseSequences[k]
          PROVE  heard'[releaseSink][k] = releaseSequences[k] \/ replay'[k] = releaseSequences[k]
      <4>1. CASE k = g
        <5>1. heard[releaseSink][g] \in Nat /\ replay[g] \in Nat /\ releaseSequences[g] \in Nat
              /\ heard[releaseSink][g] <= releaseSequences[g] /\ replay[g] <= releaseSequences[g]
          BY <3>5 DEF TypeOK, ReleaseInv
        <5> QED BY <3>2, <3>5, <4>1, <5>1
      <4>2. CASE k # g BY <3>1, <3>2, <3>5, <4>2 DEF TypeOK
      <4> QED BY <4>1, <4>2
    <3> QED BY <2>1, <2>2, <3>1, <3>3, <3>4, <3>5 DEF ReleaseInv
  <2> QED BY <1>3, <2>3, <2>4 DEF SinkStep
<1>4. CASE BarrierStep BY <1>4, BarrierFrame, ReleaseUnchanged DEF dispatchVars, scopeVars
<1>5. ASSUME NEW t \in Threads, ThreadStep(t) PROVE ReleaseInv'
  BY <1>5, ThreadFrame, ReleaseUnchanged
<1>6. CASE UNCHANGED vars BY <1>6, ReleaseUnchanged DEF vars, dispatchVars, scopeVars
<1> QED BY <1>1, <1>2, <1>3, <1>4, <1>5, <1>6 DEF Next

-----------------------------------------------------------------------------
(***************************************************************************)
(* The theorems.                                                           *)
(***************************************************************************)

IInv == /\ TypeOK
        /\ PhaseInv
        /\ ResourceInv
        /\ BarrierInv
        /\ FreezeComplete
        /\ DrainInv
        /\ CloseInv
        /\ ReleaseInv

\* The conjunction of all parts is inductive.
THEOREM Invariance == Spec => []IInv
<1>1. Init => IInv
  BY InitTypeOK, PhaseInit, ResourceInit, BarrierInit, DrainInit, CloseInit, ReleaseInit
     DEF IInv
<1>2. IInv /\ [Next]_vars => IInv'
  BY NextTypeOK, PhaseStep, ResourceStep, BarrierStepInv, DrainStep, CloseStep, ReleaseStep
     DEF IInv
<1> QED BY <1>1, <1>2, PTL DEF Spec

\* A snapshot that carries barrier b lists every dispatch begun before b was
\* observed, unless that dispatch is over: FreezeInFlight and ObserveBarrier
\* let Home reclaim what a snapshot does not list.
THEOREM FreezeCompleteHolds == Spec => []FreezeComplete
<1>1. IInv => FreezeComplete BY DEF IInv
<1> QED BY <1>1, Invariance, PTL

\* A Drain that returned nil left nothing behind, for ever.
THEOREM DrainedIsQuietHolds == Spec => []DrainedIsQuiet
<1>1. IInv => DrainedIsQuiet
  BY OpenIsInstalled DEF IInv, DrainedIsQuiet, DrainInv
<1> QED BY <1>1, Invariance, PTL

\* A Close that returned left no bound resource open, for ever.
THEOREM CloseLeavesNoResourceHolds == Spec => []CloseReturnedLeavesNoResource
<1>1. IInv => CloseReturnedLeavesNoResource
  BY DEF IInv, CloseReturnedLeavesNoResource, CloseInv
<1> QED BY <1>1, Invariance, PTL

\* No sink is ever told of more releases than there are accounted scopes whose
\* resource is closed.
THEOREM ReleaseNeverEarlyHolds == Spec => []ReleaseNeverEarly
<1>1. IInv => ReleaseNeverEarly
  <2>1. SUFFICES ASSUME IInv, NEW s \in Sinks, NEW g \in Groups
                 PROVE  heard[s][g] <= Cardinality({i \in Ids : /\ spec[i] = g
                                                               /\ phase[i] \in Counted
                                                               /\ ~OpenResource(i)})
    BY DEF ReleaseNeverEarly
  <2>2. {i \in Ids : spec[i] = g /\ phase[i] \in Counted /\ ~OpenResource(i)} = CountedOf(g)
    BY <2>1 DEF IInv, ResourceInv, CountedOf, OpenResource
  <2>3. heard[s][g] <= Cardinality(CountedOf(g))
    BY <2>1 DEF IInv, ReleaseInv
  <2> QED BY <2>2, <2>3
<1> QED BY <1>1, Invariance, PTL

\* Once the registry is quiet the current sink knows of every accounted
\* execution: no release is lost between the lock and the sink.
THEOREM QuietSinkKnowsAllHolds == Spec => []QuietSinkKnowsAll
<1>1. IInv => QuietSinkKnowsAll
  <2>1. SUFFICES ASSUME IInv, releaseSink \in Sinks, scopes = {},
                        \A g \in Groups : replay[g] = 0, NEW g \in Groups
                 PROVE  heard[releaseSink][g] = Cardinality({i \in Ids : spec[i] = g})
    BY DEF QuietSinkKnowsAll
  <2>2. \A i \in Ids : phase[i] \notin Installed BY <2>1 DEF IInv, PhaseInv
  <2>3. \A i \in Ids : phase[i] # "released" BY <2>2 DEF Installed
  <2>4. g # NoGroup BY NullAssumption
  <2>5. {i \in Ids : spec[i] = g} = CountedOf(g)
    BY <2>1, <2>2, <2>4 DEF IInv, ResourceInv, CountedOf, Counted, Installed, TypeOK, Phases
  <2>6. releaseSequences[g] = Cardinality(CountedOf(g)) BY <2>1 DEF IInv, ReleaseInv
  <2>7. heard[releaseSink][g] = releaseSequences[g]
    <3>1. heard[releaseSink][g] = releaseSequences[g] \/ replay[g] = releaseSequences[g]
      BY <2>1, <2>3 DEF IInv, ReleaseInv
    <3>2. heard[releaseSink][g] <= releaseSequences[g] BY <2>1 DEF IInv, ReleaseInv
    <3>3. heard[releaseSink][g] \in Nat /\ releaseSequences[g] \in Nat
      BY <2>1 DEF IInv, TypeOK
    <3> QED BY <2>1, <3>1, <3>2, <3>3
  <2> QED BY <2>5, <2>6, <2>7
<1> QED BY <1>1, Invariance, PTL
=============================================================================
