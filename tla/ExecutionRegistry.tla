-------------------------- MODULE ExecutionRegistry --------------------------
(***************************************************************************)
(* The registry of Home executions: sdk/cliproxy/executionregistry.        *)
(*                                                                         *)
(* A request that asks Home for a credential first reserves a dispatch     *)
(* token (BeginDispatch).  Home's answer either ends the token (End) or    *)
(* turns it into an execution scope (Install).  The scope may own one      *)
(* resource (Bind); its owner ends it (EndWithRelease), which closes the   *)
(* resource, advances the cumulative release sequence of the credential    *)
(* and model, reports that sequence to the release sink outside the lock,  *)
(* and only then removes the scope.  Meanwhile Home's config stream hands  *)
(* the registry observation barriers, the in-flight publisher freezes      *)
(* snapshots, and supervisor threads call WaitPending, Drain and Close.    *)
(*                                                                         *)
(* Every critical section of Registry.mu is one action; what the code does *)
(* between two critical sections is left to the interleaving.  phase[i] is *)
(* the program counter of the goroutine that owns dispatch i.              *)
(***************************************************************************)
EXTENDS Integers, FiniteSets

CONSTANTS MaxDispatches, \* bound on Registry.next
          Groups,        \* credential/model pairs Home accounts for
          NoGroup,       \* ScopeSpec.Accounted = false
          Sinks,         \* release sinks installed over the registry's life
          NoSink,        \* nil sink
          Threads,       \* callers of WaitPending, Drain and Close
          MaxBarrier,    \* bound on the barrier revisions Home announces
          MaxSnapshots   \* bound on Registry.snapshotRevision

ASSUME BoundsAssumption ==
          /\ MaxDispatches \in Nat
          /\ MaxBarrier \in Nat
          /\ MaxSnapshots \in Nat

ASSUME NullAssumption ==
          /\ NoGroup \notin Groups
          /\ NoSink \notin Sinks

Ids == 1 .. MaxDispatches
Revisions == 0 .. MaxBarrier

States == {"accepting", "draining", "closed"}

\* none, pending: before Install.  gone: ended or refused without a scope.
\* running .. deleting: the scope is in Registry.scopes.  ended: removed.
Phases == {"none", "pending", "gone", "running", "ending", "closing",
           "released", "deleting", "ended"}
Installed == {"running", "ending", "closing", "released", "deleting"}
Counted == {"released", "deleting", "ended"}

\* Scope.closeFn and Scope.closeDone: nothing bound, bound, close started,
\* close finished.
Resources == {"none", "bound", "closing", "closed"}

PCs == {"idle",
        "drainSnapshot", "drainClose", "drainWait",
        "drained", "drainTimeout", "drainRefused",
        "closeCAS", "closeSnapshot", "closeScopes", "closeJoin", "closeReturned",
        "pendingWait", "settled", "pendingTimeout"}

VARIABLES
  state,            \* Registry.state
  next,             \* Registry.next
  pending,          \* keys of Registry.pending
  scopes,           \* keys of Registry.scopes
  phase,            \* progress of each dispatch's owner
  spec,             \* release group of each scope, or NoGroup
  res,              \* bound resource of each scope
  releaseSequences, \* Registry.releaseSequences
  releaseSink,      \* Registry.releaseSink
  callSink,         \* sink captured by markReleasedLocked for each scope
  callSeq,          \* sequence captured by markReleasedLocked
  replay,           \* sequences SetReleaseSink copied and has not replayed yet
  heard,            \* highest sequence each sink was given, per group
  observedBarrier, pendingBarrierSequence, publishedBarrier, snapshotRevision,
  freeze,           \* the last Freeze handed to the publisher
  barrierNext,      \* history: Registry.next when each barrier was observed
  pc,               \* program counters of Threads
  todo,             \* scopes a Drain or Close copied and has not visited yet
  cur,              \* scope whose resource a Close is waiting for, or 0
  closeStarted, closeDone,
  asleep            \* threads blocked on Registry.changed

dispatchVars == <<state, next, pending, scopes, phase>>
scopeVars == <<spec, res>>
releaseVars == <<releaseSequences, releaseSink, callSink, callSeq, replay, heard>>
barrierVars == <<observedBarrier, pendingBarrierSequence, publishedBarrier,
                 snapshotRevision, freeze, barrierNext>>
threadVars == <<pc, todo, cur, closeStarted, closeDone>>
vars == <<dispatchVars, scopeVars, releaseVars, barrierVars, threadVars, asleep>>

Init ==
  /\ state = "accepting"
  /\ next = 0
  /\ pending = {}
  /\ scopes = {}
  /\ phase = [i \in Ids |-> "none"]
  /\ spec = [i \in Ids |-> NoGroup]
  /\ res = [i \in Ids |-> "none"]
  /\ releaseSequences = [g \in Groups |-> 0]
  /\ releaseSink = NoSink
  /\ callSink = [i \in Ids |-> NoSink]
  /\ callSeq = [i \in Ids |-> 0]
  /\ replay = [g \in Groups |-> 0]
  /\ heard = [s \in Sinks |-> [g \in Groups |-> 0]]
  /\ observedBarrier = 0
  /\ pendingBarrierSequence = 0
  /\ publishedBarrier = 0
  /\ snapshotRevision = 0
  /\ freeze = [barrier |-> 0, executions |-> {}]
  /\ barrierNext = [b \in Revisions |-> 0]
  /\ pc = [t \in Threads |-> "idle"]
  /\ todo = [t \in Threads |-> {}]
  /\ cur = [t \in Threads |-> 0]
  /\ closeStarted = FALSE
  /\ closeDone = FALSE
  /\ asleep = {}

(***************************************************************************)
(* signalLocked closes the channel every waiter captured under the lock.   *)
(***************************************************************************)
\* Faulty variant: the state change is not broadcast.
NoSignal == UNCHANGED asleep

signalLocked == asleep' = {}

-----------------------------------------------------------------------------
(***************************************************************************)
(* Dispatch tokens.                                                        *)
(***************************************************************************)
BeginDispatch ==
  /\ state = "accepting"
  /\ next < MaxDispatches
  /\ next' = next + 1
  /\ pending' = pending \union {next + 1}
  /\ phase' = [phase EXCEPT ![next + 1] = "pending"]
  /\ UNCHANGED <<state, scopes, scopeVars, releaseVars, barrierVars, threadVars, asleep>>

\* PendingDispatch.End; the token's once makes any later call a no-op.
EndDispatch(i) ==
  /\ phase[i] = "pending"
  /\ phase' = [phase EXCEPT ![i] = "gone"]
  /\ pending' = pending \ {i}
  /\ signalLocked
  /\ UNCHANGED <<state, next, scopes, scopeVars, releaseVars, barrierVars, threadVars>>

Install(i, g) ==
  /\ phase[i] = "pending"
  /\ pending' = pending \ {i}
  /\ signalLocked
  /\ IF state = "accepting"
     THEN /\ phase' = [phase EXCEPT ![i] = "running"]
          /\ scopes' = scopes \union {i}
          /\ spec' = [spec EXCEPT ![i] = g]
     ELSE /\ phase' = [phase EXCEPT ![i] = "gone"]
          /\ UNCHANGED <<scopes, spec>>
  /\ UNCHANGED <<state, next, res, releaseVars, barrierVars, threadVars>>

-----------------------------------------------------------------------------
(***************************************************************************)
(* The resource of a scope.                                                *)
(***************************************************************************)
\* Faulty variant: the registry state is not checked again.
BindAnyState(i) ==
  /\ phase[i] = "running"
  /\ res[i] = "none"
  /\ res' = [res EXCEPT ![i] = "bound"]
  /\ UNCHANGED <<dispatchVars, spec, releaseVars, barrierVars, threadVars, asleep>>

Bind(i) ==
  /\ state = "accepting"
  /\ phase[i] = "running"
  /\ res[i] = "none"
  /\ res' = [res EXCEPT ![i] = "bound"]
  /\ UNCHANGED <<dispatchVars, spec, releaseVars, barrierVars, threadVars, asleep>>

startBoundResourceClose(i) ==
  res' = IF res[i] = "bound" THEN [res EXCEPT ![i] = "closing"] ELSE res

\* Faulty variant: the close is started and not awaited.
BoundResourceNotAwaited(i) == TRUE

\* waitForBoundResourceClose returns: closeDone is nil or closed.
BoundResourceClosed(i) == res[i] \in {"none", "closed"}

\* The goroutine of startBoundResourceClose runs closeFn and closes closeDone.
closeResource(i) ==
  /\ res[i] = "closing"
  /\ res' = [res EXCEPT ![i] = "closed"]
  /\ UNCHANGED <<dispatchVars, spec, releaseVars, barrierVars, threadVars, asleep>>

-----------------------------------------------------------------------------
(***************************************************************************)
(* EndWithRelease, whose Once admits a single run per scope.               *)
(***************************************************************************)
EndDeactivate(i) ==
  /\ phase[i] = "running"
  /\ phase' = [phase EXCEPT ![i] = "ending"]
  /\ UNCHANGED <<state, next, pending, scopes, scopeVars, releaseVars, barrierVars,
                 threadVars, asleep>>

EndCloseResource(i) ==
  /\ phase[i] = "ending"
  /\ phase' = [phase EXCEPT ![i] = "closing"]
  /\ startBoundResourceClose(i)
  /\ UNCHANGED <<state, next, pending, scopes, spec, releaseVars, barrierVars,
                 threadVars, asleep>>

\* Faulty variant: an in-flight count instead of a cumulative sequence.
markReleasedAsCount(i) ==
  /\ phase[i] = "closing"
  /\ BoundResourceClosed(i)
  /\ phase' = [phase EXCEPT ![i] = "released"]
  /\ IF spec[i] \in Groups
     THEN /\ releaseSequences' = [releaseSequences EXCEPT ![spec[i]] = @ - 1]
          /\ callSink' = [callSink EXCEPT ![i] = releaseSink]
          /\ callSeq' = [callSeq EXCEPT ![i] = releaseSequences[spec[i]] - 1]
     ELSE UNCHANGED <<releaseSequences, callSink, callSeq>>
  /\ UNCHANGED <<state, next, pending, scopes, scopeVars, releaseSink, replay, heard,
                 barrierVars, threadVars, asleep>>

markReleasedLocked(i) ==
  /\ phase[i] = "closing"
  /\ BoundResourceClosed(i)
  /\ phase' = [phase EXCEPT ![i] = "released"]
  /\ IF spec[i] \in Groups
     THEN /\ releaseSequences' = [releaseSequences EXCEPT ![spec[i]] = @ + 1]
          /\ callSink' = [callSink EXCEPT ![i] = releaseSink]
          /\ callSeq' = [callSeq EXCEPT ![i] = releaseSequences[spec[i]] + 1]
     ELSE UNCHANGED <<releaseSequences, callSink, callSeq>>
  /\ UNCHANGED <<state, next, pending, scopes, scopeVars, releaseSink, replay, heard,
                 barrierVars, threadVars, asleep>>

\* External sink, modelled by the highest sequence it was given: sinks take
\* cumulative sequences in any order.
Hear(s, g, n) ==
  heard' = IF s \in Sinks /\ n > heard[s][g]
           THEN [heard EXCEPT ![s][g] = n]
           ELSE heard

EndReport(i) ==
  /\ phase[i] = "released"
  /\ phase' = [phase EXCEPT ![i] = "deleting"]
  /\ Hear(callSink[i], spec[i], callSeq[i])
  /\ UNCHANGED <<state, next, pending, scopes, scopeVars, releaseSequences, releaseSink,
                 callSink, callSeq, replay, barrierVars, threadVars, asleep>>

EndDelete(i) ==
  /\ phase[i] = "deleting"
  /\ phase' = [phase EXCEPT ![i] = "ended"]
  /\ scopes' = scopes \ {i}
  /\ signalLocked
  /\ UNCHANGED <<state, next, pending, scopeVars, releaseVars, barrierVars, threadVars>>

\* Faulty variant: the sink is swapped and nothing is replayed.
SetSinkWithoutReplay(s) ==
  /\ \A g \in Groups : replay[g] = 0
  /\ releaseSink' = s
  /\ UNCHANGED <<dispatchVars, scopeVars, releaseSequences, replay, callSink, callSeq,
                 heard, barrierVars, threadVars, asleep>>

(***************************************************************************)
(* SetReleaseSink: swap and copy under the lock, replay after it.  Its one *)
(* caller, the subscriber loop, finishes a replay before the next swap.    *)
(***************************************************************************)
SetReleaseSink(s) ==
  /\ \A g \in Groups : replay[g] = 0
  /\ releaseSink' = s
  /\ replay' = IF s = NoSink THEN replay ELSE releaseSequences
  /\ UNCHANGED <<dispatchVars, scopeVars, releaseSequences, callSink, callSeq, heard,
                 barrierVars, threadVars, asleep>>

ReplayRelease(g) ==
  /\ replay[g] > 0
  /\ Hear(releaseSink, g, replay[g])
  /\ replay' = [replay EXCEPT ![g] = 0]
  /\ UNCHANGED <<dispatchVars, scopeVars, releaseSequences, releaseSink, callSink, callSeq,
                 barrierVars, threadVars, asleep>>

-----------------------------------------------------------------------------
(***************************************************************************)
(* Observation barriers and in-flight snapshots.                           *)
(***************************************************************************)
ObserveBarrier(b) ==
  /\ b > observedBarrier
  /\ observedBarrier' = b
  /\ pendingBarrierSequence' = next
  /\ barrierNext' = [barrierNext EXCEPT ![b] = next]
  /\ UNCHANGED <<dispatchVars, scopeVars, releaseVars, publishedBarrier, snapshotRevision,
                 freeze, threadVars, asleep>>

\* Faulty variant: the dispatch begun last before the barrier is forgotten.
BarrierBlockedOffByOne == \E i \in pending : i < pendingBarrierSequence

BarrierBlocked == \E i \in pending : i <= pendingBarrierSequence

FreezeInFlight ==
  /\ snapshotRevision < MaxSnapshots
  /\ publishedBarrier' = IF observedBarrier > publishedBarrier /\ ~BarrierBlocked
                         THEN observedBarrier
                         ELSE publishedBarrier
  /\ snapshotRevision' = snapshotRevision + 1
  /\ freeze' = [barrier |-> publishedBarrier', executions |-> scopes]
  /\ UNCHANGED <<dispatchVars, scopeVars, releaseVars, observedBarrier,
                 pendingBarrierSequence, barrierNext, threadVars, asleep>>

-----------------------------------------------------------------------------
(***************************************************************************)
(* WaitPending, Drain and Close.  A waiter that finds its condition false  *)
(* captures Registry.changed before it unlocks, hence joins asleep in the  *)
(* step that checks; ctx may expire whenever it is asleep.                 *)
(***************************************************************************)
Goto(t, l) == pc' = [pc EXCEPT ![t] = l]

WaitPending(t) ==
  /\ pc[t] = "idle"
  /\ Goto(t, "pendingWait")
  /\ UNCHANGED <<dispatchVars, scopeVars, releaseVars, barrierVars, todo, cur,
                 closeStarted, closeDone, asleep>>

WaitPendingCheck(t) ==
  /\ pc[t] = "pendingWait"
  /\ t \notin asleep
  /\ IF pending = {}
     THEN Goto(t, "settled") /\ UNCHANGED asleep
     ELSE UNCHANGED pc /\ asleep' = asleep \union {t}
  /\ UNCHANGED <<dispatchVars, scopeVars, releaseVars, barrierVars, todo, cur,
                 closeStarted, closeDone>>

\* CompareAndSwap(accepting, draining), or another Drain already swapped.
Drain(t) ==
  /\ pc[t] = "idle"
  /\ IF state = "closed"
     THEN Goto(t, "drainRefused") /\ UNCHANGED state
     ELSE Goto(t, "drainSnapshot") /\ state' = "draining"
  /\ UNCHANGED <<next, pending, scopes, phase, scopeVars, releaseVars, barrierVars,
                 todo, cur, closeStarted, closeDone, asleep>>

DrainSnapshot(t) ==
  /\ pc[t] = "drainSnapshot"
  /\ todo' = [todo EXCEPT ![t] = scopes]
  /\ Goto(t, "drainClose")
  /\ UNCHANGED <<dispatchVars, scopeVars, releaseVars, barrierVars, cur,
                 closeStarted, closeDone, asleep>>

DrainCloseScope(t, i) ==
  /\ pc[t] = "drainClose"
  /\ i \in todo[t]
  /\ startBoundResourceClose(i)
  /\ todo' = [todo EXCEPT ![t] = @ \ {i}]
  /\ UNCHANGED <<dispatchVars, spec, releaseVars, barrierVars, pc, cur,
                 closeStarted, closeDone, asleep>>

DrainClosedAll(t) ==
  /\ pc[t] = "drainClose"
  /\ todo[t] = {}
  /\ Goto(t, "drainWait")
  /\ UNCHANGED <<dispatchVars, scopeVars, releaseVars, barrierVars, todo, cur,
                 closeStarted, closeDone, asleep>>

\* Faulty variant: unresolved dispatch tokens are not waited for.
DrainCheckScopesOnly(t) ==
  /\ pc[t] = "drainWait"
  /\ t \notin asleep
  /\ IF scopes = {}
     THEN Goto(t, "drained") /\ state' = "closed" /\ UNCHANGED asleep
     ELSE UNCHANGED <<pc, state>> /\ asleep' = asleep \union {t}
  /\ UNCHANGED <<next, pending, scopes, phase, scopeVars, releaseVars, barrierVars,
                 todo, cur, closeStarted, closeDone>>

DrainCheck(t) ==
  /\ pc[t] = "drainWait"
  /\ t \notin asleep
  /\ IF pending = {} /\ scopes = {}
     THEN Goto(t, "drained") /\ state' = "closed" /\ UNCHANGED asleep
     ELSE UNCHANGED <<pc, state>> /\ asleep' = asleep \union {t}
  /\ UNCHANGED <<next, pending, scopes, phase, scopeVars, releaseVars, barrierVars,
                 todo, cur, closeStarted, closeDone>>

ContextDone(t) ==
  /\ t \in asleep
  /\ Goto(t, IF pc[t] = "drainWait" THEN "drainTimeout" ELSE "pendingTimeout")
  /\ asleep' = asleep \ {t}
  /\ UNCHANGED <<dispatchVars, scopeVars, releaseVars, barrierVars, todo, cur,
                 closeStarted, closeDone>>

Close(t) ==
  /\ pc[t] = "idle"
  /\ \/ /\ closeStarted
        /\ Goto(t, "closeJoin")
        /\ UNCHANGED closeStarted
     \/ /\ ~closeStarted
        /\ state = "closed"
        /\ Goto(t, "closeReturned")
        /\ UNCHANGED closeStarted
     \/ /\ ~closeStarted
        /\ state # "closed"
        /\ Goto(t, "closeCAS")
        /\ closeStarted' = TRUE
  /\ UNCHANGED <<dispatchVars, scopeVars, releaseVars, barrierVars, todo, cur,
                 closeDone, asleep>>

CloseCAS(t) ==
  /\ pc[t] = "closeCAS"
  /\ state' = "closed"
  /\ Goto(t, "closeSnapshot")
  /\ UNCHANGED <<next, pending, scopes, phase, scopeVars, releaseVars, barrierVars,
                 todo, cur, closeStarted, closeDone, asleep>>

CloseSnapshot(t) ==
  /\ pc[t] = "closeSnapshot"
  /\ todo' = [todo EXCEPT ![t] = scopes]
  /\ Goto(t, "closeScopes")
  /\ UNCHANGED <<dispatchVars, scopeVars, releaseVars, barrierVars, cur,
                 closeStarted, closeDone, asleep>>

\* waitForBoundResourceClose of the next scope: start, then wait.
CloseStartScope(t, i) ==
  /\ pc[t] = "closeScopes"
  /\ cur[t] = 0
  /\ i \in todo[t]
  /\ startBoundResourceClose(i)
  /\ cur' = [cur EXCEPT ![t] = i]
  /\ todo' = [todo EXCEPT ![t] = @ \ {i}]
  /\ UNCHANGED <<dispatchVars, spec, releaseVars, barrierVars, pc,
                 closeStarted, closeDone, asleep>>

CloseWaitScope(t) ==
  /\ pc[t] = "closeScopes"
  /\ cur[t] \in Ids
  /\ BoundResourceClosed(cur[t])
  /\ cur' = [cur EXCEPT ![t] = 0]
  /\ UNCHANGED <<dispatchVars, scopeVars, releaseVars, barrierVars, pc, todo,
                 closeStarted, closeDone, asleep>>

CloseFinish(t) ==
  /\ pc[t] = "closeScopes"
  /\ cur[t] = 0
  /\ todo[t] = {}
  /\ closeDone' = TRUE
  /\ Goto(t, "closeReturned")
  /\ UNCHANGED <<dispatchVars, scopeVars, releaseVars, barrierVars, todo, cur,
                 closeStarted, asleep>>

CloseJoin(t) ==
  /\ pc[t] = "closeJoin"
  /\ closeDone
  /\ Goto(t, "closeReturned")
  /\ UNCHANGED <<dispatchVars, scopeVars, releaseVars, barrierVars, todo, cur,
                 closeStarted, closeDone, asleep>>

-----------------------------------------------------------------------------
OwnerStep(i) ==
  \/ EndDispatch(i)
  \/ \E g \in Groups \union {NoGroup} : Install(i, g)
  \/ Bind(i)
  \/ EndDeactivate(i)
  \/ EndCloseResource(i)
  \/ markReleasedLocked(i)
  \/ EndReport(i)
  \/ EndDelete(i)

SinkStep ==
  \/ \E s \in Sinks \union {NoSink} : SetReleaseSink(s)
  \/ \E g \in Groups : ReplayRelease(g)

BarrierStep ==
  \/ \E b \in Revisions : ObserveBarrier(b)
  \/ FreezeInFlight

ThreadStep(t) ==
  \/ WaitPending(t) \/ WaitPendingCheck(t)
  \/ Drain(t) \/ DrainSnapshot(t) \/ DrainClosedAll(t) \/ DrainCheck(t)
  \/ \E i \in Ids : DrainCloseScope(t, i)
  \/ ContextDone(t)
  \/ Close(t) \/ CloseCAS(t) \/ CloseSnapshot(t) \/ CloseWaitScope(t)
  \/ \E i \in Ids : CloseStartScope(t, i)
  \/ CloseFinish(t) \/ CloseJoin(t)

Next ==
  \/ BeginDispatch
  \/ \E i \in Ids : OwnerStep(i) \/ closeResource(i)
  \/ SinkStep
  \/ BarrierStep
  \/ \E t \in Threads : ThreadStep(t)

Spec == Init /\ [][Next]_vars

-----------------------------------------------------------------------------
(***************************************************************************)
(* Fairness.  A dispatch token is always resolved and a scope always ended *)
(* (its owner defers both), close functions return, and a goroutine that   *)
(* can run does run.  Nothing forces a new dispatch, a Bind, a sink swap,  *)
(* a barrier, a snapshot, a call by a supervisor, or the expiry of a ctx.  *)
(***************************************************************************)
Resolve(i) == EndDispatch(i) \/ \E g \in Groups \union {NoGroup} : Install(i, g)

EndWithRelease(i) ==
  \/ EndDeactivate(i) \/ EndCloseResource(i) \/ markReleasedLocked(i)
  \/ EndReport(i) \/ EndDelete(i)

ThreadProgress(t) ==
  \/ WaitPendingCheck(t)
  \/ DrainSnapshot(t) \/ (\E i \in Ids : DrainCloseScope(t, i))
  \/ DrainClosedAll(t) \/ DrainCheck(t)
  \/ CloseCAS(t) \/ CloseSnapshot(t) \/ (\E i \in Ids : CloseStartScope(t, i))
  \/ CloseWaitScope(t) \/ CloseFinish(t) \/ CloseJoin(t)

Fairness ==
  /\ \A i \in Ids : /\ WF_vars(Resolve(i))
                    /\ WF_vars(EndWithRelease(i))
                    /\ WF_vars(closeResource(i))
  /\ WF_vars(\E g \in Groups : ReplayRelease(g))
  /\ \A t \in Threads : WF_vars(ThreadProgress(t))

FairSpec == Spec /\ Fairness

-----------------------------------------------------------------------------
(***************************************************************************)
(* Properties.                                                             *)
(***************************************************************************)

\* Every variable keeps the type the Go fields have.
TypeOK ==
  /\ state \in States
  /\ next \in 0 .. MaxDispatches
  /\ pending \in SUBSET Ids
  /\ scopes \in SUBSET Ids
  /\ phase \in [Ids -> Phases]
  /\ spec \in [Ids -> Groups \union {NoGroup}]
  /\ res \in [Ids -> Resources]
  /\ releaseSequences \in [Groups -> Nat]
  /\ releaseSink \in Sinks \union {NoSink}
  /\ callSink \in [Ids -> Sinks \union {NoSink}]
  /\ callSeq \in [Ids -> Nat]
  /\ replay \in [Groups -> Nat]
  /\ heard \in [Sinks -> [Groups -> Nat]]
  /\ observedBarrier \in Revisions
  /\ pendingBarrierSequence \in 0 .. MaxDispatches
  /\ publishedBarrier \in Revisions
  /\ snapshotRevision \in 0 .. MaxSnapshots
  /\ freeze \in [barrier : Revisions, executions : SUBSET Ids]
  /\ barrierNext \in [Revisions -> 0 .. MaxDispatches]
  /\ pc \in [Threads -> PCs]
  /\ todo \in [Threads -> SUBSET Ids]
  /\ cur \in [Threads -> 0 .. MaxDispatches]
  /\ closeStarted \in BOOLEAN
  /\ closeDone \in BOOLEAN
  /\ asleep \in SUBSET Threads

\* What Home may conclude from a snapshot.  Once the published Freeze carries
\* barrier revision b, every dispatch that began before b was observed is
\* either listed in that Freeze or is over for good: FreezeInFlight holds the
\* barrier back while such a dispatch is still waiting for Home's answer, and
\* EndWithRelease removes a scope only after it was reported.
FreezeComplete ==
  \A b \in Revisions : b <= freeze.barrier =>
    \A i \in Ids : i <= barrierNext[b] =>
      i \in freeze.executions \/ phase[i] \in {"gone", "ended"}

OpenResource(i) == res[i] \in {"bound", "closing"}

\* A Drain that returns nil has left no token, no scope and no resource open,
\* and nothing appears afterwards, whatever raced with it: tokens resolved
\* late, Binds, a second Drain, a Close, a ctx that expired elsewhere.
DrainedIsQuiet ==
  (\E t \in Threads : pc[t] = "drained") =>
    /\ pending = {}
    /\ scopes = {}
    /\ \A i \in Ids : ~OpenResource(i)

\* When any Close has returned (the first caller, a caller that joined it, or
\* one that found the registry already closed by a Drain) every resource ever
\* bound has been closed, and no later Bind can succeed.
CloseReturnedLeavesNoResource ==
  (\E t \in Threads : pc[t] = "closeReturned") => \A i \in Ids : ~OpenResource(i)

\* Home is never told that a slot is free while its execution still owns an
\* open resource: the highest sequence any sink was given counts only
\* accounted scopes that are past waitForBoundResourceClose.
ReleaseNeverEarly ==
  \A s \in Sinks, g \in Groups :
    heard[s][g] <= Cardinality({i \in Ids : /\ spec[i] = g
                                            /\ phase[i] \in Counted
                                            /\ ~OpenResource(i)})

\* No release is lost between markReleasedLocked, the sink call made outside
\* the lock, and a concurrent SetReleaseSink: once no scope is left and the
\* replay is over, the current sink has heard of every accounted execution.
QuietSinkKnowsAll ==
  (/\ releaseSink \in Sinks
   /\ scopes = {}
   /\ \A g \in Groups : replay[g] = 0) =>
     \A g \in Groups :
       heard[releaseSink][g] = Cardinality({i \in Ids : spec[i] = g})

\* A blocked WaitPending or Drain is woken by the token or scope that was the
\* last it waited for, even though no ctx ever expires, and Close returns to
\* its first caller and to every caller that joined it: no call waits for ever.
WaitersReturn ==
  <>[](\A t \in Threads :
         pc[t] \notin {"pendingWait", "drainSnapshot", "drainClose", "drainWait",
                       "closeCAS", "closeSnapshot", "closeScopes", "closeJoin"})
=============================================================================
