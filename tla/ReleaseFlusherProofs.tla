------------------------- MODULE ReleaseFlusherProofs -------------------------
(***************************************************************************)
(* Theorems about ReleaseFlusher, for any set of groups and any number of  *)
(* sequences, connections and configurations.                              *)
(***************************************************************************)
EXTENDS ReleaseFlusher, TLAPS

\* The chain of sequences of a group: acknowledged, accepted by Home, recorded
\* by MarkDirty, issued by the registry.  Frames and answers under way stay
\* inside it, whatever was recorded after they were built.
Ordered ==
  /\ \A g \in Groups : /\ acked[g] <= homeSeq[g]
                       /\ homeSeq[g] <= latest[g]
                       /\ latest[g] <= issued[g]
                       /\ batch[g] <= latest[g]
                       /\ goal[g] <= latest[g]
  /\ \A x \in calls : x[2] <= issued[x[1]]
  /\ answer # <<>> => answer[2] <= homeSeq[answer[1]]

IInv == /\ TypeOK
        /\ Ordered
        /\ TicketMeansKnown
        /\ NoStrandedTicket
        /\ FlushedMeansKnown

-----------------------------------------------------------------------------
\* nextDelay stays between zero and the longest configured back-off.
LEMMA DelayBounded ==
  ASSUME NEW d \in Nat, NEW x \in Timings
  PROVE  nextDelay(d, x) \in Nat /\ nextDelay(d, x) <= x[2] /\ x[1] \in Nat /\ x[1] <= x[2]
BY TimingsAssumption DEF nextDelay

\* The sequences of a group are numbers.
LEMMA GroupNat ==
  ASSUME TypeOK, NEW h \in Groups
  PROVE  /\ issued[h] \in Nat /\ latest[h] \in Nat /\ acked[h] \in Nat
         /\ batch[h] \in Nat /\ goal[h] \in Nat /\ homeSeq[h] \in Nat
BY DEF TypeOK

\* The initial flusher satisfies the invariant.
LEMMA InitIInv == Init => IInv
<1> SUFFICES ASSUME Init PROVE IInv OBVIOUS
<1>1. 0 \in 0 .. MaxSeq /\ 0 \in 0 .. MaxLifetimes BY BoundsAssumption
<1>2. delay \in Nat /\ \E x \in Timings : delay <= x[2]
  BY DelayBounded DEF Init
<1>3. TypeOK BY <1>1, <1>2 DEF Init, TypeOK, NothingToSend
<1>4. Ordered BY DEF Init, Ordered, NothingToSend
<1>5. TicketMeansKnown /\ NoStrandedTicket /\ FlushedMeansKnown
  BY DEF Init, TicketMeansKnown, NoStrandedTicket, FlushedMeansKnown
<1> QED BY <1>3, <1>4, <1>5 DEF IInv

\* Recording a sequence keeps the chain, and a ticket that is completed on the
\* spot is one Home has accepted.
LEMMA MarkDirtyIInv ==
  ASSUME IInv, NEW g \in Groups, NEW n \in 1 .. MaxSeq, MarkDirty(g, n)
  PROVE  IInv'
<1> USE DEF IInv, stateVars, runVars, batchVars, flushVars
<1>1. n <= issued[g] BY DEF MarkDirty, Ordered
<1>2. CASE n <= acked[g]
  <2>1. /\ done' = done \union {<<g, n>>}
        /\ calls' = calls \ {<<g, n>>}
        /\ UNCHANGED <<issued, latest, acked, waiters, force, runVars, batchVars,
                       flushVars, homeSeq>>
        /\ wake' = TRUE
    BY <1>2 DEF MarkDirty
  <2>2. n <= homeSeq[g] BY <1>2 DEF Ordered, TypeOK
  <2>3. TypeOK'
    <3>1. calls' \subseteq Tickets /\ done' \subseteq Tickets BY <2>1 DEF TypeOK, Tickets
    <3>2. wake' \in BOOLEAN BY <2>1
    <3> QED BY <2>1, <3>1, <3>2, SMTT(60) DEF TypeOK
  <2>4. Ordered' BY <2>1 DEF Ordered
  <2>5. TicketMeansKnown' BY <2>1, <2>2 DEF TicketMeansKnown
  <2>6. NoStrandedTicket' /\ FlushedMeansKnown'
    BY <2>1 DEF NoStrandedTicket, FlushedMeansKnown
  <2> QED BY <2>3, <2>4, <2>5, <2>6
<1>3. CASE ~(n <= acked[g])
  <2>1. /\ waiters' = [waiters EXCEPT ![g] = @ \union {n}]
        /\ latest' = [latest EXCEPT ![g] = IF n > @ THEN n ELSE @]
        /\ calls' = calls \ {<<g, n>>}
        /\ UNCHANGED <<issued, acked, done, force, runVars, batchVars, flushVars, homeSeq>>
        /\ wake' = TRUE
    BY <1>3 DEF MarkDirty
  <2>2. TypeOK' BY <2>1, SMTT(60) DEF TypeOK
  <2>3. /\ \A h \in Groups : latest[h] <= latest'[h] /\ latest'[h] <= issued[h]
        /\ n <= latest'[g]
    BY <1>1, <2>1, SMTT(60) DEF TypeOK, Ordered
  <2>4. Ordered'
    <3>1. ASSUME NEW h \in Groups
          PROVE  /\ acked[h] <= homeSeq[h] /\ homeSeq[h] <= latest'[h]
                 /\ latest'[h] <= issued[h] /\ batch[h] <= latest'[h]
                 /\ goal[h] <= latest'[h]
      <4>1. latest'[h] \in Nat BY <2>2 DEF TypeOK
      <4> QED BY <2>3, <4>1, GroupNat DEF Ordered
    <3> QED BY <2>1, <3>1 DEF Ordered
  <2>5. TicketMeansKnown' /\ FlushedMeansKnown'
    BY <2>1 DEF TicketMeansKnown, FlushedMeansKnown
  <2>6. NoStrandedTicket'
    <3> SUFFICES ASSUME NEW h \in Groups, NEW m \in waiters'[h]
                 PROVE  acked[h] < m /\ m <= latest'[h]
      BY <2>1 DEF NoStrandedTicket
    <3>1. CASE m \in waiters[h]
      <4>1. acked[h] < m /\ m <= latest[h] BY <3>1 DEF NoStrandedTicket
      <4>2. m \in Nat /\ latest'[h] \in Nat BY <2>2, <3>1 DEF TypeOK
      <4> QED BY <2>3, <4>1, <4>2, GroupNat
    <3>2. CASE m \notin waiters[h]
      BY <1>3, <2>1, <2>3, <3>2 DEF TypeOK
    <3> QED BY <3>1, <3>2
  <2> QED BY <2>2, <2>4, <2>5, <2>6
<1> QED BY <1>2, <1>3

\* A frame Home accepts carries a sequence of the chain.
LEMMA SendIInv ==
  ASSUME IInv, NEW g \in Groups, SendOk(g) \/ SendError(g)
  PROVE  IInv'
<1> USE DEF IInv, registryVars, stateVars, runVars, flushVars
<1>1. /\ batch' = [batch EXCEPT ![g] = 0]
      /\ batch[g] > 0
      /\ Accept(g, batch[g]) \/ UNCHANGED homeSeq
      /\ UNCHANGED <<issued, calls, latest, acked, waiters, done, wake, force, timer, delay,
                     backingOff, run, cancelled, lifetime, timing, flush, goal>>
  BY DEF SendOk, SendError
<1>2. \/ answer' = <<>> /\ failed' = TRUE
      \/ /\ Accept(g, batch[g])
         /\ answer' = <<g, batch[g]>> /\ failed' = failed
  BY DEF SendOk, SendError
<1>3. /\ homeSeq' \in [Groups -> 0 .. MaxSeq]
      /\ \A h \in Groups : homeSeq[h] <= homeSeq'[h] /\ homeSeq'[h] <= latest[h]
      /\ Accept(g, batch[g]) => batch[g] <= homeSeq'[g]
  <2>1. batch[g] \in 0 .. MaxSeq /\ batch[g] <= latest[g] BY DEF Ordered, TypeOK
  <2>2. CASE Accept(g, batch[g])
    <3>1. homeSeq' = [homeSeq EXCEPT ![g] = IF batch[g] > @ THEN batch[g] ELSE @]
      BY <2>2 DEF Accept
    <3>2. homeSeq' \in [Groups -> 0 .. MaxSeq] BY <2>1, <3>1 DEF TypeOK
    <3>3. ASSUME NEW h \in Groups
          PROVE  homeSeq[h] <= homeSeq'[h] /\ homeSeq'[h] <= latest[h]
      <4>1. homeSeq[h] <= latest[h] BY DEF Ordered
      <4>2. homeSeq'[h] = homeSeq[h] \/ (h = g /\ homeSeq[h] < batch[g] /\ homeSeq'[h] = batch[g])
        BY <3>1, GroupNat DEF TypeOK
      <4> QED BY <2>1, <4>1, <4>2, GroupNat
    <3>4. batch[g] <= homeSeq'[g] BY <2>1, <3>1, GroupNat DEF TypeOK
    <3> QED BY <3>2, <3>3, <3>4
  <2>3. CASE ~Accept(g, batch[g])
    <3>1. homeSeq' = homeSeq BY <1>1, <2>3
    <3> QED BY <2>3, <3>1, GroupNat DEF Ordered, TypeOK
  <2> QED BY <2>2, <2>3
<1>4. TypeOK'
  <2>1. batch' \in [Groups -> 0 .. MaxSeq] BY <1>1, BoundsAssumption DEF TypeOK
  <2>2. answer' \in Tickets \union {<<>>} /\ failed' \in BOOLEAN
    <3>1. batch[g] \in 1 .. MaxSeq BY <1>1 DEF TypeOK
    <3>2. <<g, batch[g]>> \in Tickets BY <3>1 DEF Tickets
    <3>3. failed \in BOOLEAN BY DEF TypeOK
    <3> QED BY <1>2, <3>2, <3>3
  <2> QED BY <1>1, <1>3, <2>1, <2>2 DEF TypeOK
<1>5. Ordered'
  <2>1. ASSUME NEW h \in Groups
        PROVE  /\ acked[h] <= homeSeq'[h] /\ homeSeq'[h] <= latest[h]
               /\ latest[h] <= issued[h] /\ batch'[h] <= latest[h] /\ goal[h] <= latest[h]
    BY <1>1, <1>3, <1>4, SMTT(60) DEF Ordered, TypeOK
  <2>2. answer' # <<>> => answer'[2] <= homeSeq'[answer'[1]] BY <1>2, <1>3
  <2> QED BY <1>1, <2>1, <2>2 DEF Ordered
<1>6. TicketMeansKnown'
  <2> SUFFICES ASSUME NEW x \in done PROVE x[2] <= homeSeq'[x[1]]
    BY <1>1 DEF TicketMeansKnown
  <2>1. x[1] \in Groups /\ x[2] \in Nat /\ x[2] <= homeSeq[x[1]]
    BY DEF TicketMeansKnown, TypeOK, Tickets
  <2>2. homeSeq'[x[1]] \in Nat BY <1>3, <2>1
  <2> QED BY <1>3, <2>1, <2>2, GroupNat
<1>7. NoStrandedTicket' BY <1>1 DEF NoStrandedTicket
<1>8. FlushedMeansKnown'
  <2> SUFFICES ASSUME flush = "returned", NEW h \in Groups PROVE goal[h] <= homeSeq'[h]
    BY <1>1 DEF FlushedMeansKnown
  <2>1. goal[h] <= homeSeq[h] BY DEF FlushedMeansKnown
  <2>2. homeSeq'[h] \in Nat BY <1>3
  <2> QED BY <1>3, <2>1, <2>2, GroupNat
<1> QED BY <1>4, <1>5, <1>6, <1>7, <1>8

\* An acknowledgement completes exactly the tickets it covers, so a group that
\* became dirty meanwhile keeps its newer tickets.
LEMMA AckIInv ==
  ASSUME IInv, Ack
  PROVE  IInv'
<1> USE DEF IInv, registryVars, runVars, flushVars
<1> DEFINE g == answer[1]
           n == answer[2]
           closed == {w \in waiters[g] : w <= n}
<1>1. g \in Groups /\ n \in 1 .. MaxSeq /\ n <= homeSeq[g]
  BY DEF Ack, TypeOK, Tickets, Ordered
<1>2. /\ answer' = <<>>
      /\ UNCHANGED <<issued, calls, latest, wake, force, timer, delay, backingOff, run,
                     cancelled, lifetime, timing, batch, failed, flush, goal, homeSeq>>
  BY DEF Ack
<1>3. CASE n > acked[g]
  <2>1. /\ acked' = [acked EXCEPT ![g] = n]
        /\ done' = done \union {<<g, w>> : w \in closed}
        /\ waiters' = [waiters EXCEPT ![g] = @ \ closed]
    BY <1>3 DEF Ack
  <2>2. closed \subseteq 1 .. MaxSeq BY <1>1 DEF TypeOK
  <2>3. TypeOK'
    <3>1. acked' \in [Groups -> 0 .. MaxSeq] BY <1>1, <2>1 DEF TypeOK
    <3>2. waiters' \in [Groups -> SUBSET (1 .. MaxSeq)] BY <1>1, <2>1 DEF TypeOK
    <3>3. done' \subseteq Tickets BY <1>1, <2>1, <2>2 DEF TypeOK, Tickets
    <3> QED BY <1>2, <3>1, <3>2, <3>3 DEF TypeOK
  <2>4. Ordered'
    <3>1. \A h \in Groups : acked'[h] <= homeSeq[h] BY <1>1, <2>1 DEF Ordered, TypeOK
    <3> QED BY <1>2, <3>1 DEF Ordered
  <2>5. TicketMeansKnown'
    <3>1. \A w \in closed : w <= homeSeq[g] BY <1>1, <2>2 DEF TypeOK
    <3> QED BY <1>2, <2>1, <3>1 DEF TicketMeansKnown
  <2>6. NoStrandedTicket'
    <3> SUFFICES ASSUME NEW h \in Groups, NEW m \in waiters'[h]
                 PROVE  acked'[h] < m /\ m <= latest[h]
      BY <1>2 DEF NoStrandedTicket
    <3>1. CASE h = g BY <1>1, <2>1, <3>1 DEF NoStrandedTicket, TypeOK
    <3>2. CASE h # g BY <1>1, <2>1, <3>2 DEF NoStrandedTicket, TypeOK
    <3> QED BY <3>1, <3>2
  <2>7. FlushedMeansKnown' BY <1>2 DEF FlushedMeansKnown
  <2> QED BY <2>3, <2>4, <2>5, <2>6, <2>7
<1>4. CASE ~(n > acked[g])
  <2>1. UNCHANGED <<acked, done, waiters>> BY <1>4 DEF Ack
  <2> QED BY <1>2, <2>1
          DEF TypeOK, Ordered, TicketMeansKnown, NoStrandedTicket, FlushedMeansKnown
<1> QED BY <1>3, <1>4

\* The loop's other steps: they take a batch from the recorded sequences and
\* choose the next delay.
LEMMA RunIInv ==
  ASSUME IInv, RunExit \/ RunWake \/ RunTimer \/ RunForce \/ EndFlush
  PROVE  IInv'
<1> USE DEF IInv, registryVars, stateVars, batchVars, flushVars
<1>1. CASE RunExit \/ RunWake
  <2>1. /\ run' \in {"stopped", "select", "flushing"} /\ timer' \in BOOLEAN /\ wake' \in BOOLEAN
        /\ UNCHANGED <<registryVars, stateVars, force, delay, backingOff, cancelled, lifetime,
                       timing, batchVars, flushVars, homeSeq>>
    BY <1>1 DEF RunExit, RunWake, TypeOK
  <2>2. TypeOK' BY <2>1 DEF TypeOK
  <2>3. Ordered' BY <2>1 DEF Ordered
  <2>4. TicketMeansKnown' /\ NoStrandedTicket' /\ FlushedMeansKnown'
    BY <2>1 DEF TicketMeansKnown, NoStrandedTicket, FlushedMeansKnown
  <2> QED BY <2>2, <2>3, <2>4
<1>2. CASE RunTimer \/ RunForce
  <2>1. /\ batch' = [h \in Groups |-> IF Dirty(h) THEN latest[h] ELSE 0]
        /\ run' = "flushing" /\ failed' = FALSE
        /\ timer' \in BOOLEAN /\ force' \in BOOLEAN
        /\ UNCHANGED <<registryVars, stateVars, wake, delay, backingOff, cancelled, lifetime,
                       timing, answer, flushVars, homeSeq>>
    BY <1>2 DEF RunTimer, RunForce, beginFlush, TypeOK
  <2>2. batch' \in [Groups -> 0 .. MaxSeq] /\ \A h \in Groups : batch'[h] <= latest[h]
    <3>1. 0 \in 0 .. MaxSeq BY BoundsAssumption
    <3>2. \A h \in Groups : latest[h] \in 0 .. MaxSeq BY DEF TypeOK
    <3>3. \A h \in Groups : 0 <= latest[h] /\ latest[h] <= latest[h] BY <3>2
    <3> HIDE DEF IInv
    <3> QED BY <2>1, <3>1, <3>2, <3>3
  <2>3. TypeOK' BY <2>1, <2>2 DEF TypeOK
  <2> QED BY <2>1, <2>2, <2>3
          DEF Ordered, TicketMeansKnown, NoStrandedTicket, FlushedMeansKnown
<1>3. CASE EndFlush
  <2>1. delay' \in Nat /\ \E x \in Timings : delay' <= x[2]
    BY <1>3, DelayBounded DEF EndFlush, TypeOK
  <2>2. TypeOK' BY <1>3, <2>1 DEF EndFlush, TypeOK
  <2> QED BY <1>3, <2>2
          DEF EndFlush, Ordered, TicketMeansKnown, NoStrandedTicket, FlushedMeansKnown
<1> QED BY <1>1, <1>2, <1>3

\* The registry's releases, the subscriber's lifetimes and the Flush caller.
LEMMA CallerIInv ==
  ASSUME IInv,
         \/ \E g \in Groups : Release(g)
         \/ \E x \in Timings : StartRun(x) \/ Reconfigure(x)
         \/ CancelRun \/ Flush \/ FlushPoll \/ FlushExpire
  PROVE  IInv'
<1> USE DEF IInv
<1>1. ASSUME NEW g \in Groups, Release(g) PROVE IInv'
  <2> USE <1>1 DEF Release, stateVars, runVars, batchVars, flushVars
  <2>0. issued[g] \in 0 .. MaxSeq /\ issued[g] < MaxSeq
    <3>1. Releases[g] \in 0 .. MaxSeq BY BoundsAssumption
    <3>2. issued[g] \in 0 .. MaxSeq BY DEF TypeOK
    <3> QED BY <3>1, <3>2, BoundsAssumption
  <2>1. issued' \in [Groups -> 0 .. MaxSeq] /\ \A h \in Groups : issued[h] <= issued'[h]
    BY <2>0, BoundsAssumption, SMTT(60) DEF TypeOK
  <2>2. issued[g] + 1 \in 1 .. MaxSeq /\ issued'[g] = issued[g] + 1
    BY <2>0, BoundsAssumption DEF TypeOK
  <2>3. TypeOK'
    <3>1. calls' \subseteq Tickets BY <2>2 DEF TypeOK, Tickets
    <3> QED BY <2>1, <3>1, SMTT(60) DEF TypeOK
  <2>4. Ordered'
    <3>1. \A h \in Groups : latest[h] <= issued'[h]
      BY <2>1 DEF Ordered, TypeOK
    <3>2. \A x \in calls' : x[2] <= issued'[x[1]]
      <4> SUFFICES ASSUME NEW x \in calls' PROVE x[2] <= issued'[x[1]] OBVIOUS
      <4>1. CASE x \in calls BY <2>1, <4>1, SMTT(60) DEF Ordered, TypeOK, Tickets
      <4>2. CASE x = <<g, issued[g] + 1>> BY <2>2, <4>2
      <4> QED BY <4>1, <4>2
    <3> QED BY <3>1, <3>2 DEF Ordered
  <2> QED BY <2>3, <2>4 DEF TicketMeansKnown, NoStrandedTicket, FlushedMeansKnown
<1>2. ASSUME NEW x \in Timings, StartRun(x) \/ Reconfigure(x) PROVE IInv'
  <2>1. x[1] \in Nat /\ x[1] <= x[2] BY DelayBounded
  <2>2. TypeOK'
    <3>1. CASE Reconfigure(x)
      BY <3>1 DEF Reconfigure, TypeOK, registryVars, stateVars, batchVars, flushVars
    <3>2. CASE StartRun(x)
      <4>1. delay' \in Nat /\ \E y \in Timings : delay' <= y[2] BY <2>1, <3>2 DEF StartRun
      <4>2. lifetime' \in 0 .. MaxLifetimes BY <3>2, BoundsAssumption DEF StartRun, TypeOK
      <4> QED BY <3>2, <4>1, <4>2
              DEF StartRun, TypeOK, registryVars, stateVars, batchVars, flushVars
    <3> QED BY <1>2, <3>1, <3>2
  <2> QED BY <1>2, <2>2 DEF StartRun, Reconfigure, registryVars, stateVars, batchVars,
             flushVars, Ordered, TicketMeansKnown, NoStrandedTicket, FlushedMeansKnown
<1>3. CASE CancelRun
  BY <1>3 DEF CancelRun, TypeOK, registryVars, stateVars, batchVars, flushVars, Ordered,
              TicketMeansKnown, NoStrandedTicket, FlushedMeansKnown
<1>6. CASE FlushExpire
  BY <1>6 DEF FlushExpire, TypeOK, registryVars, stateVars, runVars, batchVars,
              flushVars, Ordered, TicketMeansKnown, NoStrandedTicket, FlushedMeansKnown
<1>4. CASE Flush
  <2>1. TypeOK'
    BY <1>4 DEF Flush, TypeOK, registryVars, stateVars, runVars, batchVars
  <2>2. Ordered'
    BY <1>4 DEF Flush, TypeOK, registryVars, stateVars, runVars, batchVars, Ordered
  <2> QED BY <1>4, <2>1, <2>2 DEF Flush, stateVars, TicketMeansKnown, NoStrandedTicket,
             FlushedMeansKnown
<1>5. CASE FlushPoll
  <2>1. TypeOK' /\ Ordered'
    BY <1>5 DEF FlushPoll, TypeOK, Ordered, registryVars, stateVars, runVars, batchVars
  <2>2. \A h \in Groups : goal[h] <= homeSeq[h]
    BY <1>5 DEF FlushPoll, idle, Dirty, Ordered, TypeOK
  <2> QED BY <1>5, <2>1, <2>2 DEF FlushPoll, stateVars, TicketMeansKnown, NoStrandedTicket,
             FlushedMeansKnown
<1> QED BY <1>1, <1>2, <1>3, <1>4, <1>5, <1>6

\* Every step preserves the invariant.
LEMMA NextIInv == IInv /\ [Next]_vars => IInv'
<1> SUFFICES ASSUME IInv, [Next]_vars PROVE IInv' OBVIOUS
<1>1. CASE UNCHANGED vars
  BY <1>1 DEF vars, registryVars, stateVars, runVars, batchVars, flushVars, IInv, TypeOK,
              Ordered, TicketMeansKnown, NoStrandedTicket, FlushedMeansKnown
<1>2. CASE Next
  BY <1>2, CallerIInv, MarkDirtyIInv, SendIInv, AckIInv, RunIInv DEF Next, RunStep
<1> QED BY <1>1, <1>2

\* The chain, the types and the three promises hold in every reachable state.
THEOREM FlusherInvariance == Spec => []IInv
BY InitIInv, NextIInv, PTL DEF Spec

\* The fields of the flusher keep their types and the delay its bound.
THEOREM FlusherTypeCorrect == Spec => []TypeOK
<1>1. IInv => TypeOK BY DEF IInv
<1> QED BY <1>1, FlusherInvariance, PTL

\* A ticket that MarkDirty or flush completed is known to Home.
THEOREM TicketMeansKnownHolds == Spec => []TicketMeansKnown
<1>1. IInv => TicketMeansKnown BY DEF IInv
<1> QED BY <1>1, FlusherInvariance, PTL

\* No waiter is left below Acked, where no later flush would close it.
THEOREM NoStrandedTicketHolds == Spec => []NoStrandedTicket
<1>1. IInv => NoStrandedTicket BY DEF IInv
<1> QED BY <1>1, FlusherInvariance, PTL

\* Flush returns nil only when Home knows all that was dirty at the call.
THEOREM FlushedMeansKnownHolds == Spec => []FlushedMeansKnown
<1>1. IInv => FlushedMeansKnown BY DEF IInv
<1> QED BY <1>1, FlusherInvariance, PTL

-----------------------------------------------------------------------------
(***************************************************************************)
(* Refinement.                                                             *)
(***************************************************************************)

\* A step of the flusher is a step of the accounting, or leaves it unchanged.
LEMMA StepRefines == IInv /\ [Next]_vars => [Accounting!Next]_(Accounting!vars)
<1> SUFFICES ASSUME IInv, [Next]_vars PROVE [Accounting!Next]_(Accounting!vars) OBVIOUS
<1> USE DEF Accounting!vars, Accounting!Next
<1>1. ASSUME NEW g \in Groups, Release(g) PROVE Accounting!End(g)
  BY <1>1 DEF Release, stateVars, Accounting!End
<1>2. ASSUME NEW g \in Groups, NEW n \in 1 .. MaxSeq, MarkDirty(g, n)
      PROVE  Accounting!Confirm \/ UNCHANGED <<issued, homeSeq, done>>
  <2>1. CASE n <= acked[g]
    <3>1. n <= homeSeq[g] BY <2>1 DEF IInv, Ordered, TypeOK
    <3>2. done' = done \union {<<g, n>>} /\ UNCHANGED <<issued, homeSeq>>
      BY <1>2, <2>1 DEF MarkDirty
    <3> QED BY <3>1, <3>2 DEF Accounting!Confirm
  <2>2. CASE ~(n <= acked[g]) BY <1>2, <2>2 DEF MarkDirty
  <2> QED BY <2>1, <2>2
<1>3. ASSUME NEW g \in Groups, SendOk(g) \/ SendError(g)
      PROVE  Accounting!Learn(g) \/ UNCHANGED <<issued, homeSeq, done>>
  <2>1. UNCHANGED <<issued, done>> /\ (Accept(g, batch[g]) \/ UNCHANGED homeSeq)
    BY <1>3 DEF SendOk, SendError, registryVars, stateVars
  <2>2. batch[g] \in 1 .. MaxSeq
    BY <1>3 DEF SendOk, SendError, IInv, TypeOK
  <2>3. batch[g] <= issued[g] BY DEF IInv, Ordered, TypeOK
  <2>4. CASE Accept(g, batch[g]) /\ batch[g] > homeSeq[g]
    <3>1. homeSeq' = [homeSeq EXCEPT ![g] = batch[g]] BY <2>4 DEF Accept
    <3>2. homeSeq[g] < batch[g] BY <2>2, <2>4 DEF IInv, TypeOK
    <3> QED BY <2>1, <2>2, <2>3, <3>1, <3>2 DEF Accounting!Learn
  <2>5. CASE Accept(g, batch[g]) /\ ~(batch[g] > homeSeq[g])
    <3>1. homeSeq' = homeSeq BY <2>5 DEF Accept, IInv, TypeOK
    <3> QED BY <2>1, <3>1
  <2> QED BY <2>1, <2>4, <2>5
<1>4. CASE Ack
  <2>1. /\ answer[1] \in Groups /\ answer[2] \in 1 .. MaxSeq
        /\ answer[2] <= homeSeq[answer[1]]
    BY <1>4 DEF Ack, IInv, TypeOK, Tickets, Ordered
  <2>2. UNCHANGED <<issued, homeSeq>> BY <1>4 DEF Ack, registryVars
  <2>3. done \subseteq done' BY <1>4 DEF Ack
  <2>4. \A x \in done' \ done : x \in Groups \X (1 .. MaxSeq) /\ x[2] <= homeSeq[x[1]]
    <3> SUFFICES ASSUME NEW x \in done' \ done
                 PROVE  x \in Groups \X (1 .. MaxSeq) /\ x[2] <= homeSeq[x[1]]
      OBVIOUS
    <3>1. PICK w \in waiters[answer[1]] : w <= answer[2] /\ x = <<answer[1], w>>
      BY <1>4 DEF Ack
    <3> QED BY <2>1, <3>1 DEF IInv, TypeOK
  <2> QED BY <2>2, <2>3, <2>4 DEF Accounting!Confirm
<1>5. CASE \/ RunExit \/ RunWake \/ RunTimer \/ RunForce \/ EndFlush
           \/ \E x \in Timings : StartRun(x) \/ Reconfigure(x)
           \/ CancelRun \/ Flush \/ FlushPoll \/ FlushExpire
  BY <1>5 DEF RunExit, RunWake, RunTimer, RunForce, EndFlush, StartRun, Reconfigure,
              CancelRun, Flush, FlushPoll, FlushExpire, registryVars, stateVars
<1>6. CASE UNCHANGED vars BY <1>6 DEF vars, registryVars, stateVars
<1> QED BY <1>1, <1>2, <1>3, <1>4, <1>5, <1>6 DEF Next, RunStep

\* The flusher implements the cumulative accounting: Home never counts a release
\* that did not happen, and no owner is told before Home counts it.
THEOREM ImplementsAccountingHolds == Spec => ImplementsAccounting
<1>1. Init => Accounting!Init BY DEF Init, NothingToSend, Accounting!Init
<1> QED BY <1>1, StepRefines, FlusherInvariance, PTL
        DEF Spec, ImplementsAccounting, Accounting!Spec
=============================================================================
