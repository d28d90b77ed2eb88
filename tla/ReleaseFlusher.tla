---------------------------- MODULE ReleaseFlusher ----------------------------
(***************************************************************************)
(* The release flusher: internal/home/concurrency_release.go.              *)
(*                                                                         *)
(* The execution registry hands the flusher cumulative release sequences   *)
(* (MarkDirty) from many goroutines, outside its lock, so a group may see  *)
(* 2 before 1.  One Run goroutine per Home connection sends the latest     *)
(* sequence of every dirty group and completes the tickets that the        *)
(* acknowledged sequence covers.  Run is cancelled and joined before the   *)
(* next connection's sender is installed; the flusher outlives both.       *)
(***************************************************************************)
EXTENDS Integers, FiniteSets

CONSTANTS Groups,       \* credential/model pairs
          MaxSeq,       \* bound on the sequences of a group
          Releases,     \* bound on the releases of each group
          MaxLifetimes, \* bound on the number of Home connections
          Timings       \* <<flushInterval, maxBackoff>> pairs Home may configure

ASSUME BoundsAssumption ==
          /\ MaxSeq \in Nat /\ MaxLifetimes \in Nat
          /\ Releases \in [Groups -> 0 .. MaxSeq]

\* timings() guarantees 0 < flushInterval <= maxBackoff.
ASSUME TimingsAssumption ==
          /\ Timings \subseteq Nat \X Nat
          /\ \A x \in Timings : 0 < x[1] /\ x[1] <= x[2]

Tickets == Groups \X (1 .. MaxSeq)

VARIABLES
  issued,     \* registry: releaseSequences
  calls,      \* MarkDirty calls the registry has under way
  latest, acked, waiters,  \* releaseState of each group
  done,       \* tickets whose channel is closed
  wake, force,             \* the buffered channels, capacity one
  timing,     \* the limiter configuration in force
  timer,      \* Run's timer is armed
  delay, backingOff,
  run,        \* Run: stopped, select, flushing
  cancelled,  \* releaseCancel was called
  lifetime,   \* Home connections so far
  batch,      \* sequences the current flush has yet to send, 0 for none
  answer,     \* the frame Home just accepted: <<group, sequence>>, or <<>>
  failed,     \* some send of the current flush failed
  flush,      \* the caller of Flush: idle, waiting, returned, expired
  goal,       \* history: latest when Flush was called
  homeSeq     \* Home: highest sequence it has accepted

registryVars == <<issued, calls>>
stateVars == <<latest, acked, waiters, done>>
runVars == <<timer, delay, backingOff, run, cancelled, lifetime, timing>>
batchVars == <<batch, answer, failed>>
flushVars == <<flush, goal>>
vars == <<registryVars, stateVars, wake, force, runVars, batchVars, flushVars, homeSeq>>

NothingToSend == [g \in Groups |-> 0]

Init ==
  /\ issued = NothingToSend
  /\ calls = {}
  /\ latest = NothingToSend
  /\ acked = NothingToSend
  /\ waiters = [g \in Groups |-> {}]
  /\ done = {}
  /\ wake = FALSE
  /\ force = FALSE
  /\ timing \in Timings
  /\ timer = FALSE
  /\ delay = timing[1]
  /\ backingOff = FALSE
  /\ run = "stopped"
  /\ cancelled = FALSE
  /\ lifetime = 0
  /\ batch = NothingToSend
  /\ answer = <<>>
  /\ failed = FALSE
  /\ flush = "idle"
  /\ goal = NothingToSend
  /\ homeSeq = NothingToSend

-----------------------------------------------------------------------------
(***************************************************************************)
(* The registry: markReleasedLocked issues the next sequence and the sink  *)
(* is called later, in any order.                                          *)
(***************************************************************************)
Release(g) ==
  /\ issued[g] < Releases[g]
  /\ issued' = [issued EXCEPT ![g] = @ + 1]
  /\ calls' = calls \union {<<g, issued[g] + 1>>}
  /\ UNCHANGED <<stateVars, wake, force, runVars, batchVars, flushVars, homeSeq>>

\* Faulty variant: a sequence that is already acknowledged waits as well.
MarkDirtyAlwaysWaits(g, n) ==
  /\ <<g, n>> \in calls
  /\ calls' = calls \ {<<g, n>>}
  /\ waiters' = [waiters EXCEPT ![g] = @ \union {n}]
  /\ latest' = [latest EXCEPT ![g] = IF n > @ THEN n ELSE @]
  /\ wake' = TRUE
  /\ UNCHANGED <<issued, acked, done, force, runVars, batchVars, flushVars, homeSeq>>

MarkDirty(g, n) ==
  /\ <<g, n>> \in calls
  /\ calls' = calls \ {<<g, n>>}
  /\ IF n <= acked[g]
     THEN /\ done' = done \union {<<g, n>>}
          /\ UNCHANGED <<latest, waiters>>
     ELSE /\ waiters' = [waiters EXCEPT ![g] = @ \union {n}]
          /\ latest' = [latest EXCEPT ![g] = IF n > @ THEN n ELSE @]
          /\ UNCHANGED done
  /\ wake' = TRUE
  /\ UNCHANGED <<issued, acked, force, runVars, batchVars, flushVars, homeSeq>>

-----------------------------------------------------------------------------
(***************************************************************************)
(* Lifetimes.  The subscriber installs configuration and sender, which     *)
(* signals, and starts Run; later it cancels Run and waits for it.         *)
(***************************************************************************)
StartRun(x) ==
  /\ run = "stopped"
  /\ lifetime < MaxLifetimes
  /\ lifetime' = lifetime + 1
  /\ timing' = x
  /\ delay' = x[1]
  /\ backingOff' = FALSE
  /\ timer' = TRUE
  /\ wake' = TRUE
  /\ run' = "select"
  /\ cancelled' = FALSE
  /\ UNCHANGED <<registryVars, stateVars, force, batchVars, flushVars, homeSeq>>

\* Only a subscriber that will connect again cancels without a Flush.
CancelRun ==
  /\ run # "stopped"
  /\ ~cancelled
  /\ lifetime < MaxLifetimes
  /\ cancelled' = TRUE
  /\ UNCHANGED <<registryVars, stateVars, wake, force, timer, delay, backingOff, run,
                 lifetime, timing, batchVars, flushVars, homeSeq>>

RunExit ==
  /\ run = "select"
  /\ cancelled
  /\ run' = "stopped"
  /\ timer' = FALSE
  /\ UNCHANGED <<registryVars, stateVars, wake, force, delay, backingOff, cancelled,
                 lifetime, timing, batchVars, flushVars, homeSeq>>

\* SetLifecycleConfig during a lifetime: timings() reads it when next called.
Reconfigure(x) ==
  /\ run # "stopped"
  /\ timing' = x
  /\ UNCHANGED <<registryVars, stateVars, wake, force, timer, delay, backingOff, run,
                 cancelled, lifetime, batchVars, flushVars, homeSeq>>

-----------------------------------------------------------------------------
(***************************************************************************)
(* The select loop of Run and flush.  A wake while backing off only drains *)
(* the channel: the armed timer will flush.                                *)
(***************************************************************************)
RunWake ==
  /\ run = "select"
  /\ wake
  /\ wake' = FALSE
  /\ timer' = (timer \/ ~backingOff)
  /\ UNCHANGED <<registryVars, stateVars, force, delay, backingOff, run, cancelled,
                 lifetime, timing, batchVars, flushVars, homeSeq>>

Dirty(g) == latest[g] > acked[g]

beginFlush ==
  /\ run' = "flushing"
  /\ batch' = [g \in Groups |-> IF Dirty(g) THEN latest[g] ELSE 0]
  /\ failed' = FALSE

RunTimer ==
  /\ run = "select"
  /\ timer
  /\ timer' = FALSE
  /\ beginFlush
  /\ UNCHANGED <<registryVars, stateVars, wake, force, delay, backingOff, cancelled,
                 lifetime, timing, answer, flushVars, homeSeq>>

RunForce ==
  /\ run = "select"
  /\ force
  /\ force' = FALSE
  /\ timer' = TRUE
  /\ beginFlush
  /\ UNCHANGED <<registryVars, stateVars, wake, delay, backingOff, cancelled,
                 lifetime, timing, answer, flushVars, homeSeq>>

\* External: Home keeps the highest sequence of a group.
Accept(g, n) == homeSeq' = [homeSeq EXCEPT ![g] = IF n > @ THEN n ELSE @]

SendOk(g) ==
  /\ run = "flushing"
  /\ answer = <<>>
  /\ batch[g] > 0
  /\ Accept(g, batch[g])
  /\ answer' = <<g, batch[g]>>
  /\ batch' = [batch EXCEPT ![g] = 0]
  /\ UNCHANGED <<registryVars, stateVars, wake, force, runVars, failed, flushVars>>

\* The frame is lost (homeSeq unchanged), or accepted while the answer is lost.
SendError(g) ==
  /\ run = "flushing"
  /\ answer = <<>>
  /\ batch[g] > 0
  /\ \/ Accept(g, batch[g])
     \/ UNCHANGED homeSeq
  /\ batch' = [batch EXCEPT ![g] = 0]
  /\ failed' = TRUE
  /\ UNCHANGED <<registryVars, stateVars, wake, force, runVars, answer, flushVars>>

\* Faulty variant: acknowledges what became dirty while the frame was sent.
AckLatest ==
  /\ answer # <<>>
  /\ LET g == answer[1]
     IN  /\ acked' = [acked EXCEPT ![g] = latest[g]]
         /\ done' = done \union {<<g, w>> : w \in waiters[g]}
         /\ waiters' = [waiters EXCEPT ![g] = {}]
  /\ answer' = <<>>
  /\ UNCHANGED <<registryVars, latest, wake, force, runVars, batch, failed, flushVars,
                 homeSeq>>

Ack ==
  /\ answer # <<>>
  /\ LET g == answer[1]
         n == answer[2]
         closed == {w \in waiters[g] : w <= n}
     IN  IF n > acked[g]
         THEN /\ acked' = [acked EXCEPT ![g] = n]
              /\ done' = done \union {<<g, w>> : w \in closed}
              /\ waiters' = [waiters EXCEPT ![g] = @ \ closed]
         ELSE UNCHANGED <<acked, done, waiters>>
  /\ answer' = <<>>
  /\ UNCHANGED <<registryVars, latest, wake, force, runVars, batch, failed, flushVars,
                 homeSeq>>

\* Faulty variant: the doubled delay is not clamped to maxBackoff.
nextDelayUnbounded(d, x) == IF 2 * d < x[1] THEN x[1] ELSE 2 * d

nextDelay(d, x) ==
  LET doubled == IF 2 * d < x[1] THEN x[1] ELSE 2 * d
  IN  IF doubled > x[2] THEN x[2] ELSE doubled

\* Faulty variant: the timer is not armed again after a failure.
EndFlushUnarmed ==
  /\ run = "flushing"
  /\ answer = <<>>
  /\ \A g \in Groups : batch[g] = 0
  /\ delay' = IF failed THEN nextDelay(delay, timing) ELSE timing[1]
  /\ backingOff' = failed
  /\ timer' = ~failed
  /\ run' = "select"
  /\ UNCHANGED <<registryVars, stateVars, wake, force, cancelled, lifetime, timing,
                 batchVars, flushVars, homeSeq>>

EndFlush ==
  /\ run = "flushing"
  /\ answer = <<>>
  /\ \A g \in Groups : batch[g] = 0
  /\ delay' = IF failed THEN nextDelay(delay, timing) ELSE timing[1]
  /\ backingOff' = failed
  /\ timer' = TRUE
  /\ run' = "select"
  /\ UNCHANGED <<registryVars, stateVars, wake, force, cancelled, lifetime, timing,
                 batchVars, flushVars, homeSeq>>

-----------------------------------------------------------------------------
(***************************************************************************)
(* Flush, called once the registry has drained.                            *)
(***************************************************************************)
\* Faulty variant: content when the current flush has nothing left to send.
idleOnceSent == \A g \in Groups : batch[g] = 0

idle == \A g \in Groups : ~Dirty(g)

Flush ==
  /\ flush = "idle"
  /\ flush' = "waiting"
  /\ goal' = latest
  /\ force' = TRUE
  /\ UNCHANGED <<registryVars, stateVars, wake, runVars, batchVars, homeSeq>>

FlushPoll ==
  /\ flush = "waiting"
  /\ idle
  /\ flush' = "returned"
  /\ UNCHANGED <<registryVars, stateVars, wake, force, runVars, batchVars, goal, homeSeq>>

FlushExpire ==
  /\ flush = "waiting"
  /\ flush' = "expired"
  /\ UNCHANGED <<registryVars, stateVars, wake, force, runVars, batchVars, goal, homeSeq>>

-----------------------------------------------------------------------------
RunStep ==
  \/ RunExit \/ RunWake \/ RunTimer \/ RunForce
  \/ \E g \in Groups : SendOk(g) \/ SendError(g)
  \/ Ack \/ EndFlush

Next ==
  \/ \E g \in Groups : Release(g)
  \/ \E g \in Groups, n \in 1 .. MaxSeq : MarkDirty(g, n)
  \/ \E x \in Timings : StartRun(x) \/ Reconfigure(x)
  \/ CancelRun
  \/ RunStep
  \/ Flush \/ FlushPoll \/ FlushExpire

Spec == Init /\ [][Next]_vars

(***************************************************************************)
(* Fairness.  Sink calls are made, the subscriber reconnects, the loop and *)
(* its timer run, and Home cannot refuse a group's frame for ever: a frame *)
(* sent again and again is accepted once.                                  *)
(***************************************************************************)
Fairness ==
  /\ \A g \in Groups, n \in 1 .. MaxSeq : WF_vars(MarkDirty(g, n))
  /\ WF_vars(\E x \in Timings : StartRun(x))
  /\ WF_vars(RunExit)
  /\ WF_vars(RunTimer \/ RunForce)
  /\ WF_vars(RunWake)
  /\ WF_vars(\E g \in Groups : SendOk(g) \/ SendError(g))
  /\ \A g \in Groups : SF_vars(SendOk(g))
  /\ WF_vars(Ack)
  /\ WF_vars(EndFlush)
  /\ WF_vars(FlushPoll)

FairSpec == Spec /\ Fairness

-----------------------------------------------------------------------------
(***************************************************************************)
(* Properties.                                                             *)
(***************************************************************************)

\* The types of the flusher's fields; the retry delay never leaves the range
\* nextDelay clamps it to, whatever configurations it lived through.
TypeOK ==
  /\ issued \in [Groups -> 0 .. MaxSeq]
  /\ calls \subseteq Tickets
  /\ latest \in [Groups -> 0 .. MaxSeq]
  /\ acked \in [Groups -> 0 .. MaxSeq]
  /\ waiters \in [Groups -> SUBSET (1 .. MaxSeq)]
  /\ done \subseteq Tickets
  /\ wake \in BOOLEAN
  /\ force \in BOOLEAN
  /\ timing \in Timings
  /\ timer \in BOOLEAN
  /\ delay \in Nat /\ \E x \in Timings : delay <= x[2]
  /\ backingOff \in BOOLEAN
  /\ run \in {"stopped", "select", "flushing"}
  /\ cancelled \in BOOLEAN
  /\ lifetime \in 0 .. MaxLifetimes
  /\ batch \in [Groups -> 0 .. MaxSeq]
  /\ answer \in Tickets \union {<<>>}
  /\ failed \in BOOLEAN
  /\ flush \in {"idle", "waiting", "returned", "expired"}
  /\ goal \in [Groups -> 0 .. MaxSeq]
  /\ homeSeq \in [Groups -> 0 .. MaxSeq]

\* A completed ticket is a promise about Home: when MarkDirty or flush closes
\* the channel of sequence n, Home has accepted n or a later sequence, even if
\* the group became dirty again while the frame was on its way.
TicketMeansKnown == \A x \in done : x[2] <= homeSeq[x[1]]

\* No ticket is stranded: flush closes waiters only when Acked advances, so a
\* waiter at or below Acked, or above Latest, would wait for ever.
NoStrandedTicket ==
  \A g \in Groups : \A n \in waiters[g] : acked[g] < n /\ n <= latest[g]

\* A Flush that returned nil has brought Home up to everything that was dirty
\* when it was called; the subscriber then drops the connection for good.
FlushedMeansKnown ==
  flush = "returned" => \A g \in Groups : goal[g] <= homeSeq[g]

\* Every release reaches Home and completes its ticket, across lost frames,
\* lost answers, back-off, swallowed wakes and reconnections: again and again
\* all that was issued so far is done (releases are finitely many and a ticket
\* stays done, so this says it of each release).
TicketsComplete ==
  []<>(\A g \in Groups : \A n \in 1 .. issued[g] : <<g, n>> \in done)

\* Sequences, frames and tickets implement the cumulative accounting that the
\* registry and Home rely on.
Accounting == INSTANCE ReleaseAccounting
                WITH released <- issued, known <- homeSeq, confirmed <- done

\* Every step of MarkDirty, Run, flush and Flush is a step of that accounting.
ImplementsAccounting == Accounting!Spec
=============================================================================
