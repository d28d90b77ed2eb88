-------------------------- MODULE ReleaseAccounting --------------------------
(***************************************************************************)
(* What the release pipeline promises, without connections or retries:     *)
(* Home's count of a group's releases only grows and never runs ahead of   *)
(* the executions that ended, and a ticket is confirmed only once Home's   *)
(* count covers it.  ReleaseFlusher implements this.                       *)
(***************************************************************************)
EXTENDS Integers

CONSTANTS Groups, MaxSeq

VARIABLES released,  \* executions of each group that ended so far
          known,     \* the count Home has accepted
          confirmed  \* tickets <<group, sequence>> whose owner was told

vars == <<released, known, confirmed>>

Init ==
  /\ released = [g \in Groups |-> 0]
  /\ known = [g \in Groups |-> 0]
  /\ confirmed = {}

End(g) ==
  /\ released' = [released EXCEPT ![g] = @ + 1]
  /\ UNCHANGED <<known, confirmed>>

\* Counts are cumulative, so Home may learn several releases at once.
Learn(g) ==
  /\ \E n \in 1 .. MaxSeq : /\ known[g] < n
                            /\ n <= released[g]
                            /\ known' = [known EXCEPT ![g] = n]
  /\ UNCHANGED <<released, confirmed>>

Confirm ==
  /\ confirmed \subseteq confirmed'
  /\ \A x \in confirmed' \ confirmed :
       /\ x \in Groups \X (1 .. MaxSeq)
       /\ x[2] <= known[x[1]]
  /\ UNCHANGED <<released, known>>

Next == (\E g \in Groups : End(g) \/ Learn(g)) \/ Confirm

Spec == Init /\ [][Next]_vars
=============================================================================
