-------------------------- MODULE MCReleaseFlusher --------------------------
(***************************************************************************)
(* Small instances of ReleaseFlusher.                                      *)
(***************************************************************************)
EXTENDS ReleaseFlusher

CONSTANTS g1, g2

TwoGroups == {g1, g2}

\* One group becomes dirty again while a flush of both is under way.
TwoAndOne == [g \in TwoGroups |-> IF g = g1 THEN 2 ELSE 1]

\* A pair with room to double, and a shorter one to shrink to.
TwoTimings == {<<1, 3>>, <<1, 1>>}
=============================================================================
