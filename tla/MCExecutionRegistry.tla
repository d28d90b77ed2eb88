------------------------- MODULE MCExecutionRegistry -------------------------
(***************************************************************************)
(* Small instances of ExecutionRegistry.                                   *)
(***************************************************************************)
EXTENDS ExecutionRegistry

CONSTANTS t1, t2, s1, g1

ThreadSet == {t1, t2}
SinkSet == {s1}
GroupSet == {g1}
=============================================================================
