--------------------------- MODULE MCUsagePipeline ---------------------------
(***************************************************************************)
(* Small instances of UsagePipeline.                                       *)
(***************************************************************************)
EXTENDS UsagePipeline

CONSTANTS r1, r2, s1, f1

TwoRecords == {r1, r2}
OneSubscriber == {s1}
OneForwarder == {f1}
=============================================================================
