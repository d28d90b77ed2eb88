----------------------------- MODULE MCAutoRefresh -----------------------------
(***************************************************************************)
(* Small instances of AutoRefresh.                                         *)
(***************************************************************************)
EXTENDS AutoRefresh

CONSTANTS c1, w1, q1, u1

OneCredential == {c1}
OneWorker == {w1}
OneRequest == {q1}
OneWriter == {u1}
MostKinds == {"disable", "reload", "login", "remove"}
=============================================================================
