------------------------------ MODULE MCWsRelay ------------------------------
(***************************************************************************)
(* Small instances of WsRelay.                                             *)
(***************************************************************************)
EXTENDS WsRelay

CONSTANT r1

OneRequest == {r1}
=============================================================================
