------------------------- MODULE MCCredentialCooldown -------------------------
(***************************************************************************)
(* A small instance of CredentialCooldown.                                 *)
(***************************************************************************)
EXTENDS CredentialCooldown

Failure(kind, after, force, scope) ==
  [kind |-> kind, after |-> after, force |-> force, scope |-> scope]

SomeFailures ==
  {Failure("quota", 0, FALSE, FALSE), Failure("quota", 3, FALSE, FALSE),
   Failure("quota", 0, FALSE, TRUE), Failure("transient", 0, FALSE, FALSE),
   Failure("transient", 0, TRUE, FALSE), Failure("unauthorized", 0, FALSE, FALSE),
   Failure("unsupported", 0, FALSE, FALSE), Failure("cloudflare", 0, FALSE, FALSE)}
=============================================================================
