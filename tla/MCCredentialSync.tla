--------------------------- MODULE MCCredentialSync ---------------------------
(***************************************************************************)
(* Small instances of CredentialSync.                                      *)
(***************************************************************************)
EXTENDS CredentialSync

OneId == {1}
OnePriority == {1}
HttpOnly == {FALSE}

\* Success, and quota failures of the model or of the whole credential.
Outcome(block, wide) == [block |-> block, wide |-> wide]
SuccessAndQuotas == {Outcome("none", FALSE), Outcome("quota", FALSE), Outcome("quota", TRUE)}

\* A request for any credential, and one that has tried them all.
FillFirst(ids) == [allowed |-> ids, ws |-> FALSE, strategy |-> "fillFirst"]
AllOrNone == {FillFirst(Ids), FillFirst({})}
=============================================================================
