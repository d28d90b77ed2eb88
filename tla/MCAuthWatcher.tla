---------------------------- MODULE MCAuthWatcher ----------------------------
(***************************************************************************)
(* Small instances of AuthWatcher.                                         *)
(***************************************************************************)
EXTENDS AuthWatcher

CONSTANTS f1, k1, c1

\* An edit that removes a key, changes the exclusions and forces a refresh, and
\* one that does not parse.
KeyListed == [keys |-> {k1}, excluded |-> "some", retry |-> 0, loads |-> TRUE]
KeyRemoved == [keys |-> {}, excluded |-> "other", retry |-> 1, loads |-> TRUE]
Unparsable == [keys |-> {}, excluded |-> "other", retry |-> 0, loads |-> FALSE]
ThreeConfigs == {KeyListed, KeyRemoved, Unparsable}
=============================================================================
