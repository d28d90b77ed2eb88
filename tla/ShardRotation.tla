----------------------------- MODULE ShardRotation -----------------------------
(***************************************************************************)
(* ModelShard with the history that its round-robin rotation is judged by: *)
(* how often each ready credential was passed over since the shard last    *)
(* changed.                                                                *)
(***************************************************************************)
EXTENDS ModelShard

VARIABLE passed  \* whole-shard round-robin picks since a credential's turn

rotationVars == <<vars, passed>>

NonePassed == [i \in Ids |-> 0]

RotationInit ==
  /\ Init
  /\ passed = NonePassed

\* Unrestricted requests on an unchanged shard make up a round.
WholeRound(r) ==
  /\ r.strategy = "roundRobin" /\ r.allowed = Ids /\ ~r.ws
  /\ entries' = entries

RoundRobinPick(r) ==
  /\ r.strategy = "roundRobin"
  /\ pick(r)
  /\ last'.kind = "auth"
  /\ LET peers == ReadySet(entries', entries'[last'.id].auth.prio, FALSE)
     IN  passed' = IF WholeRound(r)
                   THEN [i \in Ids |-> IF i \in peers \ {last'.id} THEN passed[i] + 1 ELSE 0]
                   ELSE NonePassed

\* Every other step: a change of the shard starts a new round.
OtherStep ==
  /\ \/ \E i \in Ids, a \in Snapshots : upsert(i, a)
     \/ \E i \in Ids : remove(i)
     \/ \E r \in Requests : pick(r) /\ ~(r.strategy = "roundRobin" /\ last'.kind = "auth")
     \/ Tick
  /\ passed' = NonePassed

RotationNext == (\E r \in Requests : RoundRobinPick(r)) \/ OtherStep

RotationSpec == RotationInit /\ [][RotationNext]_rotationVars

-----------------------------------------------------------------------------
\* As long as the shard does not change, unrestricted round-robin picks pass
\* over no ready credential of the priority for a whole round: pickRoundRobin
\* leaves the cursor behind the credential it returns.
RotationCoversAll ==
  \A i \in Ids : passed[i] > 0 =>
    passed[i] < Cardinality(ReadySet(entries, entries[i].auth.prio, FALSE))
=============================================================================
