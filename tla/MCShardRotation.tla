---------------------------- MODULE MCShardRotation ----------------------------
(***************************************************************************)
(* Small instances of ShardRotation.                                       *)
(***************************************************************************)
EXTENDS ShardRotation

TwoIds == 1 .. 2
TwoPriorities == {1, 2}
EitherTransport == BOOLEAN

\* [block, until, cred]: free, disabled, paused with and without an end, for
\* the whole credential, and that with a longer pause of the model behind it.
\* Ends are reached, and passed, as time goes on.
Conditions ==
  {<<"none", 0, 0>>, <<"disabled", 0, 0>>, <<"quota", 2, 0>>, <<"failed", 0, 0>>,
   <<"failed", 1, 0>>, <<"none", 0, 1>>, <<"quota", 2, 1>>, <<"failed", 2, 1>>}

WsConditions == {<<"none", 0, 0>>, <<"quota", 2, 0>>, <<"quota", 2, 1>>}

\* Websocket credentials have the lower priority, so that preferring them shows.
SomeSnapshots ==
  {a \in Auths : IF a.ws THEN <<a.block, a.until, a.cred>> \in WsConditions /\ a.prio = 1
                 ELSE <<a.block, a.until, a.cred>> \in Conditions}
=============================================================================
