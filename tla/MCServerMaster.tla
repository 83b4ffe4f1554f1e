---------------------------- MODULE MCServerMaster ----------------------------
(***************************************************************************)
(* The run loop with two or three clients.  With two ids each client may   *)
(* choose the other's; with one id they always collide, as they do when    *)
(* they start in the same second (msg.cpp:132-136).                        *)
(***************************************************************************)
EXTENDS ServerMaster

CONSTANTS id1, id2

MCOneId == {id1}

MCTwoIds == {id1, id2}

=============================================================================
