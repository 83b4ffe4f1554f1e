---------------------------- MODULE MCNegotiation ----------------------------
(***************************************************************************)
(* One client and one session.  negotiate() starts with a loop count of 5; *)
(* 2 and 3 let either side use the count up in few rounds.  FirstMsgs and  *)
(* ClientMsgs are what this client can send: counts go down in steps of    *)
(* two, and a client that decodes its own PDU, or a cleared buffer, after  *)
(* the connection has ended can send 254 or 255 as well.                   *)
(***************************************************************************)
EXTENDS Negotiation

CONSTANTS v1, v2

MCValues == {v1}
MCTwoValues == {v1, v2}

MCLoopCounts == {2, 3, 5}
MCFewLoopCounts == {2, 5}
MCLoopCountsOfTheCode == {5}

MCFirstMsgs ==
    {Objective("REQUEST_MSG", "Negotiation", loop, v) :
       loop \in LoopCounts, v \in Values}
      \cup {Objective("REQUEST_MSG", "Synchronization", 1, v) : v \in Values}

MCClientMsgs ==
    {Objective("NEGO_MSG", "Negotiation", loop, v) :
       loop \in {1, 2, 3, 254, 255}, v \in Values}
      \cup {Plain("NEGO_END_MSG", "Accept"), Plain("NEGO_END_MSG", "Decline")}

=============================================================================
