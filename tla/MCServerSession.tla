---------------------------- MODULE MCServerSession ----------------------------
(***************************************************************************)
(* A session fed by a client that may send any of the message kinds        *)
(* distribute() lets through, in any order: a further proposal, one whose  *)
(* loop count is used up, an ending, and a message type the session does   *)
(* not accept.                                                             *)
(***************************************************************************)
EXTENDS ServerSession

CONSTANTS v1, v2

MCValues == {v1}

\* Client::negotiate starts with loop_count 5, Client::synchronize with 1.
MCFirstMsgs ==
    {Objective("REQUEST_MSG", "Negotiation", 5, v1),
     Objective("REQUEST_MSG", "Synchronization", 1, v1)}

MCClientMsgs ==
    {Objective("NEGO_MSG", "Negotiation", 3, v1),
     Objective("NEGO_MSG", "Negotiation", 0, v1),
     Plain("NEGO_END_MSG", "Accept"),
     Plain("WAIT_MSG", "Waiting_time")}

\* One request and two proposals that differ in their value only: the
\* instance the message filter is checked on.
MCTwoValues == {v1, v2}

MCOneFirstMsg == {Objective("REQUEST_MSG", "Negotiation", 5, v1)}

MCProposals ==
    {Objective("NEGO_MSG", "Negotiation", 3, v1),
     Objective("NEGO_MSG", "Negotiation", 1, v2)}

=============================================================================
