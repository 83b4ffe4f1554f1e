--------------------------- MODULE MCClientDiscovery ---------------------------
(***************************************************************************)
(* Servers that answer with anything the client distinguishes, and servers *)
(* like ServerMaster, which answer with a locator only.                    *)
(***************************************************************************)
EXTENDS ClientDiscovery

Kind(type, opt) == [type |-> type, opt |-> opt]

MCLocator == {Kind("RESPONSE_MSG", "Locator")}

MCReplies ==
    MCLocator
      \cup {Kind("RESPONSE_MSG", "Divert"), Kind("WAIT_MSG", "Waiting_time"),
            Kind("NEGO_END_MSG", "Decline"), Kind("REQUEST_MSG", "Negotiation"),
            Kind("bad", "Divert")}

=============================================================================
