--------------------------------- MODULE Gdnp ---------------------------------
(***************************************************************************)
(* The vocabulary every GDNP component shares: message types, option types *)
(* and the PDU contents that travel on the TCP connection and sit in the   *)
(* processing queue of a server session (msg.h, Option.h,                  *)
(* common_structs.h).                                                      *)
(*                                                                         *)
(* A PDU body is an option rendered as 16-bit words: the option type, the  *)
(* length, for an objective option the loop count and flag packed in one   *)
(* word, then the value.  The model keeps the fields and drops the layout, *)
(* except where the layout decides the behaviour (Key below).              *)
(***************************************************************************)
EXTENDS Naturals

CONSTANTS
    Values,     \* the values an objective can take in a negotiation
    NoValue     \* the empty value: an option of length 0 yields ""

ASSUME NoValueAssumption == NoValue \notin Values

MSG_TYPE == {"DISCOVERY_MSG", "RESPONSE_MSG", "REQUEST_MSG", "NEGO_MSG",
             "NEGO_END_MSG", "WAIT_MSG"}

option_type == {"Divert", "Accept", "Decline", "Waiting_time", "Locator",
                "Discovery", "Negotiation", "Synchronization"}

uint8 == 0 .. 255

Content == [type : MSG_TYPE, opt : option_type, loop : uint8,
            value : Values \cup {NoValue}]

\* An objective option (Negotiation, Synchronization) inside a message.
Objective(type, opt, loop, value) ==
    [type |-> type, opt |-> opt, loop |-> loop, value |-> value]

\* A plain option of length 0 (Accept, Decline) or whose payload the model
\* does not read (Waiting_time).
Plain(type, opt) == Objective(type, opt, 0, NoValue)

\* Mutant: the int is stored without narrowing.
NotNarrowed(loop) == loop - 1

(***************************************************************************)
(* set_loop_count takes a uint8_t, so the int get_loop_count() - 1 is      *)
(* narrowed to eight bits: 0 becomes 255.                                  *)
(***************************************************************************)
Decremented(loop) == (loop + 255) % 256

(***************************************************************************)
(* What operator== and operator= of struct content see of a message.  They *)
(* use strcmp and strcpy on the binary body.  The body starts with the     *)
(* 16-bit option type, which is below 8: on a little-endian host its       *)
(* second byte is 0 and ends the "string", so the body counts only through *)
(* its option type.                                                        *)
(***************************************************************************)
Key(m) == <<m.type, m.opt>>

\* An uninitialised struct content that equals no message.
GarbageKey == <<"garbage", "garbage">>

Keys == (MSG_TYPE \X option_type) \cup {GarbageKey}

=============================================================================
