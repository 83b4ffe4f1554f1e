---------------------------- MODULE ClientDiscovery ----------------------------
(***************************************************************************)
(* Client::discover and the state machine behind it (Client.cpp,           *)
(* Client_fsm_funcs.cpp), for one Client whose application calls discover  *)
(* again and again, against servers that answer over UDP.                  *)
(*                                                                         *)
(* Datagrams are lost, delayed, repeated and reordered: net is a set from  *)
(* which any member may be delivered or none, and a server that has been   *)
(* asked may answer again (a repeated datagram, the answer to a resent     *)
(* DISCOVERY_MSG and the answer of a second server look the same).         *)
(***************************************************************************)
EXTENDS Naturals

INSTANCE Gdnp WITH Values <- {}, NoValue <- "none"

CONSTANTS
    Replies,        \* what a server may answer: message type and option type
    MaxCalls,       \* bound: calls of discover()
    MaxReplies,     \* bound: answers sent
    MAX_TRY_TIMES

\* "bad" is a datagram whose type decode() does not know.
Kinds == [type : MSG_TYPE \cup {"bad"}, opt : option_type]

ASSUME DiscoveryAssumption ==
    /\ Replies \subseteq Kinds
    /\ MaxCalls \in Nat
    /\ MaxReplies \in Nat
    /\ MAX_TRY_TIMES \in Nat

VARIABLES
    cur_states,     \* state of the client
    try_times,      \* DISCOVERY_MSGs sent again in this call
    session_id,     \* id of this call
    negoAddr,       \* the address negotiate() will use
    pc,             \* where discover() is
    got,            \* kind of the datagram received last: buffer and type
    rtnval,         \* what recv() returns
    result,         \* what discover() returned last
    calls,          \* calls of discover() so far
    sent,           \* DISCOVERY_MSGs this call has tried to send
    asked,          \* ids of the requests that have reached a server
    net,            \* datagrams on their way to the client's socket
    replies         \* answers sent so far

client == <<cur_states, try_times, session_id, negoAddr, pc, got, rtnval,
            result, calls, sent>>

network == <<asked, net, replies>>

dvars == <<client, network>>

client_states == {"OFF", "WAIT_RESPONSE", "WAIT", "INFORMED", "END", "NEGOING"}

Ids == 0 .. MaxCalls

NoKind == [type |-> "bad", opt |-> "Divert"]

DTypeOK ==
    /\ cur_states \in client_states
    /\ try_times \in 0 .. MAX_TRY_TIMES
    /\ session_id \in Ids
    /\ negoAddr \in {"multicast", "server"}
    /\ pc \in {"idle", "send", "recv", "recv_wait", "return"}
    /\ got \in Kinds
    /\ rtnval \in {"SUCCESS", "ERROR"}
    /\ result \in {"none", "SUCCESS", "ERROR"}
    /\ calls \in Ids
    /\ sent \in Nat
    /\ asked \subseteq Ids
    /\ net \subseteq [id : Ids, kind : Kinds]
    /\ replies \in 0 .. MaxReplies

\* The constructor.  A client that has not negotiated is never NEGOING.
DInit ==
    /\ cur_states = "OFF"
    /\ try_times = 0
    /\ session_id = 0
    /\ negoAddr = "multicast"
    /\ pc = "idle"
    /\ got = NoKind
    /\ rtnval = "SUCCESS"
    /\ result = "none"
    /\ calls = 0
    /\ sent = 0
    /\ asked = {}
    /\ net = {}
    /\ replies = 0

-----------------------------------------------------------------------------
(* discover(): the call and the first request.                             *)

(***************************************************************************)
(* A socket and a session id.  generate_random is seeded with the time in  *)
(* seconds, so the id may be that of the call before; the new socket may   *)
(* get the port of the one closed, and with it what is still on its way.   *)
(***************************************************************************)
NewCall ==
    /\ pc = "idle"
    /\ calls < MaxCalls
    /\ calls' = calls + 1
    /\ session_id' \in {session_id, calls + 1}
    /\ session_id' # 0
    /\ sent' = 0
    /\ \/ UNCHANGED <<asked, net>>
       \/ asked' = {} /\ net' = {}
    /\ UNCHANGED <<cur_states, try_times, negoAddr, got, rtnval, replies>>

discover ==
    /\ NewCall
    /\ cur_states = "OFF"
    /\ pc' = "send"
    /\ UNCHANGED result

\* send() refuses in WAIT and END (and fails in INFORMED and NEGOING).
discoverRefused ==
    /\ NewCall
    /\ cur_states # "OFF"
    /\ result' = "ERROR"
    /\ UNCHANGED pc

\* The DISCOVERY_MSG goes out; whether a server gets it is another matter.
Multicast ==
    /\ sent' = sent + 1
    /\ asked' \in {asked, asked \cup {session_id}}

(***************************************************************************)
(* send() in OFF.  On ADDR_ERR send_discover binds another port and tries  *)
(* again, which changes nothing here.                                      *)
(***************************************************************************)
send ==
    /\ pc = "send"
    /\ Multicast
    /\ cur_states' = "WAIT_RESPONSE"
    /\ pc' = "recv"
    /\ UNCHANGED <<try_times, session_id, negoAddr, got, rtnval, result,
                   calls, net, replies>>

sendFails ==
    /\ pc = "send"
    /\ result' = "ERROR"
    /\ pc' = "idle"
    /\ UNCHANGED <<cur_states, try_times, session_id, negoAddr, got, rtnval,
                   calls, sent, network>>

-----------------------------------------------------------------------------
(* recv() and the functions of its states.                                 *)

\* recv_in_time: a datagram is there and recv_pdu decodes it.
Receive(d) ==
    /\ d \in net
    /\ net' = net \ {d}
    /\ got' = d.kind
    /\ UNCHANGED <<try_times, session_id, negoAddr, result, calls, sent,
                   asked, replies>>

\* recv_in_time returns SUCCESS, with a message of this type.
OfType(d, types) == d.id = session_id /\ d.kind.type \in types

\* RESPONSE_MSG and NEGO_END_MSG end the receiving in either state.
Ending == {"RESPONSE_MSG", "NEGO_END_MSG"}

AnswerStates ==
    /\ cur_states' = IF got'.type = "RESPONSE_MSG" THEN "INFORMED" ELSE "END"
    /\ rtnval' = "SUCCESS"
    /\ pc' = "return"

\* Anything else than an answer or a WAIT_MSG is an error, and the loop in
\* recv() goes on: the state is still WAIT_RESPONSE.
recv_in_WAIT_RESPONSE(d) ==
    /\ pc = "recv"
    /\ Receive(d)
    /\ \/ OfType(d, Ending) /\ AnswerStates
       \/ /\ OfType(d, {"WAIT_MSG"})
          /\ cur_states' = "WAIT"
          /\ pc' = "recv_wait"
          /\ UNCHANGED rtnval
       \/ /\ ~OfType(d, Ending \cup {"WAIT_MSG"})
          /\ UNCHANGED <<cur_states, rtnval, pc>>

\* Here an error is returned through recv(), and the loop in the outer recv()
\* ends because the state is WAIT.
recv_in_WAIT(d) ==
    /\ pc = "recv_wait"
    /\ Receive(d)
    /\ \/ OfType(d, Ending) /\ AnswerStates
       \/ /\ OfType(d, {"WAIT_MSG"})
          /\ UNCHANGED <<cur_states, rtnval, pc>>
       \/ /\ ~OfType(d, Ending \cup {"WAIT_MSG"})
          /\ rtnval' = "ERROR"
          /\ pc' = "return"
          /\ UNCHANGED cur_states

\* Mutant: requests are sent again without limit.
ResendUnbounded ==
    /\ pc = "recv"
    /\ Multicast
    /\ try_times' = try_times + 1
    /\ UNCHANGED <<cur_states, session_id, negoAddr, pc, got, rtnval, result,
                   calls, net, replies>>

\* TIMEOUT in WAIT_RESPONSE: send() sends again while tries are left.  What
\* send_discover returns is overwritten by the next receive.
Resend ==
    /\ pc = "recv"
    /\ try_times < MAX_TRY_TIMES
    /\ Multicast
    /\ try_times' = try_times + 1
    /\ UNCHANGED <<cur_states, session_id, negoAddr, pc, got, rtnval, result,
                   calls, net, replies>>

\* Mutant: a timeout in WAIT starts the timer again.
GiveUpInWaitResponse ==
    /\ pc = "recv" /\ try_times >= MAX_TRY_TIMES
    /\ cur_states' = "END"
    /\ rtnval' = "ERROR"
    /\ pc' = "return"
    /\ UNCHANGED <<try_times, session_id, negoAddr, got, result, calls, sent,
                   network>>

\* Mutant: the last try is given away.
GiveUpEarly ==
    /\ \/ pc = "recv" /\ try_times + 1 >= MAX_TRY_TIMES
       \/ pc = "recv_wait"
    /\ cur_states' = "END"
    /\ rtnval' = "ERROR"
    /\ pc' = "return"
    /\ UNCHANGED <<try_times, session_id, negoAddr, got, result, calls, sent,
                   network>>

\* The tries are used up, or WAIT has timed out.
GiveUp ==
    /\ \/ pc = "recv" /\ try_times >= MAX_TRY_TIMES
       \/ pc = "recv_wait"
    /\ cur_states' = "END"
    /\ rtnval' = "ERROR"
    /\ pc' = "return"
    /\ UNCHANGED <<try_times, session_id, negoAddr, got, result, calls, sent,
                   network>>

-----------------------------------------------------------------------------
\* Mutant: recv() returns without reset_try_times.
returnWithoutReset ==
    /\ pc = "return"
    /\ pc' = "idle"
    /\ cur_states' = IF rtnval = "SUCCESS" THEN "OFF" ELSE cur_states
    /\ result' = "SUCCESS"
    /\ UNCHANGED <<try_times, session_id, negoAddr, got, rtnval, calls, sent,
                   network>>

\* Mutant: discover() leaves the state recv() has set.
returnKeepsState ==
    /\ pc = "return"
    /\ try_times' = 0
    /\ pc' = "idle"
    /\ result' = "SUCCESS"
    /\ UNCHANGED <<cur_states, session_id, negoAddr, got, rtnval, calls, sent,
                   network>>

\* reset_try_times at the end of recv(), then the rest of discover(): only a
\* successful recv() brings the state back to OFF, and a failed one is
\* reported as SUCCESS.
return ==
    /\ pc = "return"
    /\ try_times' = 0
    /\ pc' = "idle"
    /\ \/ /\ rtnval = "SUCCESS"
          /\ cur_states' = "OFF"
          /\ \/ /\ got = [type |-> "RESPONSE_MSG", opt |-> "Locator"]
                /\ negoAddr' = "server"
                /\ result' = "SUCCESS"
             \/ /\ got.type = "RESPONSE_MSG" /\ got.opt # "Locator"
                /\ result' = "ERROR"
                /\ UNCHANGED negoAddr
             \/ /\ got.type # "RESPONSE_MSG"
                /\ result' = "SUCCESS"
                /\ UNCHANGED negoAddr
       \/ /\ rtnval # "SUCCESS"
          /\ result' = "SUCCESS"
          /\ UNCHANGED <<cur_states, negoAddr>>
    /\ UNCHANGED <<session_id, got, rtnval, calls, sent, network>>

-----------------------------------------------------------------------------
\* A server answers a request that has reached it, now or again.
Answer(id, kind) ==
    /\ replies < MaxReplies
    /\ net' = net \cup {[id |-> id, kind |-> kind]}
    /\ replies' = replies + 1
    /\ UNCHANGED <<client, asked>>

\* The application has made its calls.
Over ==
    /\ pc = "idle" /\ calls = MaxCalls
    /\ UNCHANGED dvars

Timeouts == Resend \/ GiveUp

DNext ==
    \/ discover \/ discoverRefused
    \/ send \/ sendFails
    \/ \E d \in net : recv_in_WAIT_RESPONSE(d) \/ recv_in_WAIT(d)
    \/ Timeouts
    \/ return
    \/ \E id \in asked, kind \in Replies : Answer(id, kind)
    \/ Over

DSpec == DInit /\ [][DNext]_dvars

(***************************************************************************)
(* The client's thread runs, select's timeout expires (or something        *)
(* arrives first), and a free port is found in the end.  Nothing is        *)
(* assumed of the network.                                                 *)
(***************************************************************************)
DFairSpec ==
    /\ DSpec
    /\ WF_dvars(send \/ sendFails)
    /\ WF_dvars(Timeouts)
    /\ WF_dvars(return)

-----------------------------------------------------------------------------
(* What holds.                                                             *)

\* While the client waits for a response, try_times counts the requests this
\* call has sent again, whatever datagrams came in and however earlier calls
\* ended: a call asks 1 + MAX_TRY_TIMES times before it gives up, no less and
\* no more.
TriesCounted ==
    /\ pc = "recv" => sent = try_times + 1
    /\ sent <= MAX_TRY_TIMES + 1

\* Between two calls the client is never left in WAIT_RESPONSE, INFORMED or
\* NEGOING, where the next send() would resend without asking or return an
\* unassigned value, and it has all its tries.
BetweenCalls ==
    pc = "idle" => cur_states \in {"OFF", "WAIT", "END"} /\ try_times = 0

\* The calls of discover(), seen as a Discovery.
Stage ==
    CASE pc = "recv" -> "asking"
      [] pc = "recv_wait" -> "waiting"
      [] pc = "return" /\ rtnval = "SUCCESS" -> "answered"
      [] pc \in {"idle", "send"} /\ cur_states = "OFF" -> "ready"
      [] OTHER -> "failed"

DS == INSTANCE Discovery WITH
        stage <- Stage,
        requests <- IF Stage = "asking" THEN sent ELSE 0,
        heard <- session_id \in asked,
        known <- negoAddr = "server"

\* Through lost, late, foreign and repeated datagrams and timeouts in every
\* order: a call gives up only after all its tries, it ends or waits at the
\* word of nobody who was not asked, and after a call that has given up the
\* client never asks again.
DiscoversAsSpecified == DS!ASpec

\* Every call of discover() returns, as answers are bounded.
DiscoverReturns == (pc # "idle") ~> (pc = "idle")

-----------------------------------------------------------------------------
(* What the comments say, and the code does not do.                        *)

\* main_client_demo.cpp:12 "afte discover , negotiate or synchronize": after
\* a discover() that returned SUCCESS the client can negotiate: it is OFF and
\* has an address.
ReadyAfterDiscover ==
    pc = "idle" /\ result = "SUCCESS"
      => cur_states = "OFF" /\ negoAddr = "server"

=============================================================================
