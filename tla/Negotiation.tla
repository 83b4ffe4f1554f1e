------------------------------ MODULE Negotiation ------------------------------
(***************************************************************************)
(* A client and the server session that serves it, joined by one TCP       *)
(* connection.  What the session writes (out) is what the client reads;    *)
(* what the client writes (up) is read by the run loop of ServerMaster,    *)
(* which gives it to distribute().                                         *)
(*                                                                         *)
(* The connection is reliable and ordered.  A whole PDU is written or read *)
(* at a time.  The session's side of it is closed by close_tcp(); what the *)
(* run loop reads once the client has closed its side is left out.         *)
(***************************************************************************)
EXTENDS ServerSession, FiniteSets

CONSTANTS LoopCounts, MaxGarbage

ASSUME ClientAssumption ==
    /\ LoopCounts \subseteq uint8 \ {0}
    /\ MaxGarbage \in Nat

VARIABLES call, cpc, msg, written, lastTopOptions, config, rtnval, garbage,
          up

CN == INSTANCE ClientNego WITH
        inbox <- out, outbox <- up, open <- pc \notin {"clear", "done"}

client == <<call, cpc, msg, written, lastTopOptions, config, rtnval, garbage>>

server == <<cur_state, idle_check, q, pc, c, last_content, reply, round,
            waiter, ender>>

nvars == <<vars, client, up>>

NInit ==
    /\ Init
    /\ CN!ClientInit
    /\ up = <<>>

NTypeOK == TypeOK /\ CN!ClientTypeOK

-----------------------------------------------------------------------------
\* The application calls negotiate or synchronize.
Call ==
    /\ UNCHANGED server
    /\ \E value \in Values : CN!negotiate(value) \/ CN!synchronize(value)

ClientSteps ==
    /\ UNCHANGED server
    /\ CN!ClientThread

\* Mutant: a session whose object is already deleted is still found.
DistributeToDeleted ==
    /\ up # <<>>
    /\ up' = Tail(up)
    /\ LET m == Head(up) IN
       \/ m.type = "REQUEST_MSG" /\ Construct(m)
       \/ /\ m.type # "REQUEST_MSG"
          /\ q' = Append(q, m)
          /\ UNCHANGED <<cur_state, idle_check, pc, c, last_content, reply,
                         round, waiter, ender, out>>
    /\ UNCHANGED client

(***************************************************************************)
(* The master's run loop reads the next PDU and distribute() looks its     *)
(* session up: a REQUEST_MSG starts the session, any other PDU goes into   *)
(* its queue, and a PDU for no session is dropped.                         *)
(***************************************************************************)
Distribute ==
    /\ up # <<>>
    /\ up' = Tail(up)
    /\ LET m == Head(up) IN
       \/ m.type = "REQUEST_MSG" /\ Construct(m)
       \/ m.type # "REQUEST_MSG" /\ Push(m)
       \/ ~Alive /\ m.type # "REQUEST_MSG" /\ UNCHANGED vars
    /\ UNCHANGED client

ServerSteps ==
    /\ \/ RunSleep
       \/ SessionThread
       \/ \E r \in Rounds : WaitThread(r) \/ EndThread(r)
    /\ UNCHANGED <<client, up>>

\* The client has returned and the session is cleared or waits for more.
Quiet ==
    /\ cpc = "done" /\ up = <<>>
    /\ UNCHANGED nvars

NNext == Call \/ ClientSteps \/ Distribute \/ ServerSteps \/ Quiet

NSpec == NInit /\ [][NNext]_nvars

(***************************************************************************)
(* The threads of both processes keep running, both ASAs return, and no    *)
(* process dies (a write to a connection the peer has closed raises        *)
(* SIGPIPE, which nothing in the code ignores).                            *)
(***************************************************************************)
NFairness ==
    /\ WF_nvars(ClientSteps)
    /\ WF_nvars(Distribute)
    /\ WF_nvars(SessionThread /\ UNCHANGED <<client, up>>)
    /\ \A r \in Rounds :
         /\ WF_nvars(WaitThread(r) /\ UNCHANGED <<client, up>>)
         /\ WF_nvars(EndThread(r) /\ UNCHANGED <<client, up>>)

NFairSpec == NSpec /\ NFairness

-----------------------------------------------------------------------------
(* What holds.                                                             *)

IsProposal(m) == m.type \in {"REQUEST_MSG", "NEGO_MSG"}

AllOpen(s) == \A i \in DOMAIN s : IsProposal(s[i]) => s[i].loop > 0

\* Every proposal on its way, in either direction, has a round left: the
\* session never decrements a loop count of 0 (a uint8_t would turn it into
\* 255 and the negotiation would go on), even when the client acts on a read
\* that failed.
RoundsLeft == AllOpen(up) /\ AllOpen(q) /\ AllOpen(out)

\* The session has a proposal in hand and has not written its answer.
Answering == pc \in {"set_state", "mark", "spawn", "branch", "upper", "send",
                     "write"}

NotWait(m) == m.type # "WAIT_MSG"

\* How many PDUs of s are not WAIT_MSGs.
Acting(s) == Cardinality({i \in DOMAIN s : NotWait(s[i])})

\* The client has a PDU in hand that ends the negotiation or asks for another.
Handling == cpc = "handle" /\ NotWait(msg)

One(busy) == IF busy THEN 1 ELSE 0

\* The PDUs, other than WAIT_MSG, that some side still has to act on.
InPlay == Len(up) + Len(q) + Acting(out) + One(Answering) + One(Handling)

\* The two sides take turns: as long as the client has not acted on a failed
\* read, at most one PDU of the negotiation is in play.
TakesTurns == garbage = 0 => InPlay <= 1

\* What the session has proposed last or, when it accepted, what it accepted.
AgreedValue == IF reply.opt \in {"Accept", "Decline"} THEN c.value
                                                      ELSE reply.value

\* The client has acted on no failed read, and a synchronization has not
\* failed (it configures its buffer all the same).
Believable == garbage = 0 /\ (call = "synchronize" => rtnval = "SUCCESS")

\* The client configures no other value of this negotiation than the one the
\* session has agreed to, whichever side ended it and whatever WAIT_MSGs,
\* timeouts and failed writes came in between.
Agreement == Believable => config \subseteq {NoValue, AgreedValue}

-----------------------------------------------------------------------------
(* The dialogue the two sides hold.                                        *)

Returned == cpc \in {"return", "done"}

PDUs(s) == {s[i] : i \in DOMAIN s}

\* All the connection carries are WAIT_MSGs.
Silent == \A m \in PDUs(out) : ~NotWait(m)

\* The session has a PDU of the client to act on; the client one of the
\* session.
ToSession == up # <<>> \/ q # <<>> \/ Answering
ToClient == ~Silent \/ Handling

Turn ==
    IF ~Believable THEN "over"
    ELSE IF cpc \in {"off", "request"} THEN "start"
    ELSE IF ~Returned /\ ToSession THEN "session"
    ELSE IF ~Returned /\ ToClient /\ reply.opt # "Decline"
      THEN IF reply.type = "NEGO_MSG" THEN "client" ELSE "result"
    ELSE IF cpc = "return" /\ call = "synchronize" THEN "result"
    ELSE "over"

OnTheTable ==
    CASE Turn = "session" -> written.value
      [] Turn \in {"client", "result"} -> AgreedValue
      [] OTHER -> NoValue

Left ==
    CASE Turn = "session" -> written.loop
      [] Turn = "client" -> reply.loop
      [] OTHER -> 0

Configured == IF Believable THEN config \ {NoValue} ELSE {}

DL == INSTANCE Dialogue WITH
        kind <- call, turn <- Turn, value <- OnTheTable, left <- Left,
        outcome <- Configured

\* Through losses, WAIT_MSGs, timeouts, refused and repeated messages, client
\* and session hold one dialogue: they propose in turn, the session answers
\* each proposal at most once and about the value it was sent, and once a
\* value is configured or the dialogue is lost nothing reopens it.
HoldsDialogue == DL!DSpec

\* The session, seen alone, is a ServerSession whose client sends what
\* FirstMsgs and ClientMsgs say.
ServesAsSpecified == Spec

\* An ending sent by the client clears the session away.
EndingClearsSession ==
    (\E i \in DOMAIN up : up[i].type = "NEGO_END_MSG") ~> (pc = "done")

-----------------------------------------------------------------------------
(* What the comments and documents say, and the code does not do.          *)

\* README.md:39 "do configuration by using negotiation result": only values
\* of this negotiation are configured.
ConfiguresResult == garbage = 0 => NoValue \notin config

=============================================================================
