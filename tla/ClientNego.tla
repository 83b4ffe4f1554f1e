------------------------------ MODULE ClientNego ------------------------------
(***************************************************************************)
(* The client's side of one TCP negotiation: Client::negotiate with the    *)
(* thread it starts, or Client::synchronize, which runs the same exchange  *)
(* in the caller (Client_TCP.cpp).                                         *)
(*                                                                         *)
(* do_negotiate calls itself for every PDU; each level returns what the    *)
(* next one returned, so the recursion is the loop read - handle - read.   *)
(*                                                                         *)
(* A read can fail in two ways, and both leave locals unwritten:           *)
(*   - the receive timeout expires: type, buffer and actual_session_id     *)
(*     keep what they hold; the latter is uninitialised at the first read  *)
(*     of a level, so it may or may not equal session_id;                  *)
(*   - the server has closed the connection: read returns 0 bytes and the  *)
(*     uninitialised pdu_buf is decoded all the same.                      *)
(*                                                                         *)
(* The server is any peer that fills inbox, drains outbox and may close    *)
(* the connection.                                                         *)
(***************************************************************************)
EXTENDS Gdnp, Sequences

CONSTANTS
    LoopCounts,     \* the loop counts (bytes above 0) negotiate() may start
                    \* with; the code has {5}
    MaxGarbage      \* bound: failed reads acted upon as if they succeeded

VARIABLES
    call,           \* the entry point called
    cpc,            \* where the negotiating thread is
    msg,            \* buffer and type: the PDU in hand
    written,        \* the last PDU given to write_pdu
    lastTopOptions, \* the value of the option stored for "Accept"
    config,         \* the values passed to do_configuration
    rtnval,         \* what the calls in progress will return
    garbage,        \* number of failed reads acted upon
    inbox,          \* PDUs from the server, not yet read
    outbox,         \* PDUs to the server, not yet taken by it
    open            \* FALSE once the server has closed the connection

client == <<call, cpc, msg, written, lastTopOptions, config, rtnval, garbage>>

cvars == <<client, inbox, outbox, open>>

ClientPCs == {"off", "request", "read", "reread", "wait_read", "handle",
              "return", "done"}

Nothing == [type |-> "none", opt |-> "none", loop |-> 0, value |-> NoValue]

ClientTypeOK ==
    /\ call \in {"none", "negotiate", "synchronize"}
    /\ cpc \in ClientPCs
    /\ msg \in Content \cup {Nothing}
    /\ written \in Content \cup {Nothing}
    /\ lastTopOptions \in Values \cup {NoValue}
    /\ config \subseteq Values \cup {NoValue}
    /\ rtnval \in {"SUCCESS", "ERROR"}
    /\ garbage \in 0 .. MaxGarbage
    /\ inbox \in Seq(Content)
    /\ outbox \in Seq(Content)
    /\ open \in BOOLEAN

\* lastTopOptions is not initialised by the constructor, and discover()
\* leaves the discovery option in it: NoValue stands for what it holds before
\* this negotiation has stored a value of its own.
ClientInit ==
    /\ call = "none"
    /\ cpc = "off"
    /\ msg = Nothing
    /\ written = Nothing
    /\ lastTopOptions = NoValue
    /\ config = {}
    /\ rtnval = "SUCCESS"
    /\ garbage = 0

-----------------------------------------------------------------------------
(* Starting: negotiate(), synchronize(), send_tcp, send_negotiate.         *)

\* The REQUEST_MSG an entry point puts together, with its loop count.
Start(entry, opt, loop, value) ==
    /\ cpc = "off"
    /\ cpc' = "request"
    /\ call' = entry
    /\ msg' = Objective("REQUEST_MSG", opt, loop, value)
    /\ UNCHANGED <<written, lastTopOptions, config, rtnval, garbage, inbox,
                   outbox, open>>

negotiate(value) ==
    \E loop \in LoopCounts : Start("negotiate", "Negotiation", loop, value)

synchronize(value) == Start("synchronize", "Synchronization", 1, value)

\* client_tcp_init reports SUCCESS even when connect failed; the write that
\* follows fails then, as it may for other reasons.  (A loop count of 0 would
\* return ERROR before the write; neither entry point sets it.)
SendRequest ==
    /\ cpc = "request"
    /\ msg.loop # 0
    /\ written' = msg
    /\ \/ /\ outbox' = Append(outbox, msg)
          /\ cpc' = "read"
          /\ UNCHANGED rtnval
       \/ /\ rtnval' = "ERROR"
          /\ cpc' = "return"
          /\ UNCHANGED outbox
    /\ UNCHANGED <<call, msg, lastTopOptions, config, garbage, inbox, open>>

-----------------------------------------------------------------------------
(* Reading.                                                                *)

Reading == {"read", "reread", "wait_read"}

Read ==
    /\ cpc \in Reading
    /\ inbox # <<>>
    /\ msg' = Head(inbox)
    /\ inbox' = Tail(inbox)
    /\ cpc' = "handle"
    /\ UNCHANGED <<call, written, lastTopOptions, config, rtnval,
                   garbage, outbox, open>>

\* What follows a read that has not assigned actual_session_id.
Unassigned ==
    \/ /\ cpc = "read"          \* it happens to equal session_id
       /\ garbage < MaxGarbage
       /\ garbage' = garbage + 1
       /\ cpc' = "handle"
       /\ UNCHANGED rtnval
    \/ /\ cpc \in {"read", "reread"}    \* it does not: read again
       /\ cpc' = "reread"
       /\ UNCHANGED <<rtnval, garbage>>
    \/ /\ cpc = "wait_read"     \* the only level that tests rtnval
       /\ cpc' = "return"
       /\ rtnval' = "ERROR"
       /\ UNCHANGED garbage

\* SO_RCVTIMEO expires: RECV_ERR.
ReadTimesOut ==
    /\ cpc \in Reading
    /\ inbox = <<>> /\ open
    /\ Unassigned
    /\ UNCHANGED <<call, msg, written, lastTopOptions, config, inbox,
                   outbox, open>>

\* End of file, and the bytes on the stack carry no valid message type: the
\* buffer has been cleared (an option of type 0), type is kept.
ReadEOF ==
    /\ cpc \in Reading
    /\ inbox = <<>> /\ ~open
    /\ msg' = Plain(msg.type, "Divert")
    /\ Unassigned
    /\ UNCHANGED <<call, written, lastTopOptions, config, inbox,
                   outbox, open>>

\* End of file, and the bytes on the stack are those of a PDU read or written
\* before: it is decoded as if it had just arrived.
ReadStale(stale) ==
    /\ cpc \in Reading
    /\ inbox = <<>> /\ ~open
    /\ garbage < MaxGarbage
    /\ garbage' = garbage + 1
    /\ msg' = stale
    /\ cpc' = "handle"
    /\ UNCHANGED <<call, written, lastTopOptions, config, rtnval,
                   inbox, outbox, open>>

-----------------------------------------------------------------------------
(* do_negotiate: the switch on the message type.  The parse in front of it *)
(* sets Client::loop_count to the PDU's count less one, so the member      *)
(* never lives longer than the PDU in hand.                                *)

\* write_pdu of m, which succeeds and leads to next, or fails and returns.
WritePDU(m, next) ==
    /\ written' = m
    /\ \/ /\ outbox' = Append(outbox, m)
          /\ cpc' = next
          /\ rtnval' = "SUCCESS"
       \/ /\ cpc' = "return"
          /\ rtnval' = "ERROR"
          /\ UNCHANGED outbox

\* The ASA finds its answer good enough: Accept, and configure the value the
\* server proposed, whether the write succeeded or not.
AcceptProposal ==
    /\ cpc = "handle" /\ msg.type = "NEGO_MSG"
    /\ WritePDU(Plain("NEGO_END_MSG", "Accept"), "return")
    /\ config' = config \cup {msg.value}
    /\ UNCHANGED <<call, msg, lastTopOptions, garbage, inbox, open>>

DeclineProposal ==
    /\ cpc = "handle" /\ msg.type = "NEGO_MSG"
    /\ msg.loop = 1
    /\ WritePDU(Plain("NEGO_END_MSG", "Decline"), "return")
    /\ UNCHANGED <<call, msg, lastTopOptions, config, garbage, inbox, open>>

\* Mutant: the value stored is the server's.
StoresReceived(answer) ==
    /\ cpc = "handle" /\ msg.type = "NEGO_MSG"
    /\ msg.loop # 1
    /\ WritePDU(Objective("NEGO_MSG", "Negotiation", Decremented(msg.loop),
                          answer), "read")
    /\ lastTopOptions' = msg.value
    /\ UNCHANGED <<call, msg, config, garbage, inbox, open>>

\* Mutant: the loop count of the proposal received is sent back.
CounterKeepsLoop(answer) ==
    /\ cpc = "handle" /\ msg.type = "NEGO_MSG"
    /\ msg.loop # 1
    /\ WritePDU(Objective("NEGO_MSG", "Negotiation", msg.loop, answer), "read")
    /\ lastTopOptions' = answer
    /\ UNCHANGED <<call, msg, config, garbage, inbox, open>>

\* nego_obj_opt2bits wraps the ASA's answer; loop_count is narrowed to a byte.
\* The value is stored whether the write succeeded or not.
CounterProposal(answer) ==
    /\ cpc = "handle" /\ msg.type = "NEGO_MSG"
    /\ msg.loop # 1
    /\ WritePDU(Objective("NEGO_MSG", "Negotiation", Decremented(msg.loop),
                          answer), "read")
    /\ lastTopOptions' = answer
    /\ UNCHANGED <<call, msg, config, garbage, inbox, open>>

\* Mutant: a client told to wait repeats its last PDU.
WaitRepeats ==
    /\ cpc = "handle" /\ msg.type = "WAIT_MSG"
    /\ outbox' = Append(outbox, written)
    /\ cpc' = "wait_read"
    /\ UNCHANGED <<call, msg, written, lastTopOptions, config, rtnval, garbage,
                   inbox, open>>

HandleWait ==
    /\ cpc = "handle" /\ msg.type = "WAIT_MSG"
    /\ \/ msg.opt = "Waiting_time" /\ cpc' = "wait_read" /\ UNCHANGED rtnval
       \/ msg.opt # "Waiting_time" /\ cpc' = "return" /\ rtnval' = "ERROR"
    /\ UNCHANGED <<call, msg, written, lastTopOptions, config, garbage, inbox,
                   outbox, open>>

\* Accept: configure the value stored last.
HandleEnd ==
    /\ cpc = "handle" /\ msg.type = "NEGO_END_MSG"
    /\ config' = IF msg.opt = "Accept" THEN config \cup {lastTopOptions}
                                       ELSE config
    /\ rtnval' = "SUCCESS"
    /\ cpc' = "return"
    /\ UNCHANGED <<call, msg, written, lastTopOptions, garbage, inbox, outbox, open>>

HandleOther ==
    /\ cpc = "handle"
    /\ msg.type \in {"DISCOVERY_MSG", "RESPONSE_MSG", "REQUEST_MSG"}
    /\ rtnval' = "ERROR"
    /\ cpc' = "return"
    /\ UNCHANGED <<call, msg, written, lastTopOptions, config, garbage, inbox,
                   outbox, open>>

\* Back in send_tcp: on SUCCESS store the buffer, which holds the last PDU
\* read by now.  synchronize() configures what is in the buffer, its own
\* request when nothing was read.
Return ==
    /\ cpc = "return"
    /\ lastTopOptions' = IF rtnval = "SUCCESS" THEN msg.value
                                               ELSE lastTopOptions
    /\ config' = IF call = "synchronize" THEN config \cup {msg.value} ELSE config
    /\ cpc' = "done"
    /\ UNCHANGED <<call, msg, written, rtnval, garbage, inbox, outbox,
                   open>>

-----------------------------------------------------------------------------
ClientThread ==
    \/ SendRequest
    \/ Read \/ ReadTimesOut \/ ReadEOF
    \/ \E stale \in {msg, written} : ReadStale(stale)
    \/ AcceptProposal \/ DeclineProposal
    \/ \E answer \in Values : CounterProposal(answer)
    \/ HandleWait \/ HandleEnd \/ HandleOther
    \/ Return

=============================================================================
