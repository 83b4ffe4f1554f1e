----------------------------- MODULE ServerSession -----------------------------
(***************************************************************************)
(* One negotiation session of the server (class ServerSession).            *)
(*                                                                         *)
(* Three kinds of thread share the object:                                 *)
(*   - the session thread (ServerSession::run), which takes messages from  *)
(*     the queue, asks the ASA for an answer and replies;                  *)
(*   - a wait thread per message processed (wait_thread_handler), which    *)
(*     sends WAIT_MSG while the ASA is slow;                               *)
(*   - an end thread per NEGO_MSG sent (end_thread_handler), which ends    *)
(*     the session when the client stays silent.                           *)
(* The run loop of ServerMaster pushes into the queue from a fourth.       *)
(*                                                                         *)
(* cur_state is read under statelock by get_cur_state but without it in    *)
(* set_state and send; no lock is held from a test to the assignment that  *)
(* depends on it, so the test and the assignment are separate steps.       *)
(***************************************************************************)
EXTENDS Gdnp, Sequences

CONSTANTS
    FirstMsgs,      \* the REQUEST_MSGs a session can be created with
    ClientMsgs,     \* the other messages the client can send to it
    MaxMsgs,        \* bound: messages handed to the session in a behaviour
    SockBuf,        \* bound: PDUs the connection buffers before write blocks
    PROCESSING_TIMEOUT_SECOND,
    END_TIMEOUT_SECOND

ASSUME MsgsAssumption ==
    /\ FirstMsgs \subseteq {m \in Content : m.type = "REQUEST_MSG"}
    /\ ClientMsgs \subseteq {m \in Content : m.type # "REQUEST_MSG"}

ASSUME BoundsAssumption ==
    /\ MaxMsgs \in Nat \ {0}
    /\ SockBuf \in Nat \ {0}

ASSUME TimeoutsAssumption ==
    /\ PROCESSING_TIMEOUT_SECOND \in Nat \ {0}
    /\ END_TIMEOUT_SECOND \in Nat \ {0}

VARIABLES
    cur_state,      \* IDLE, PROCESSING or SESSION_END
    idle_check,     \* 1 once a message was popped after the last reply
    q,              \* the processing queue
    pc,             \* where the session thread is in run()
    c,              \* run()'s local c: the message in hand
    last_content,   \* run()'s local last_content, as operator== sees it
    reply,          \* the PDU run() has decided to send
    round,          \* number of messages popped so far (names the helpers)
    waiter,         \* waiter[r]: the wait thread launched in round r
    ender,          \* ender[r]: the end thread launched in round r
    out             \* PDUs written to the connection, not yet read

vars == <<cur_state, idle_check, q, pc, c, last_content, reply, round,
          waiter, ender, out>>

server_states == {"IDLE", "PROCESSING", "SESSION_END"}

Rounds == 1 .. MaxMsgs

PCs == {"new", "poll", "pop", "set_state", "mark", "spawn", "branch",
        "upper", "send", "write", "sent", "close", "clear", "done"}

HelperPCs == {"none", "sleep", "send", "write", "reset", "fire", "exited"}

NoThread == [pc |-> "none", total_sleep |-> 0]

NoContent == [type |-> "none", opt |-> "none", loop |-> 0, value |-> NoValue]

\* The object exists from its constructor to `delete ss'.
Alive == pc \notin {"new", "done"}

\* The session's socket is open until close_tcp().
Connected == pc \notin {"new", "clear", "done"}

\* A field read through a pointer to the session: after `delete ss' the
\* value is whatever the memory holds.
Seen(field, type) == IF Alive THEN {field} ELSE type

Request == {"REQUEST_MSG", "NEGO_MSG"}

-----------------------------------------------------------------------------
TypeOK ==
    /\ cur_state \in server_states
    /\ idle_check \in {0, 1}
    /\ q \in Seq(Content)
    /\ pc \in PCs
    /\ c \in Content \cup {NoContent}
    /\ last_content \in Keys
    /\ reply \in Content \cup {NoContent}
    /\ round \in 0 .. MaxMsgs
    /\ waiter \in [Rounds -> [pc : HelperPCs, total_sleep : Nat]]
    /\ ender \in [Rounds -> [pc : HelperPCs, total_sleep : Nat]]
    /\ out \in Seq(Content)

Init ==
    /\ cur_state = "IDLE"
    /\ idle_check = 0
    /\ q = <<>>
    /\ pc = "new"
    /\ c = NoContent
    /\ last_content = GarbageKey
    /\ reply = NoContent
    /\ round = 0
    /\ waiter = [r \in Rounds |-> NoThread]
    /\ ender = [r \in Rounds |-> NoThread]
    /\ out = <<>>

-----------------------------------------------------------------------------
(* The master's run loop, as far as it touches this object.               *)

(***************************************************************************)
(* distribute() meets a REQUEST_MSG with an unknown session id: the        *)
(* constructor runs and the session thread starts.  run() compares with    *)
(* its local last_content before assigning it.  Thread stacks are recycled *)
(* without being cleared, so the indeterminate value may equal the request *)
(* (an earlier session ended with the same one) or may not.                *)
(***************************************************************************)
Construct(m) ==
    /\ pc = "new"
    /\ pc' = "poll"
    /\ q' = <<m>>
    /\ last_content' \in {GarbageKey, Key(m)}
    /\ UNCHANGED <<cur_state, idle_check, c, reply, round, waiter, ender, out>>

\* distribute() finds the session: queue_push.
Push(m) ==
    /\ Alive
    /\ round + Len(q) < MaxMsgs
    /\ q' = Append(q, m)
    /\ UNCHANGED <<cur_state, idle_check, pc, c, last_content, reply, round,
                   waiter, ender, out>>

\* The client reads one PDU from the connection.
ClientRead ==
    /\ out # <<>>
    /\ out' = Tail(out)
    /\ UNCHANGED <<cur_state, idle_check, q, pc, c, last_content, reply,
                   round, waiter, ender>>

-----------------------------------------------------------------------------
(* The session thread.                                                     *)

\* while (get_cur_state() != SESSION_END): the queue is empty, sleep(1).
RunSleep ==
    /\ pc = "poll"
    /\ cur_state # "SESSION_END"
    /\ q = <<>>
    /\ UNCHANGED vars

RunReady ==
    /\ pc = "poll"
    /\ cur_state # "SESSION_END"
    /\ q # <<>>
    /\ pc' = "pop"
    /\ UNCHANGED <<cur_state, idle_check, q, c, last_content, reply, round,
                   waiter, ender, out>>

RunExit ==
    /\ pc = "poll"
    /\ cur_state = "SESSION_END"
    /\ pc' = "close"
    /\ UNCHANGED <<cur_state, idle_check, q, c, last_content, reply, round,
                   waiter, ender, out>>

\* idle_check = 1, then queue_pop; both cancel and message are visible to
\* the other threads in either order, and no thread reads both.
Pop(next) ==
    /\ pc = "pop"
    /\ idle_check' = 1
    /\ c' = Head(q)
    /\ q' = Tail(q)
    /\ round' = round + 1
    /\ pc' = next
    /\ UNCHANGED <<cur_state, reply, waiter, ender, out>>

\* c == last_content: `continue'.
RunPopDuplicate ==
    /\ Pop("poll")
    /\ Key(Head(q)) = last_content
    /\ UNCHANGED last_content

RunPop ==
    /\ Pop("set_state")
    /\ Key(Head(q)) # last_content
    /\ last_content' = Key(Head(q))

\* Mutant: set_state does not know NEGO_END_MSG.
EndNotAdmissible(state, type) ==
    /\ state = "IDLE"
    /\ type \in {"REQUEST_MSG", "NEGO_MSG"}

\* set_state: the unlocked switch on cur_state and the message type.
Admissible(state, type) ==
    /\ state = "IDLE"
    /\ type \in {"REQUEST_MSG", "NEGO_MSG", "NEGO_END_MSG"}

\* Mutant: a rejected message sends the session back to IDLE.
RejectResetsState ==
    /\ pc = "set_state"
    /\ pc' = IF Admissible(cur_state, c.type) THEN "mark" ELSE "poll"
    /\ cur_state' = "IDLE"
    /\ UNCHANGED <<idle_check, q, c, last_content, reply, round, waiter,
                   ender, out>>

RunSetState ==
    /\ pc = "set_state"
    /\ pc' = IF Admissible(cur_state, c.type) THEN "mark" ELSE "poll"
    /\ UNCHANGED <<cur_state, idle_check, q, c, last_content, reply, round,
                   waiter, ender, out>>

\* set_state: the set_cur_state the switch has chosen.
RunMark ==
    /\ pc = "mark"
    /\ cur_state' = IF c.type = "NEGO_END_MSG" THEN "SESSION_END"
                                               ELSE "PROCESSING"
    /\ pc' = "spawn"
    /\ UNCHANGED <<idle_check, q, c, last_content, reply, round, waiter,
                   ender, out>>

\* get_cur_state() == PROCESSING: launch the wait thread.
RunSpawn ==
    /\ pc = "spawn"
    /\ waiter' = IF cur_state = "PROCESSING"
                 THEN [waiter EXCEPT ![round].pc = "sleep"]
                 ELSE waiter
    /\ pc' = "branch"
    /\ UNCHANGED <<cur_state, idle_check, q, c, last_content, reply, round,
                   ender, out>>

\* get_cur_state() != SESSION_END decides whether the ASA is asked at all.
RunBranch ==
    /\ pc = "branch"
    /\ pc' = IF cur_state # "SESSION_END" /\ c.type \in Request
             THEN "upper" ELSE "poll"
    /\ UNCHANGED <<cur_state, idle_check, q, c, last_content, reply, round,
                   waiter, ender, out>>

\* Mutant: the loop count is not tested before another round is proposed.
NeverDeclines(m, answer, geq) ==
    LET loop == Decremented(m.loop) IN
    IF m.opt = "Synchronization"
      THEN Objective("NEGO_END_MSG", m.opt, loop, answer)
    ELSE IF ~geq
      THEN Objective("NEGO_MSG", m.opt, loop, answer)
    ELSE Plain("NEGO_END_MSG", "Accept")

(***************************************************************************)
(* The reply to message m when the ASA answers with `answer' and finds it  *)
(* good enough or not (asa_geq_fn).                                        *)
(***************************************************************************)
ReplyTo(m, answer, geq) ==
    LET loop == Decremented(m.loop) IN
    IF m.opt = "Synchronization"
      THEN Objective("NEGO_END_MSG", m.opt, loop, answer)
    ELSE IF ~geq /\ loop # 0
      THEN Objective("NEGO_MSG", m.opt, loop, answer)
    ELSE Plain("NEGO_END_MSG", IF loop = 0 THEN "Decline" ELSE "Accept")

\* Mutant: the set_cur_state(IDLE) after the ASA's answer is forgotten.
UpperLeavesProcessing(answer, geq) ==
    /\ pc = "upper"
    /\ reply' = ReplyTo(c, answer, geq)
    /\ pc' = "send"
    /\ UNCHANGED <<cur_state, idle_check, q, c, last_content, round, waiter,
                   ender, out>>

\* The ASA returns after any time with any answer; set_cur_state(IDLE).
RunUpper(answer, geq) ==
    /\ pc = "upper"
    /\ reply' = ReplyTo(c, answer, geq)
    /\ cur_state' = "IDLE"
    /\ pc' = "send"
    /\ UNCHANGED <<idle_check, q, c, last_content, round, waiter, ender, out>>

\* What run() does after send() failed: a reply that ends the session still
\* ends it, a NEGO_MSG is given up and the loop goes on.
AfterFailedSend ==
    /\ pc' = "poll"
    /\ cur_state' = IF reply.type = "NEGO_END_MSG" THEN "SESSION_END"
                                                   ELSE cur_state

\* send: the unlocked switch on cur_state.
RunSend ==
    /\ pc = "send"
    /\ \/ /\ cur_state = "IDLE"
          /\ pc' = "write"
          /\ UNCHANGED cur_state
       \/ /\ cur_state # "IDLE"
          /\ AfterFailedSend
    /\ UNCHANGED <<idle_check, q, c, last_content, reply, round, waiter,
                   ender, out>>

\* Mutant: the ending is written without set_cur_state(SESSION_END).
WriteForgetsEnd ==
    /\ pc = "write"
    /\ Len(out) < SockBuf
    /\ out' = Append(out, reply)
    /\ pc' = IF reply.type = "NEGO_END_MSG" THEN "poll" ELSE "sent"
    /\ UNCHANGED <<cur_state, idle_check, q, c, last_content, reply, round,
                   waiter, ender>>

\* send: write_pdu succeeds.
RunWrite ==
    /\ pc = "write"
    /\ Len(out) < SockBuf
    /\ out' = Append(out, reply)
    /\ \/ /\ reply.type = "NEGO_END_MSG"
          /\ cur_state' = "SESSION_END"
          /\ pc' = "poll"
       \/ /\ reply.type = "NEGO_MSG"
          /\ pc' = "sent"
          /\ UNCHANGED cur_state
    /\ UNCHANGED <<idle_check, q, c, last_content, reply, round, waiter,
                   ender>>

\* send: write_pdu fails (ENCODE_ERR, SEND_ERR, a short write).
RunWriteFails ==
    /\ pc = "write"
    /\ AfterFailedSend
    /\ UNCHANGED <<idle_check, q, c, last_content, reply, round, waiter,
                   ender, out>>

\* Mutant: the end thread starts with the idle_check of the message answered.
SentKeepsIdleCheck ==
    /\ pc = "sent"
    /\ cur_state' = "IDLE"
    /\ ender' = [ender EXCEPT ![round].pc = "sleep"]
    /\ pc' = "poll"
    /\ UNCHANGED <<idle_check, q, c, last_content, reply, round, waiter, out>>

\* send, after a NEGO_MSG is out: set_cur_state(IDLE), idle_check = 0,
\* launch the end thread.
RunSent ==
    /\ pc = "sent"
    /\ cur_state' = "IDLE"
    /\ idle_check' = 0
    /\ ender' = [ender EXCEPT ![round].pc = "sleep"]
    /\ pc' = "poll"
    /\ UNCHANGED <<q, c, last_content, reply, round, waiter, out>>

\* close_tcp().
RunClose ==
    /\ pc = "close"
    /\ pc' = "clear"
    /\ UNCHANGED <<cur_state, idle_check, q, c, last_content, reply, round,
                   waiter, ender, out>>

\* clear_when_session_end: `delete ss' drains the queue and frees the object.
RunClear ==
    /\ pc = "clear"
    /\ q' = <<>>
    /\ pc' = "done"
    /\ UNCHANGED <<cur_state, idle_check, c, last_content, reply, round,
                   waiter, ender, out>>

SessionThread ==
    \/ RunReady \/ RunExit \/ RunPopDuplicate \/ RunPop
    \/ RunSetState \/ RunMark \/ RunSpawn \/ RunBranch
    \/ \E answer \in Values, geq \in BOOLEAN : RunUpper(answer, geq)
    \/ RunSend \/ RunWrite \/ RunWriteFails \/ RunSent
    \/ RunClose \/ RunClear

-----------------------------------------------------------------------------
(* Wait threads.                                                           *)

WaitUnchanged == UNCHANGED <<cur_state, idle_check, q, pc, c, last_content,
                             reply, round, ender>>

\* sleep(1) is over (or the thread has only just started): look at the state.
WaitWake(w) ==
    /\ waiter[w].pc = "sleep"
    /\ \E state \in Seen(cur_state, server_states) :
         waiter' =
           IF state # "PROCESSING"
             THEN [waiter EXCEPT ![w].pc = "exited"]
           ELSE IF waiter[w].total_sleep + 1 >= PROCESSING_TIMEOUT_SECOND
             THEN [waiter EXCEPT ![w].pc = "send"]
           ELSE [waiter EXCEPT ![w].total_sleep = @ + 1]
    /\ out' = out
    /\ WaitUnchanged

\* send(..., WAIT_MSG): the unlocked switch admits it in PROCESSING only.
WaitSend(w) ==
    /\ waiter[w].pc = "send"
    /\ \E state \in Seen(cur_state, server_states) :
         waiter' = [waiter EXCEPT ![w] =
           [pc |-> IF state = "PROCESSING" THEN "write" ELSE "sleep",
            total_sleep |-> 0]]
    /\ out' = out
    /\ WaitUnchanged

\* send: write_pdu of the WAIT_MSG.  It may fail, and does once the socket
\* is closed (what another connection on a recycled descriptor would see is
\* not part of this connection).
WaitWrite(w) ==
    /\ waiter[w].pc = "write"
    /\ \/ /\ Connected
          /\ Len(out) < SockBuf
          /\ out' = Append(out, Plain("WAIT_MSG", "Waiting_time"))
       \/ out' = out
    /\ waiter' = [waiter EXCEPT ![w].pc = "sleep"]
    /\ WaitUnchanged

WaitThread(w) == WaitWake(w) \/ WaitSend(w) \/ WaitWrite(w)

-----------------------------------------------------------------------------
(* End threads.                                                            *)

EndUnchanged == UNCHANGED <<q, pc, c, last_content, reply, round, waiter, out>>

\* Mutant: the end thread stands down when idle_check is not set.
WakeTestsWrongValue(e) ==
    /\ ender[e].pc = "sleep"
    /\ \E idle \in Seen(idle_check, {0, 1}) :
         ender' =
           IF idle = 0
             THEN [ender EXCEPT ![e].pc = "reset"]
           ELSE IF ender[e].total_sleep + 1 >= END_TIMEOUT_SECOND
             THEN [ender EXCEPT ![e].pc = "fire"]
           ELSE [ender EXCEPT ![e].total_sleep = @ + 1]
    /\ UNCHANGED <<cur_state, idle_check>>
    /\ EndUnchanged

\* sleep(1) is over: count it and look at idle_check.
EndWake(e) ==
    /\ ender[e].pc = "sleep"
    /\ \E idle \in Seen(idle_check, {0, 1}) :
         ender' =
           IF idle = 1
             THEN [ender EXCEPT ![e].pc = "reset"]
           ELSE IF ender[e].total_sleep + 1 >= END_TIMEOUT_SECOND
             THEN [ender EXCEPT ![e].pc = "fire"]
           ELSE [ender EXCEPT ![e].total_sleep = @ + 1]
    /\ UNCHANGED <<cur_state, idle_check>>
    /\ EndUnchanged

\* idle_check = 0; return.
EndReset(e) ==
    /\ ender[e].pc = "reset"
    /\ ender' = [ender EXCEPT ![e].pc = "exited"]
    /\ idle_check' = IF Alive THEN 0 ELSE idle_check
    /\ UNCHANGED cur_state
    /\ EndUnchanged

\* No message in END_TIMEOUT_SECOND: set_cur_state(SESSION_END).
EndFire(e) ==
    /\ ender[e].pc = "fire"
    /\ ender' = [ender EXCEPT ![e].pc = "exited"]
    /\ cur_state' = IF Alive THEN "SESSION_END" ELSE cur_state
    /\ UNCHANGED idle_check
    /\ EndUnchanged

EndThread(e) == EndWake(e) \/ EndReset(e) \/ EndFire(e)

-----------------------------------------------------------------------------
HelperExited(t) == t.pc \in {"none", "exited"}

\* The session is gone and its threads have returned.
Finished ==
    /\ pc = "done"
    /\ \A r \in Rounds : HelperExited(waiter[r]) /\ HelperExited(ender[r])
    /\ UNCHANGED vars

Client ==
    \/ \E m \in FirstMsgs : Construct(m)
    \/ \E m \in ClientMsgs : Push(m)
    \/ ClientRead

Next ==
    \/ Client
    \/ RunSleep
    \/ SessionThread
    \/ \E r \in Rounds : WaitThread(r) \/ EndThread(r)
    \/ Finished

Spec == Init /\ [][Next]_vars

(***************************************************************************)
(* Every thread keeps running, the ASA returns from its callback, and the  *)
(* client's kernel takes what was written.  Nothing is assumed of when the *)
(* client sends.                                                           *)
(***************************************************************************)
Fairness ==
    /\ WF_vars(SessionThread)
    /\ \A r \in Rounds : WF_vars(WaitThread(r)) /\ WF_vars(EndThread(r))
    /\ WF_vars(ClientRead)

FairSpec == Spec /\ Fairness

-----------------------------------------------------------------------------
(* What holds.                                                             *)

\* The session is marked PROCESSING only between the moment a request is
\* taken up and the moment the ASA's answer is in: whatever the end threads
\* and wait threads do in between, the session thread never comes back to its
\* loop, nor to set_state, with the mark still on (set_state's "doesn't
\* allowed recv ANY MSG in state PROCESSING" cannot happen).
ProcessingOnlyInUpperCall ==
    cur_state = "PROCESSING" => pc \in {"spawn", "branch", "upper"}

\* An end thread that nothing has told to stand down.
Armed(e) == \/ ender[e].pc = "fire"
            \/ ender[e].pc = "sleep" /\ idle_check = 0

\* A session back in its loop after answering with NEGO_MSG is never left
\* without a timer: the end thread of that very answer is still counting and
\* no stale idle_check will send it home, or SESSION_END is already set.
AnsweredSessionIsTimed ==
    pc \in {"poll", "pop"} /\ round > 0 /\ ender[round].pc # "none"
      => Armed(round) \/ cur_state = "SESSION_END"

\* The ending is the session thread's last word on the connection: what
\* follows a NEGO_END_MSG can only be a WAIT_MSG of a late wait thread.
EndingIsLast ==
    \A i, j \in 1 .. Len(out) :
      i < j /\ out[i].type = "NEGO_END_MSG" => out[j].type = "WAIT_MSG"

\* SESSION_END set while the session thread is between two messages sticks:
\* no helper thread and no push brings the session back to life.
IdleTimeoutIsFinal ==
    [][cur_state = "SESSION_END"
         /\ pc \in {"poll", "pop", "set_state", "close", "clear"}
       => cur_state' = "SESSION_END"]_vars

\* Once a session has answered with NEGO_MSG and the client stays silent, it
\* ends and is cleared away.
AnsweredSessionEnds ==
    \A r \in Rounds :
      (round = r /\ ender[r].pc # "none") ~> (round # r \/ pc = "done")

-----------------------------------------------------------------------------
(* What the comments and messages of the code say, and the code does not do. *)

\* ServerSession.cpp:209 "filtering out duplicate REQUEST": what the filter
\* drops repeats the message before it.
DropsOnlyDuplicates ==
    [][pc = "pop" /\ pc' = "poll" /\ round > 0 => Head(q) = c]_vars

\* ServerSession.cpp:348 "didn't receive new request in END_TIMEOUT_SECOND,
\* update state into SESSION_END": the timer that decides to end the session
\* is that of the last answer; none is still counting past a newer message.
TimeoutOnlyWhenSilent ==
    [][\A e \in Rounds :
         Alive /\ ender[e].pc = "sleep" /\ ender'[e].pc = "fire"
           => e = round]_vars

\* ServerSession.cpp:348, as a promise: a session that has started a timer
\* ends.  Pushes are bounded, so in every behaviour the client falls silent.
SilentSessionEnds ==
    (\E r \in Rounds : ender[r].pc # "none") ~> (pc = "done")

=============================================================================
