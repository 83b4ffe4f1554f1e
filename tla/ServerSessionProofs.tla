------------------------- MODULE ServerSessionProofs -------------------------
(***************************************************************************)
(* Theorems about ServerSession, for every set of messages, every bound    *)
(* and every timeout.                                                      *)
(*                                                                         *)
(* The invariants of ServerSession.tla are not inductive.  Four            *)
(* strengthened ones are proved in turn, each using those before it:       *)
(*   TypeInv   types, and what the program counter says about q, round, c  *)
(*             and reply;                                                  *)
(*   MarkInv   where the session thread can be while PROCESSING is set;    *)
(*   TimerInv  which end threads exist, and that idle_check stays 0 while  *)
(*             the last answer is being timed;                             *)
(*   EndInv    a written NEGO_END_MSG means SESSION_END, on the way out.   *)
(***************************************************************************)
EXTENDS ServerSession, SequenceTheorems, TLAPS

\* The program counters of a session thread that has a message in hand.
InHand == {"set_state", "mark", "spawn", "branch", "upper", "send", "write",
           "sent"}

TypeInv ==
    /\ TypeOK
    /\ round + Len(q) <= MaxMsgs
    /\ pc = "new" => q = <<>> /\ round = 0
    /\ pc = "pop" => q # <<>>
    /\ pc \in InHand => c \in Content /\ round # 0
    /\ pc \in {"send", "write", "sent"} =>
         reply \in Content /\ reply.type \in {"NEGO_MSG", "NEGO_END_MSG"}

MarkInv ==
    /\ ProcessingOnlyInUpperCall
    /\ pc = "mark" => c.type \in Request \cup {"NEGO_END_MSG"}
    /\ pc \in {"spawn", "branch"} /\ cur_state = "PROCESSING"
         => c.type \in Request

TimerInv ==
    /\ \A r \in Rounds : r > round => ender[r].pc = "none"
    /\ pc \in InHand => ender[round].pc = "none"
    /\ pc \in {"poll", "pop"} /\ round > 0 /\ ender[round].pc # "none" =>
         /\ idle_check = 0
         /\ ender[round].pc \in {"sleep", "fire"} \/ cur_state = "SESSION_END"

EndWritten == \E i \in 1 .. Len(out) : out[i].type = "NEGO_END_MSG"

EndInv ==
    /\ EndingIsLast
    /\ EndWritten => /\ cur_state = "SESSION_END"
                     /\ pc \in {"poll", "close", "clear", "done"}

-----------------------------------------------------------------------------
(* Facts about the operators.                                              *)

\* The narrowed loop count is a byte again.
LEMMA DecrementedIsByte ==
    ASSUME NEW loop \in uint8
    PROVE  Decremented(loop) \in uint8
BY DEF Decremented, uint8

\* A message is compared by a pair of its fields.
LEMMA KeyType ==
    ASSUME NEW m \in Content
    PROVE  Key(m) \in Keys
BY DEF Key, Keys, Content

\* Plain PDUs are contents.
LEMMA PlainType ==
    ASSUME NEW type \in MSG_TYPE, NEW opt \in option_type
    PROVE  Plain(type, opt) \in Content
BY DEF Plain, Objective, Content, uint8

\* run() answers with NEGO_MSG or NEGO_END_MSG and nothing else.
LEMMA ReplyToType ==
    ASSUME NEW m \in Content, NEW answer \in Values, NEW geq \in BOOLEAN
    PROVE  /\ ReplyTo(m, answer, geq) \in Content
           /\ ReplyTo(m, answer, geq).type \in {"NEGO_MSG", "NEGO_END_MSG"}
<1> DEFINE loop == Decremented(m.loop)
<1>1. loop \in uint8 /\ m.opt \in option_type
  BY DecrementedIsByte DEF Content
<1>2. CASE m.opt = "Synchronization"
  BY <1>1, <1>2 DEF ReplyTo, Objective, Content, MSG_TYPE
<1>3. CASE m.opt # "Synchronization" /\ ~geq /\ loop # 0
  BY <1>1, <1>3 DEF ReplyTo, Objective, Content, MSG_TYPE
<1>4. CASE m.opt # "Synchronization" /\ ~(~geq /\ loop # 0)
  <2>1. PICK opt \in {"Decline", "Accept"} :
          ReplyTo(m, answer, geq) = Plain("NEGO_END_MSG", opt)
    BY <1>4 DEF ReplyTo
  <2>2. Plain("NEGO_END_MSG", opt) \in Content
    BY PlainType DEF MSG_TYPE, option_type
  <2>3. QED
    BY <2>1, <2>2 DEF Plain, Objective
<1>5. QED
  BY <1>2, <1>3, <1>4

-----------------------------------------------------------------------------
(* Types.                                                                  *)

LEMMA TypeInit == Init => TypeInv
BY NoValueAssumption, BoundsAssumption
   DEF Init, TypeInv, TypeOK, InHand, server_states, PCs, Keys, HelperPCs, NoThread

\* A message leaves the queue: shared by the two ways RunPop can go on.
LEMMA PopType ==
    ASSUME TypeInv, NEW next, Pop(next)
    PROVE  /\ idle_check' \in {0, 1}
           /\ c' \in Content
           /\ q' \in Seq(Content)
           /\ round' \in 0 .. MaxMsgs
           /\ round' # 0
           /\ round' + Len(q') <= MaxMsgs
<1>1. q \in Seq(Content) /\ q # <<>>
  BY DEF TypeInv, TypeOK, Pop
<1>2. Head(q) \in Content /\ Tail(q) \in Seq(Content)
      /\ Len(Tail(q)) = Len(q) - 1 /\ Len(q) \in Nat \ {0}
  BY <1>1, HeadTailProperties, EmptySeq
<1>3. QED
  BY <1>2, BoundsAssumption DEF TypeInv, TypeOK, Pop

LEMMA TypeStep == TypeInv /\ [Next]_vars => TypeInv'
<1> SUFFICES ASSUME TypeInv, [Next]_vars
             PROVE  TypeInv'
  OBVIOUS
<1> USE BoundsAssumption DEF TypeInv, TypeOK, InHand
<1>1. ASSUME NEW m \in FirstMsgs, Construct(m)
      PROVE  TypeInv'
  <2>1. m \in Content /\ Key(m) \in Keys
    BY <1>1, MsgsAssumption, KeyType
  <2>2. q' \in Seq(Content) /\ Len(q') = 1
    BY <1>1, <2>1 DEF Construct
  <2>3. GarbageKey \in Keys
    BY DEF Keys
  <2>4. QED
    BY <1>1, <2>1, <2>2, <2>3 DEF Construct, PCs
<1>2. ASSUME NEW m \in ClientMsgs, Push(m)
      PROVE  TypeInv'
  <2>1. m \in Content
    BY <1>2, MsgsAssumption
  <2>2. q' \in Seq(Content) /\ Len(q') = Len(q) + 1 /\ Len(q) \in Nat /\ q' # <<>>
    BY <1>2, <2>1 DEF Push
  <2>3. QED
    BY <1>2, <2>2 DEF Push, Alive
<1>3. CASE ClientRead
  <2>1. out' \in Seq(Content)
    BY <1>3, HeadTailProperties DEF ClientRead
  <2>2. QED
    BY <1>3, <2>1 DEF ClientRead
<1>4. CASE RunReady
  BY <1>4 DEF RunReady, PCs
<1>5. CASE RunExit
  BY <1>5 DEF RunExit, PCs
<1>6. CASE RunPopDuplicate
  BY <1>6, PopType DEF RunPopDuplicate, Pop, PCs
<1>7. CASE RunPop
  <2>1. Key(Head(q)) \in Keys
    BY <1>7, HeadTailProperties, KeyType DEF RunPop, Pop
  <2>2. QED
    BY <1>7, <2>1, PopType DEF RunPop, Pop, PCs
<1>8. CASE RunSetState
  BY <1>8 DEF RunSetState, PCs
<1>9. CASE RunMark
  BY <1>9 DEF RunMark, PCs, server_states
<1>10. CASE RunSpawn
  BY <1>10 DEF RunSpawn, PCs, HelperPCs
<1>11. CASE RunBranch
  BY <1>11 DEF RunBranch, PCs
<1>12. ASSUME NEW answer \in Values, NEW geq \in BOOLEAN, RunUpper(answer, geq)
       PROVE  TypeInv'
  BY <1>12, ReplyToType DEF RunUpper, PCs, server_states
<1>13. CASE RunSend
  BY <1>13 DEF RunSend, AfterFailedSend, PCs, server_states
<1>14. CASE RunWrite
  BY <1>14 DEF RunWrite, PCs, server_states
<1>15. CASE RunWriteFails
  BY <1>15 DEF RunWriteFails, AfterFailedSend, PCs, server_states
<1>16. CASE RunSent
  BY <1>16 DEF RunSent, PCs, server_states, HelperPCs
<1>17. CASE RunClose
  BY <1>17 DEF RunClose, PCs
<1>18. CASE RunClear
  BY <1>18 DEF RunClear, PCs
<1>19. ASSUME NEW w \in Rounds, WaitWake(w)
       PROVE  TypeInv'
  BY <1>19 DEF WaitWake, WaitUnchanged, HelperPCs
<1>20. ASSUME NEW w \in Rounds, WaitSend(w)
       PROVE  TypeInv'
  BY <1>20 DEF WaitSend, WaitUnchanged, HelperPCs
<1>21. ASSUME NEW w \in Rounds, WaitWrite(w)
       PROVE  TypeInv'
  <2>1. Plain("WAIT_MSG", "Waiting_time") \in Content
    BY PlainType DEF MSG_TYPE, option_type
  <2>2. PICK m \in Content : out' = out \/ out' = Append(out, m)
    BY <1>21, <2>1 DEF WaitWrite
  <2>3. out' \in Seq(Content)
    <3>1. CASE out' = out
      BY <3>1
    <3>2. CASE out' = Append(out, m)
      BY <3>2
    <3>3. QED
      BY <2>2, <3>1, <3>2
  <2>4. waiter' \in [Rounds -> [pc : HelperPCs, total_sleep : Nat]]
    BY <1>21 DEF WaitWrite, HelperPCs
  <2>5. QED
    BY <1>21, <2>3, <2>4 DEF WaitWrite, WaitUnchanged
<1>22. ASSUME NEW e \in Rounds, EndWake(e)
       PROVE  TypeInv'
  BY <1>22 DEF EndWake, EndUnchanged, HelperPCs
<1>23. ASSUME NEW e \in Rounds, EndReset(e)
       PROVE  TypeInv'
  BY <1>23 DEF EndReset, EndUnchanged, HelperPCs
<1>24. ASSUME NEW e \in Rounds, EndFire(e)
       PROVE  TypeInv'
  BY <1>24 DEF EndFire, EndUnchanged, HelperPCs, server_states
<1>25. CASE RunSleep \/ Finished \/ UNCHANGED vars
  BY <1>25 DEF RunSleep, Finished, vars
<1>26. QED
  BY <1>1, <1>2, <1>3, <1>4, <1>5, <1>6, <1>7, <1>8, <1>9, <1>10, <1>11,
     <1>12, <1>13, <1>14, <1>15, <1>16, <1>17, <1>18, <1>19, <1>20, <1>21,
     <1>22, <1>23, <1>24, <1>25
     DEF Next, Client, SessionThread, WaitThread, EndThread

\* The strengthened type invariant holds throughout.
LEMMA TypeInvariant == Spec => []TypeInv
BY TypeInit, TypeStep, PTL DEF Spec

\* Every variable keeps its type: the session thread never pops an empty
\* queue, and a loop count stays a byte whatever the client sends.
THEOREM TypeCorrect == Spec => []TypeOK
<1>1. TypeInv => TypeOK
  BY DEF TypeInv
<1>2. QED
  BY <1>1, TypeInvariant, PTL

-----------------------------------------------------------------------------
(* PROCESSING is set only while a request is in hand.                      *)

LEMMA MarkInit == Init => MarkInv
BY DEF Init, MarkInv, ProcessingOnlyInUpperCall

LEMMA MarkStep == TypeInv /\ MarkInv /\ [Next]_vars => MarkInv'
<1> SUFFICES ASSUME TypeInv, MarkInv, [Next]_vars
             PROVE  MarkInv'
  OBVIOUS
<1> USE DEF MarkInv, ProcessingOnlyInUpperCall
<1>1. ASSUME NEW m \in FirstMsgs, Construct(m)
      PROVE  MarkInv'
  BY <1>1 DEF Construct
<1>2. ASSUME NEW m \in ClientMsgs, Push(m)
      PROVE  MarkInv'
  BY <1>2 DEF Push
<1>3. CASE ClientRead
  BY <1>3 DEF ClientRead
<1>4. CASE RunReady \/ RunExit \/ RunClose \/ RunClear
  BY <1>4 DEF RunReady, RunExit, RunClose, RunClear
<1>5. CASE RunPopDuplicate \/ RunPop
  BY <1>5 DEF RunPopDuplicate, RunPop, Pop
\* Only the message types that set_state admits reach the mark.
<1>6. CASE RunSetState
  BY <1>6 DEF RunSetState, Admissible, Request
\* PROCESSING is never set for a NEGO_END_MSG.
<1>7. CASE RunMark
  BY <1>7 DEF RunMark, Request
<1>8. CASE RunSpawn
  BY <1>8 DEF RunSpawn
\* A state still PROCESSING sends the thread on to the ASA.
<1>9. CASE RunBranch
  BY <1>9 DEF RunBranch
<1>10. ASSUME NEW answer \in Values, NEW geq \in BOOLEAN, RunUpper(answer, geq)
       PROVE  MarkInv'
  BY <1>10 DEF RunUpper
<1>11. CASE RunSend \/ RunWriteFails
  BY <1>11 DEF RunSend, RunWriteFails, AfterFailedSend
<1>12. CASE RunWrite \/ RunSent
  BY <1>12 DEF RunWrite, RunSent
<1>13. ASSUME NEW w \in Rounds, WaitThread(w)
       PROVE  MarkInv'
  BY <1>13 DEF WaitThread, WaitWake, WaitSend, WaitWrite, WaitUnchanged
<1>14. ASSUME NEW e \in Rounds, EndThread(e)
       PROVE  MarkInv'
  BY <1>14 DEF EndThread, EndWake, EndReset, EndFire, EndUnchanged
<1>15. CASE RunSleep \/ Finished \/ UNCHANGED vars
  BY <1>15 DEF RunSleep, Finished, vars
<1>16. QED
  BY <1>1, <1>2, <1>3, <1>4, <1>5, <1>6, <1>7, <1>8, <1>9, <1>10, <1>11,
     <1>12, <1>13, <1>14, <1>15
     DEF Next, Client, SessionThread

\* The session is marked PROCESSING only while a request is being answered.
THEOREM ProcessingCorrect == Spec => []ProcessingOnlyInUpperCall
<1>1. MarkInv => ProcessingOnlyInUpperCall
  BY DEF MarkInv
<1>2. QED
  BY <1>1, TypeInvariant, MarkInit, MarkStep, PTL DEF Spec

-----------------------------------------------------------------------------
(* The last answer is timed.                                               *)

LEMMA TimerInit == Init => TimerInv
BY DEF Init, TimerInv, InHand, NoThread, Rounds

\* A step that moves the session thread on without a new message, leaves
\* the end threads and idle_check alone and does not return to the loop.
LEMMA TimerKept ==
    ASSUME TypeInv, TimerInv, UNCHANGED <<round, ender, idle_check>>,
           pc' \in InHand => pc \in InHand,
           pc' \in {"poll", "pop"} /\ pc \notin InHand =>
             pc \in {"poll", "pop"} /\ (cur_state = "SESSION_END" => cur_state' = cur_state)
    PROVE  TimerInv'
BY DEF TimerInv, InHand

\* Taking a message: the round that begins has no end thread yet.
LEMMA TimerPop ==
    ASSUME TypeInv, TimerInv, NEW next \in {"poll", "set_state"}, Pop(next)
    PROVE  TimerInv'
<1>1. round \in Nat /\ round' = round + 1 /\ round' \in Rounds
  BY PopType, BoundsAssumption DEF TypeInv, TypeOK, Pop, Rounds
<1>2. ender' = ender /\ pc' = next
  BY DEF Pop
<1>3. ender[round'].pc = "none"
  BY <1>1 DEF TimerInv
<1>4. \A r \in Rounds : r > round' => r > round
  BY <1>1, BoundsAssumption DEF Rounds
<1>5. QED
  BY <1>1, <1>2, <1>3, <1>4 DEF TimerInv, InHand

LEMMA TimerStep == TypeInv /\ TimerInv /\ [Next]_vars => TimerInv'
<1> SUFFICES ASSUME TypeInv, TimerInv, [Next]_vars
             PROVE  TimerInv'
  OBVIOUS
<1>1. ASSUME NEW m \in FirstMsgs, Construct(m)
      PROVE  TimerInv'
  BY <1>1 DEF Construct, TypeInv, TimerInv, InHand
<1>2. ASSUME NEW m \in ClientMsgs, Push(m)
      PROVE  TimerInv'
  BY <1>2 DEF Push, TimerInv, InHand
<1>3. CASE ClientRead
  BY <1>3 DEF ClientRead, TimerInv, InHand
<1>4. CASE RunReady \/ RunExit \/ RunClose \/ RunClear
  BY <1>4 DEF RunReady, RunExit, RunClose, RunClear, TimerInv, InHand
<1>5. CASE RunPopDuplicate \/ RunPop
  BY <1>5, TimerPop DEF RunPopDuplicate, RunPop
<1>6. CASE RunSetState \/ RunMark \/ RunSpawn \/ RunBranch
  BY <1>6, TimerKept
     DEF RunSetState, RunMark, RunSpawn, RunBranch, InHand
<1>7. ASSUME NEW answer \in Values, NEW geq \in BOOLEAN, RunUpper(answer, geq)
      PROVE  TimerInv'
  BY <1>7, TimerKept DEF RunUpper, InHand
<1>8. CASE RunSend \/ RunWrite \/ RunWriteFails
  BY <1>8, TimerKept
     DEF RunSend, RunWrite, RunWriteFails, AfterFailedSend, InHand
\* The timer of the answer starts with idle_check clear.
<1>9. CASE RunSent
  <2>1. round \in Rounds
    BY <1>9 DEF RunSent, TypeInv, TypeOK, InHand, Rounds
  <2>2. ender'[round].pc = "sleep"
    BY <1>9, <2>1 DEF RunSent, TypeInv, TypeOK
  <2>3. \A r \in Rounds : r > round => ender'[r] = ender[r]
    BY <1>9 DEF RunSent, TypeInv, TypeOK, Rounds
  <2>4. QED
    BY <1>9, <2>2, <2>3 DEF RunSent, TimerInv, InHand
<1>10. ASSUME NEW w \in Rounds, WaitThread(w)
       PROVE  TimerInv'
  BY <1>10 DEF WaitThread, WaitWake, WaitSend, WaitWrite, WaitUnchanged,
               TimerInv, InHand
\* With idle_check clear an end thread goes on counting or fires.
<1>11. ASSUME NEW e \in Rounds, EndWake(e)
       PROVE  TimerInv'
  <2>1. \A r \in Rounds : ender[r].pc = "none" => ender'[r].pc = "none"
    BY <1>11 DEF EndWake, TypeInv, TypeOK
  <2>2. \A r \in Rounds : ender[r].pc # "none" => ender'[r].pc # "none"
    BY <1>11 DEF EndWake, TypeInv, TypeOK
  <2>3. round \in Rounds \/ round = 0
    BY DEF TypeInv, TypeOK, Rounds
  <2>4. ASSUME pc \in {"poll", "pop"}, idle_check = 0, round \in Rounds,
               ender[round].pc = "sleep"
        PROVE  ender'[round].pc \in {"sleep", "fire"}
    BY <1>11, <2>4 DEF EndWake, Seen, Alive, TypeInv, TypeOK
  <2>5. ender[round].pc # "sleep" => ender'[round] = ender[round]
    BY <1>11 DEF EndWake, TypeInv, TypeOK
  <2>6. UNCHANGED <<pc, round, idle_check, cur_state>>
    BY <1>11 DEF EndWake, EndUnchanged
  <2>7. QED
    BY <2>1, <2>2, <2>3, <2>4, <2>5, <2>6 DEF TimerInv, InHand, TypeInv
<1>12. ASSUME NEW e \in Rounds, EndReset(e)
       PROVE  TimerInv'
  <2>1. \A r \in Rounds : r # e => ender'[r] = ender[r]
    BY <1>12 DEF EndReset, TypeInv, TypeOK
  <2>2. ender[e].pc = "reset" /\ ender'[e].pc = "exited"
    BY <1>12 DEF EndReset, TypeInv, TypeOK
  <2>3. UNCHANGED <<pc, round, cur_state>> /\ (idle_check = 0 => idle_check' = 0)
    BY <1>12 DEF EndReset, EndUnchanged
  <2>4. round \in Rounds \/ round = 0
    BY DEF TypeInv, TypeOK, Rounds
  <2>5. QED
    BY <2>1, <2>2, <2>3, <2>4 DEF TimerInv, InHand, TypeInv
\* An end thread that fires leaves SESSION_END behind.
<1>13. ASSUME NEW e \in Rounds, EndFire(e)
       PROVE  TimerInv'
  <2>1. \A r \in Rounds : r # e => ender'[r] = ender[r]
    BY <1>13 DEF EndFire, TypeInv, TypeOK
  <2>2. ender[e].pc = "fire" /\ ender'[e].pc = "exited"
    BY <1>13 DEF EndFire, TypeInv, TypeOK
  <2>3. UNCHANGED <<pc, round, idle_check>>
        /\ (Alive => cur_state' = "SESSION_END")
    BY <1>13 DEF EndFire, EndUnchanged
  <2>4. round \in Rounds \/ round = 0
    BY DEF TypeInv, TypeOK, Rounds
  <2>5. QED
    BY <2>1, <2>2, <2>3, <2>4 DEF TimerInv, InHand, TypeInv, Alive
<1>14. CASE RunSleep \/ Finished \/ UNCHANGED vars
  BY <1>14 DEF RunSleep, Finished, vars, TimerInv, InHand
<1>15. QED
  BY <1>1, <1>2, <1>3, <1>4, <1>5, <1>6, <1>7, <1>8, <1>9, <1>10, <1>11,
     <1>12, <1>13, <1>14
     DEF Next, Client, SessionThread, EndThread

\* A session back in its loop after a NEGO_MSG has a timer that nothing will
\* send home, or is already told to end.
THEOREM AnsweredSessionIsTimedCorrect == Spec => []AnsweredSessionIsTimed
<1>1. TimerInv => AnsweredSessionIsTimed
  BY DEF TimerInv, AnsweredSessionIsTimed, Armed
<1>2. QED
  BY <1>1, TypeInvariant, TimerInit, TimerStep, PTL DEF Spec

-----------------------------------------------------------------------------
(* The ending.                                                             *)

LEMMA EndInit == Init => EndInv
BY DEF Init, EndInv, EndingIsLast, EndWritten

\* Nothing is written and the session thread goes from one of the places
\* where an ending may be out to another.
LEMMA EndKept ==
    ASSUME EndInv, out' = out,
           EndWritten => /\ cur_state' = "SESSION_END"
                         /\ pc' \in {"poll", "close", "clear", "done"}
    PROVE  EndInv'
BY DEF EndInv, EndingIsLast, EndWritten

\* A WAIT_MSG may follow anything.
LEMMA EndAppendWait ==
    ASSUME EndInv, NEW m \in Content, m.type = "WAIT_MSG",
           out \in Seq(Content), out' = Append(out, m),
           UNCHANGED <<cur_state, pc>>
    PROVE  EndInv'
<1>1. /\ Len(out) \in Nat
      /\ Len(out') = Len(out) + 1
      /\ \A i \in 1 .. Len(out) : out'[i] = out[i]
      /\ out'[Len(out) + 1] = m
  BY AppendProperties, LenProperties
<1>2. EndingIsLast'
  <2>1. SUFFICES ASSUME NEW i \in 1 .. Len(out'), NEW j \in 1 .. Len(out'),
                        i < j, out'[i].type = "NEGO_END_MSG"
                 PROVE  out'[j].type = "WAIT_MSG"
    BY DEF EndingIsLast
  <2>2. i \in 1 .. Len(out) /\ out[i].type = "NEGO_END_MSG"
    BY <1>1, <2>1
  <2>3. CASE j \in 1 .. Len(out)
    BY <1>1, <2>1, <2>2, <2>3 DEF EndInv, EndingIsLast
  <2>4. CASE j = Len(out) + 1
    BY <1>1, <2>4
  <2>5. QED
    BY <1>1, <2>3, <2>4
<1>3. EndWritten' => EndWritten
  <2>1. ASSUME NEW i \in 1 .. Len(out'), out'[i].type = "NEGO_END_MSG"
        PROVE  EndWritten
    BY <1>1, <2>1 DEF EndWritten
  <2>2. QED
    BY <2>1 DEF EndWritten
<1>4. QED
  BY <1>2, <1>3 DEF EndInv

\* What the session thread writes is the first ending or no ending.
LEMMA EndAppendReply ==
    ASSUME EndInv, ~EndWritten, NEW m \in Content,
           out \in Seq(Content), out' = Append(out, m),
           m.type = "NEGO_END_MSG" => cur_state' = "SESSION_END" /\ pc' = "poll"
    PROVE  EndInv'
<1>1. /\ Len(out) \in Nat
      /\ Len(out') = Len(out) + 1
      /\ \A i \in 1 .. Len(out) : out'[i] = out[i]
      /\ out'[Len(out) + 1] = m
  BY AppendProperties, LenProperties
<1>2. \A i \in 1 .. Len(out') :
        out'[i].type = "NEGO_END_MSG" => i = Len(out') /\ m.type = "NEGO_END_MSG"
  BY <1>1 DEF EndWritten
<1>3. QED
  BY <1>1, <1>2 DEF EndInv, EndWritten, EndingIsLast

\* The client takes the oldest PDU.
LEMMA EndTail ==
    ASSUME EndInv, out \in Seq(Content), out # <<>>, out' = Tail(out),
           UNCHANGED <<cur_state, pc>>
    PROVE  EndInv'
<1>1. /\ Len(out) \in Nat \ {0}
      /\ Len(out') = Len(out) - 1
      /\ \A i \in 1 .. Len(out') : out'[i] = out[i + 1]
  BY HeadTailProperties, EmptySeq
<1>2. EndingIsLast'
  <2>1. SUFFICES ASSUME NEW i \in 1 .. Len(out'), NEW j \in 1 .. Len(out'),
                        i < j, out'[i].type = "NEGO_END_MSG"
                 PROVE  out'[j].type = "WAIT_MSG"
    BY DEF EndingIsLast
  <2>2. i + 1 \in 1 .. Len(out) /\ j + 1 \in 1 .. Len(out) /\ i + 1 < j + 1
    BY <1>1, <2>1
  <2>3. QED
    BY <1>1, <2>1, <2>2 DEF EndInv, EndingIsLast
<1>3. EndWritten' => EndWritten
  <2>1. ASSUME NEW i \in 1 .. Len(out'), out'[i].type = "NEGO_END_MSG"
        PROVE  EndWritten
    <3>1. i + 1 \in 1 .. Len(out) /\ out[i + 1].type = "NEGO_END_MSG"
      BY <1>1, <2>1
    <3>2. QED
      BY <3>1 DEF EndWritten
  <2>2. QED
    BY <2>1 DEF EndWritten
<1>4. QED
  BY <1>2, <1>3 DEF EndInv

LEMMA EndStep == TypeInv /\ EndInv /\ [Next]_vars => EndInv'
<1> SUFFICES ASSUME TypeInv, EndInv, [Next]_vars
             PROVE  EndInv'
  OBVIOUS
<1>1. ASSUME NEW m \in FirstMsgs, Construct(m)
      PROVE  EndInv'
  BY <1>1, EndKept DEF Construct, EndInv
<1>2. ASSUME NEW m \in ClientMsgs, Push(m)
      PROVE  EndInv'
  BY <1>2, EndKept DEF Push, EndInv
<1>3. CASE ClientRead
  BY <1>3, EndTail DEF ClientRead, TypeInv, TypeOK
\* In SESSION_END the loop is left and not entered again.
<1>4. CASE RunReady \/ RunExit \/ RunClose \/ RunClear
  BY <1>4, EndKept DEF RunReady, RunExit, RunClose, RunClear, EndInv
<1>5. CASE RunPopDuplicate \/ RunPop
  BY <1>5, EndKept DEF RunPopDuplicate, RunPop, Pop, EndInv
<1>6. CASE RunSetState \/ RunMark \/ RunSpawn \/ RunBranch
  BY <1>6, EndKept DEF RunSetState, RunMark, RunSpawn, RunBranch, EndInv
<1>7. ASSUME NEW answer \in Values, NEW geq \in BOOLEAN, RunUpper(answer, geq)
      PROVE  EndInv'
  BY <1>7, EndKept DEF RunUpper, EndInv
<1>8. CASE RunSend \/ RunWriteFails \/ RunSent
  BY <1>8, EndKept
     DEF RunSend, RunWriteFails, AfterFailedSend, RunSent, EndInv
<1>9. CASE RunWrite
  <2>1. ~EndWritten
    BY <1>9 DEF RunWrite, EndInv
  <2>2. reply \in Content /\ out \in Seq(Content)
    BY <1>9 DEF RunWrite, TypeInv, TypeOK
  <2>3. QED
    BY <1>9, <2>1, <2>2, EndAppendReply DEF RunWrite
<1>10. ASSUME NEW w \in Rounds, WaitWake(w) \/ WaitSend(w)
       PROVE  EndInv'
  BY <1>10, EndKept DEF WaitWake, WaitSend, WaitUnchanged, EndInv
<1>11. ASSUME NEW w \in Rounds, WaitWrite(w)
       PROVE  EndInv'
  <2>1. CASE out' = out
    BY <1>11, <2>1, EndKept DEF WaitWrite, WaitUnchanged, EndInv
  <2>2. CASE out' = Append(out, Plain("WAIT_MSG", "Waiting_time"))
    <3>1. PICK m \in Content :
            m.type = "WAIT_MSG" /\ m = Plain("WAIT_MSG", "Waiting_time")
      BY PlainType DEF MSG_TYPE, option_type, Plain, Objective
    <3>2. out' = Append(out, m)
      BY <2>2, <3>1
    <3>3. QED
      BY <1>11, <3>1, <3>2, EndAppendWait
         DEF WaitWrite, WaitUnchanged, TypeInv, TypeOK
  <2>3. QED
    BY <1>11, <2>1, <2>2 DEF WaitWrite
<1>12. ASSUME NEW e \in Rounds, EndThread(e)
       PROVE  EndInv'
  BY <1>12, EndKept
     DEF EndThread, EndWake, EndReset, EndFire, EndUnchanged, EndInv
<1>13. CASE RunSleep \/ Finished \/ UNCHANGED vars
  BY <1>13, EndKept DEF RunSleep, Finished, vars, EndInv
<1>14. QED
  BY <1>1, <1>2, <1>3, <1>4, <1>5, <1>6, <1>7, <1>8, <1>9, <1>10, <1>11,
     <1>12, <1>13
     DEF Next, Client, SessionThread, WaitThread

\* After a NEGO_END_MSG the connection carries WAIT_MSGs at most.
THEOREM EndingCorrect == Spec => []EndingIsLast
<1>1. EndInv => EndingIsLast
  BY DEF EndInv
<1>2. QED
  BY <1>1, TypeInvariant, EndInit, EndStep, PTL DEF Spec

\* A session found ended between two messages stays ended.
THEOREM IdleTimeoutCorrect == Spec => IdleTimeoutIsFinal
<1> DEFINE Stays == cur_state = "SESSION_END"
                      /\ pc \in {"poll", "pop", "set_state", "close", "clear"}
                      => cur_state' = "SESSION_END"
<1>1. ASSUME NEW m \in Content, Construct(m) \/ Push(m)
      PROVE  Stays
  BY <1>1 DEF Construct, Push
<1>2. SessionThread => Stays
  BY DEF SessionThread, RunReady, RunExit, RunPopDuplicate, RunPop, Pop,
         RunSetState, RunMark, RunSpawn, RunBranch, RunUpper, RunSend,
         RunWrite, RunWriteFails, RunSent, RunClose, RunClear
<1>3. ASSUME NEW r \in Rounds, WaitThread(r) \/ EndThread(r)
      PROVE  Stays
  BY <1>3 DEF WaitThread, WaitWake, WaitSend, WaitWrite, WaitUnchanged,
              EndThread, EndWake, EndReset, EndFire, EndUnchanged
<1>4. ClientRead \/ RunSleep \/ Finished => Stays
  BY DEF ClientRead, RunSleep, Finished, vars
<1>5. [Next]_vars => [Stays]_vars
  BY <1>1, <1>2, <1>3, <1>4, MsgsAssumption DEF Next, Client
<1>6. QED
  BY <1>5, PTL DEF Spec, IdleTimeoutIsFinal

=============================================================================
