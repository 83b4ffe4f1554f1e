-------------------------- MODULE NegotiationProofs --------------------------
(***************************************************************************)
(* Theorems about Negotiation, for every set of values, every bound, every *)
(* timeout and every loop count a client may start with.                   *)
(*                                                                         *)
(* The composition is first shown to implement ServerSession, for a        *)
(* session open to every message; the theorems of ServerSessionProofs then *)
(* hold of the session inside it.  RoundsLeft needs LoopInv: the reply the *)
(* session is about to write has a round left too.                         *)
(***************************************************************************)
EXTENDS Negotiation, ServerSessionProofs

\* The session alone takes any message.
AnyMessage ==
    /\ {m \in Content : m.type = "REQUEST_MSG"} \subseteq FirstMsgs
    /\ {m \in Content : m.type # "REQUEST_MSG"} \subseteq ClientMsgs

\* The client's buffer and its last PDU hold a PDU once they are used.
ClientInv ==
    /\ CN!ClientTypeOK
    /\ cpc # "off" => msg \in Content
    /\ cpc \notin {"off", "request"} => written \in Content

-----------------------------------------------------------------------------
(* Types, and every step is a step of the session or leaves it alone.      *)

\* ClientNego is instantiated: its vocabulary is the session's.
LEMMA SameContent == CN!Content = Content
BY DEF CN!Content, CN!MSG_TYPE, CN!option_type, CN!uint8, Content, MSG_TYPE,
       option_type, uint8

LEMMA SamePDUs ==
    /\ \A type, opt, loop, value :
         CN!Objective(type, opt, loop, value) = Objective(type, opt, loop, value)
    /\ \A type, opt : CN!Plain(type, opt) = Plain(type, opt)
    /\ \A loop : CN!Decremented(loop) = Decremented(loop)
BY DEF CN!Objective, Objective, CN!Plain, Plain, CN!Decremented, Decremented

LEMMA ClientInit == NInit => ClientInv
BY ClientAssumption
   DEF NInit, Init, ClientInv, CN!ClientInit, CN!ClientTypeOK, CN!ClientPCs

LEMMA SessionStep ==
    ASSUME AnyMessage, ClientInv, [NNext]_nvars
    PROVE  [Next]_vars
<1>1. CASE Call
  BY <1>1 DEF Call, CN!negotiate, CN!synchronize, CN!Start, server, vars
<1>2. CASE ClientSteps
  <2>1. CASE CN!Read
    BY <1>2, <2>1 DEF ClientSteps, CN!Read, server, Next, Client, ClientRead
  <2>2. CASE ~CN!Read
    <3>1. out' = out
      BY <1>2, <2>2
         DEF ClientSteps, CN!ClientThread, CN!SendRequest, CN!ReadTimesOut,
             CN!ReadEOF, CN!ReadStale, CN!AcceptProposal, CN!DeclineProposal,
             CN!CounterProposal, CN!HandleWait, CN!HandleEnd, CN!HandleOther,
             CN!Return
    <3>2. QED
      BY <1>2, <3>1 DEF ClientSteps, server, vars
  <2>3. QED
    BY <2>1, <2>2
<1>3. CASE Distribute
  <2>1. Head(up) \in Content
    <3>1. up \in Seq(Content)
      BY SameContent DEF ClientInv, CN!ClientTypeOK
    <3>2. up # <<>>
      BY <1>3 DEF Distribute
    <3>3. QED
      BY <3>1, <3>2, HeadTailProperties
  <2>2. QED
    <3>1. CASE Head(up).type = "REQUEST_MSG" /\ Construct(Head(up))
      BY <2>1, <3>1 DEF AnyMessage, Next, Client
    <3>2. CASE Head(up).type # "REQUEST_MSG" /\ Push(Head(up))
      BY <2>1, <3>2 DEF AnyMessage, Next, Client
    <3>3. QED
      BY <1>3, <3>1, <3>2 DEF Distribute
<1>4. CASE ServerSteps
  BY <1>4 DEF ServerSteps, Next
<1>5. CASE Quiet \/ UNCHANGED nvars
  BY <1>5 DEF Quiet, nvars, vars
<1>6. QED
  BY <1>1, <1>2, <1>3, <1>4, <1>5 DEF NNext

\* The client keeps its types.  out is typed by the session.
LEMMA ClientStep ==
    ASSUME ClientInv, out' \in Seq(Content), [NNext]_nvars
    PROVE  ClientInv'
<1> USE DEF ClientInv, CN!ClientTypeOK, CN!ClientPCs
<1> USE SameContent, SamePDUs
<1> DEFINE Appended == \/ up' = up
                       \/ \E m \in Content : up' = Append(up, m)
<1>0. ASSUME Appended
      PROVE  up' \in Seq(Content)
  <2>1. CASE up' = up
    BY <2>1
  <2>2. ASSUME NEW m \in Content, up' = Append(up, m)
        PROVE  up' \in Seq(Content)
    <3>1. up \in Seq(Content)
      OBVIOUS
    <3>2. QED
      BY <2>2, <3>1, AppendProperties
  <2>3. QED
    BY <1>0, <2>1, <2>2
<1> HIDE DEF Appended
<1>1. CASE Call
  <2>1. PICK value \in Values : CN!negotiate(value) \/ CN!synchronize(value)
    BY <1>1 DEF Call
  <2>2. PICK opt \in {"Negotiation", "Synchronization"}, loop \in uint8,
             entry \in {"negotiate", "synchronize"} :
          CN!Start(entry, opt, loop, value)
    <3>1. CASE CN!negotiate(value)
      <4>1. PICK loop \in LoopCounts :
              CN!Start("negotiate", "Negotiation", loop, value)
        BY <3>1 DEF CN!negotiate
      <4>2. loop \in uint8
        BY ClientAssumption
      <4>3. QED
        BY <4>1, <4>2
    <3>2. CASE CN!synchronize(value)
      <4>1. CN!Start("synchronize", "Synchronization", 1, value)
        BY <3>2 DEF CN!synchronize
      <4>2. 1 \in uint8
        BY DEF uint8
      <4>3. QED
        BY <4>1, <4>2
    <3>3. QED
      BY <2>1, <3>1, <3>2
  <2>3. Objective("REQUEST_MSG", opt, loop, value) \in Content
    BY <2>1 DEF Objective, Content, MSG_TYPE, option_type
  <2>4. QED
    BY <2>2, <2>3 DEF CN!Start
<1>2. CASE CN!SendRequest
  <2>1. Appended
    <3>1. msg \in Content
      BY <1>2 DEF CN!SendRequest
    <3>2. QED
      BY <1>2, <3>1 DEF CN!SendRequest, Appended
  <2>2. QED
    BY <1>0, <1>2, <2>1 DEF CN!SendRequest
<1>3. CASE CN!Read
  <2>1. out \in Seq(Content) /\ out # <<>>
    BY <1>3 DEF CN!Read
  <2>2. Head(out) \in Content
    BY <2>1, HeadTailProperties
  <2>3. QED
    BY <1>3, <2>2 DEF CN!Read, CN!Reading
<1>4. CASE CN!ReadTimesOut
  BY <1>4, ClientAssumption DEF CN!ReadTimesOut, CN!Unassigned, CN!Reading
<1>5. CASE CN!ReadEOF
  <2>1. msg \in Content
    BY <1>5 DEF CN!ReadEOF, CN!Reading
  <2>2. Plain(msg.type, "Divert") \in Content
    BY <2>1, PlainType DEF Content, option_type
  <2>3. QED
    BY <1>5, <2>2, ClientAssumption DEF CN!ReadEOF, CN!Unassigned, CN!Reading
<1>6. ASSUME NEW stale \in {msg, written}, CN!ReadStale(stale)
      PROVE  ClientInv'
  BY <1>6, ClientAssumption DEF CN!ReadStale, CN!Reading
\* Writing a PDU: write_pdu's two outcomes.
<1>7. ASSUME NEW m \in Content, NEW next \in CN!ClientPCs, CN!WritePDU(m, next)
      PROVE  /\ up' \in Seq(Content)
             /\ written' \in Content
             /\ cpc' \in {next, "return"}
             /\ rtnval' \in {"SUCCESS", "ERROR"}
  <2>1. Appended
    BY <1>7 DEF CN!WritePDU, Appended
  <2>2. QED
    BY <1>0, <1>7, <2>1 DEF CN!WritePDU
<1>8. CASE CN!AcceptProposal
  <2>1. Plain("NEGO_END_MSG", "Accept") \in Content
    BY PlainType DEF MSG_TYPE, option_type
  <2>2. msg.value \in Values \cup {NoValue}
    BY <1>8 DEF CN!AcceptProposal, Content
  <2>3. QED
    BY <1>7, <1>8, <2>1, <2>2 DEF CN!AcceptProposal
<1>9. CASE CN!DeclineProposal
  <2>1. Plain("NEGO_END_MSG", "Decline") \in Content
    BY PlainType DEF MSG_TYPE, option_type
  <2>2. QED
    BY <1>7, <1>9, <2>1 DEF CN!DeclineProposal
<1>10. ASSUME NEW answer \in Values, CN!CounterProposal(answer)
       PROVE  ClientInv'
  <2>1. msg \in Content
    BY <1>10 DEF CN!CounterProposal
  <2>2. Decremented(msg.loop) \in uint8
    BY <2>1, DecrementedIsByte DEF Content
  <2>3. Objective("NEGO_MSG", "Negotiation", Decremented(msg.loop), answer)
          \in Content
    BY <2>2 DEF Objective, Content, MSG_TYPE, option_type
  <2>4. QED
    BY <1>7, <1>10, <2>3 DEF CN!CounterProposal
<1>11. CASE CN!HandleWait
  BY <1>11 DEF CN!HandleWait
<1>12. CASE CN!HandleEnd
  BY <1>12 DEF CN!HandleEnd
<1>13. CASE CN!HandleOther
  BY <1>13 DEF CN!HandleOther
<1>14. CASE CN!Return
  <2>1. msg.value \in Values \cup {NoValue}
    BY <1>14 DEF CN!Return, Content
  <2>2. QED
    BY <1>14, <2>1 DEF CN!Return
<1>15. CASE Distribute
  <2>1. up' \in Seq(Content)
    <3>1. up \in Seq(Content) /\ up # <<>> /\ up' = Tail(up)
      BY <1>15 DEF Distribute
    <3>2. QED
      BY <3>1, HeadTailProperties
  <2>2. QED
    BY <1>15, <2>1 DEF Distribute, client
<1>16. CASE ServerSteps \/ Quiet \/ UNCHANGED nvars
  BY <1>16 DEF ServerSteps, Quiet, nvars, client
<1>17. QED
  BY <1>1, <1>2, <1>3, <1>4, <1>5, <1>6, <1>8, <1>9, <1>10, <1>11, <1>12,
     <1>13, <1>14, <1>15, <1>16
     DEF NNext, ClientSteps, CN!ClientThread

-----------------------------------------------------------------------------
(* The composition implements the session.                                 *)

NTypeInv == TypeInv /\ ClientInv

LEMMA NTypeInit == NInit => NTypeInv
BY TypeInit, ClientInit DEF NInit, NTypeInv

LEMMA NTypeStep ==
    ASSUME AnyMessage, NTypeInv, [NNext]_nvars
    PROVE  NTypeInv'
<1>1. [Next]_vars
  BY SessionStep DEF NTypeInv
<1>2. TypeInv'
  BY <1>1, TypeStep DEF NTypeInv
<1>3. out' \in Seq(Content)
  BY <1>2 DEF TypeInv, TypeOK
<1>4. ClientInv'
  BY <1>3, ClientStep DEF NTypeInv
<1>5. QED
  BY <1>2, <1>4 DEF NTypeInv

\* The strengthened type invariants hold throughout.
LEMMA NTypeInvariant ==
    ASSUME AnyMessage
    PROVE  NSpec => []NTypeInv
<1>1. NTypeInv /\ [NNext]_nvars => NTypeInv'
  BY NTypeStep
<1>2. QED
  BY <1>1, NTypeInit, PTL DEF NSpec

\* Client, connection and session keep their types.
THEOREM NTypeCorrect ==
    ASSUME AnyMessage
    PROVE  NSpec => []NTypeOK
<1>1. NTypeInv => NTypeOK
  BY DEF NTypeInv, NTypeOK, TypeInv, ClientInv
<1>2. QED
  BY <1>1, NTypeInvariant, PTL

\* The session inside the composition is a ServerSession: what is proved of
\* the one holds of the other.
THEOREM Implements ==
    ASSUME AnyMessage
    PROVE  NSpec => ServesAsSpecified
<1>1. NInit => Init
  BY DEF NInit
<1>2. NTypeInv /\ [NNext]_nvars => [Next]_vars
  BY SessionStep DEF NTypeInv
<1>3. QED
  BY <1>1, <1>2, NTypeInvariant, PTL DEF NSpec, Spec, ServesAsSpecified

-----------------------------------------------------------------------------
(* Every proposal on its way has a round left.                             *)

OpenIfProposal(m) == IsProposal(m) => m.loop > 0

LoopInv ==
    /\ RoundsLeft
    /\ pc \in {"send", "write"} => OpenIfProposal(reply)

\* Adding a PDU.
LEMMA AllOpenAppend ==
    ASSUME NEW s \in Seq(Content), NEW m \in Content,
           AllOpen(s), OpenIfProposal(m)
    PROVE  AllOpen(Append(s, m))
<1>1. /\ Len(s) \in Nat
      /\ Len(Append(s, m)) = Len(s) + 1
      /\ \A i \in 1 .. Len(s) : Append(s, m)[i] = s[i]
      /\ Append(s, m)[Len(s) + 1] = m
  BY AppendProperties, LenProperties
<1>2. DOMAIN s = 1 .. Len(s) /\ DOMAIN Append(s, m) = 1 .. Len(s) + 1
  BY <1>1, AppendProperties, LenProperties
<1>3. SUFFICES ASSUME NEW i \in 1 .. Len(s) + 1
               PROVE  OpenIfProposal(Append(s, m)[i])
  BY <1>2 DEF AllOpen, OpenIfProposal
<1>4. CASE i \in 1 .. Len(s)
  BY <1>1, <1>2, <1>4 DEF AllOpen, OpenIfProposal
<1>5. CASE i = Len(s) + 1
  BY <1>1, <1>5
<1>6. QED
  BY <1>1, <1>4, <1>5

\* Taking the oldest PDU.
LEMMA AllOpenTail ==
    ASSUME NEW s \in Seq(Content), s # <<>>, AllOpen(s)
    PROVE  /\ Head(s) \in Content /\ OpenIfProposal(Head(s))
           /\ AllOpen(Tail(s))
<1>1. /\ Len(s) \in Nat \ {0}
      /\ Head(s) \in Content /\ Head(s) = s[1]
      /\ Tail(s) \in Seq(Content) /\ Len(Tail(s)) = Len(s) - 1
      /\ \A i \in 1 .. Len(Tail(s)) : Tail(s)[i] = s[i + 1]
  BY HeadTailProperties, EmptySeq
<1>2. DOMAIN s = 1 .. Len(s) /\ DOMAIN Tail(s) = 1 .. Len(s) - 1
  BY <1>1, LenProperties
<1>3. OpenIfProposal(Head(s))
  BY <1>1, <1>2 DEF AllOpen, OpenIfProposal
<1>4. ASSUME NEW i \in 1 .. Len(s) - 1
      PROVE  OpenIfProposal(Tail(s)[i])
  <2>1. i + 1 \in 1 .. Len(s) /\ Tail(s)[i] = s[i + 1]
    BY <1>1
  <2>2. QED
    BY <1>2, <2>1 DEF AllOpen, OpenIfProposal
<1>5. QED
  BY <1>1, <1>2, <1>3, <1>4 DEF AllOpen, OpenIfProposal

LEMMA AllOpenEmpty == AllOpen(<<>>)
BY DEF AllOpen

\* A byte above 1, or 0, is not decremented to 0.
LEMMA DecrementedOpen ==
    ASSUME NEW loop \in uint8, loop # 1
    PROVE  Decremented(loop) > 0
BY DEF Decremented, uint8

\* The session proposes another round only when one is left.
LEMMA ReplyToOpen ==
    ASSUME NEW m \in Content, NEW answer, NEW geq \in BOOLEAN
    PROVE  OpenIfProposal(ReplyTo(m, answer, geq))
<1>1. m.loop \in uint8
  BY DEF Content
<1>2. Decremented(m.loop) \in uint8
  BY <1>1, DecrementedIsByte
<1>3. QED
  BY <1>2 DEF ReplyTo, OpenIfProposal, IsProposal, Objective, Plain, uint8

LEMMA LoopInit == NInit => LoopInv
BY AllOpenEmpty DEF NInit, Init, LoopInv, RoundsLeft

\* The steps of the session.
LEMMA LoopServer ==
    ASSUME NTypeInv, LoopInv, ServerSteps
    PROVE  LoopInv'
<1> USE DEF LoopInv, RoundsLeft
<1>0. up' = up /\ q \in Seq(Content) /\ out \in Seq(Content)
  BY DEF ServerSteps, NTypeInv, TypeInv, TypeOK
<1>1. CASE RunReady \/ RunExit \/ RunClose \/ RunSetState \/ RunMark
             \/ RunSpawn \/ RunBranch \/ RunSent
  BY <1>0, <1>1 DEF RunReady, RunExit, RunClose, RunSetState, RunMark,
                    RunSpawn, RunBranch, RunSent
<1>2. CASE RunPopDuplicate \/ RunPop
  <2>1. q # <<>>
    BY <1>2 DEF RunPopDuplicate, RunPop, Pop, NTypeInv, TypeInv
  <2>2. AllOpen(Tail(q))
    BY <1>0, <2>1, AllOpenTail
  <2>3. QED
    BY <1>0, <1>2, <2>2 DEF RunPopDuplicate, RunPop, Pop
<1>3. ASSUME NEW answer \in Values, NEW geq \in BOOLEAN, RunUpper(answer, geq)
      PROVE  LoopInv'
  <2>1. c \in Content
    BY <1>3 DEF RunUpper, NTypeInv, TypeInv, InHand
  <2>2. OpenIfProposal(ReplyTo(c, answer, geq))
    BY <2>1, ReplyToOpen
  <2>3. OpenIfProposal(reply)'
    BY <1>3, <2>2 DEF RunUpper, OpenIfProposal
  <2>4. QED
    BY <1>0, <1>3, <2>3 DEF RunUpper
<1>4. CASE RunSend \/ RunWriteFails
  BY <1>0, <1>4 DEF RunSend, RunWriteFails, AfterFailedSend, OpenIfProposal
<1>5. CASE RunWrite
  <2>1. reply \in Content /\ OpenIfProposal(reply)
    BY <1>5 DEF RunWrite, NTypeInv, TypeInv
  <2>2. AllOpen(Append(out, reply))
    BY <1>0, <2>1, AllOpenAppend
  <2>3. QED
    BY <1>0, <1>5, <2>2 DEF RunWrite
<1>6. CASE RunClear
  BY <1>0, <1>6, AllOpenEmpty DEF RunClear
<1>7. ASSUME NEW w \in Rounds, WaitThread(w)
      PROVE  LoopInv'
  <2> DEFINE Wait == Plain("WAIT_MSG", "Waiting_time")
  <2>1. Wait \in Content /\ OpenIfProposal(Wait)
    <3>1. Wait \in Content
      BY PlainType DEF MSG_TYPE, option_type
    <3>2. OpenIfProposal(Wait)
      BY DEF OpenIfProposal, IsProposal, Plain, Objective
    <3>3. QED
      BY <3>1, <3>2
  <2>2. AllOpen(Append(out, Wait))
    BY <1>0, <2>1, AllOpenAppend
  <2>3. out' = out \/ out' = Append(out, Wait)
    BY <1>7 DEF WaitThread, WaitWake, WaitSend, WaitWrite
  <2>4. UNCHANGED <<q, pc, reply>>
    BY <1>7 DEF WaitThread, WaitWake, WaitSend, WaitWrite, WaitUnchanged
  <2> HIDE DEF Wait
  <2>5. QED
    BY <1>0, <2>2, <2>3, <2>4 DEF OpenIfProposal
<1>8. ASSUME NEW e \in Rounds, EndThread(e)
      PROVE  LoopInv'
  BY <1>0, <1>8 DEF EndThread, EndWake, EndReset, EndFire, EndUnchanged,
                    OpenIfProposal
<1>9. CASE RunSleep
  BY <1>0, <1>9 DEF RunSleep, vars, OpenIfProposal
<1>10. QED
  BY <1>1, <1>2, <1>3, <1>4, <1>5, <1>6, <1>7, <1>8, <1>9
     DEF ServerSteps, SessionThread

\* The steps of the client.  A PDU it proposes has a byte other than 1 less
\* one for its loop count; its request has the count send_negotiate has
\* tested.
LEMMA LoopClient ==
    ASSUME NTypeInv, LoopInv, ClientSteps
    PROVE  LoopInv'
<1> USE DEF LoopInv, RoundsLeft
<1>0. /\ UNCHANGED <<q, pc, reply>>
      /\ up \in Seq(Content) /\ out \in Seq(Content)
  BY SameContent DEF ClientSteps, server, NTypeInv, TypeInv, TypeOK, ClientInv,
                     CN!ClientTypeOK
\* What is left to show.
<1>1. AllOpen(up)' /\ AllOpen(out)' => LoopInv'
  BY <1>0 DEF OpenIfProposal, AllOpen
<1>2. ASSUME NEW m \in Content, OpenIfProposal(m),
             up' = up \/ up' = Append(up, m), out' = out
      PROVE  LoopInv'
  <2>1. AllOpen(Append(up, m))
    BY <1>0, <1>2, AllOpenAppend
  <2>2. AllOpen(up') /\ AllOpen(out')
    BY <1>2, <2>1
  <2>3. QED
    BY <1>1, <2>2
<1>3. CASE CN!SendRequest
  <2>1. msg \in Content /\ msg.loop # 0
    BY <1>3 DEF CN!SendRequest, NTypeInv, ClientInv
  <2>2. OpenIfProposal(msg)
    BY <2>1 DEF OpenIfProposal, Content, uint8
  <2>3. QED
    BY <1>2, <1>3, <2>1, <2>2 DEF CN!SendRequest
<1>4. CASE CN!Read
  <2>1. out # <<>> /\ out' = Tail(out) /\ up' = up
    BY <1>4 DEF CN!Read
  <2>2. AllOpen(Tail(out))
    BY <1>0, <2>1, AllOpenTail
  <2>3. QED
    BY <1>1, <2>1, <2>2
<1>5. CASE CN!AcceptProposal \/ CN!DeclineProposal
  <2>1. PICK opt \in {"Accept", "Decline"} :
          /\ up' = up \/ up' = Append(up, Plain("NEGO_END_MSG", opt))
          /\ out' = out
    BY <1>5, SamePDUs DEF CN!AcceptProposal, CN!DeclineProposal, CN!WritePDU
  <2>2. Plain("NEGO_END_MSG", opt) \in Content
    BY PlainType DEF MSG_TYPE, option_type
  <2>3. OpenIfProposal(Plain("NEGO_END_MSG", opt))
    BY DEF OpenIfProposal, IsProposal, Plain, Objective
  <2>4. QED
    BY <1>2, <2>1, <2>2, <2>3
<1>6. ASSUME NEW answer \in Values, CN!CounterProposal(answer)
      PROVE  LoopInv'
  <2> DEFINE m == Objective("NEGO_MSG", "Negotiation", Decremented(msg.loop),
                            answer)
  <2>1. msg \in Content /\ msg.loop \in uint8 /\ msg.loop # 1
    BY <1>6 DEF CN!CounterProposal, NTypeInv, ClientInv, Content
  <2>2. Decremented(msg.loop) \in uint8 /\ Decremented(msg.loop) > 0
    BY <2>1, DecrementedIsByte, DecrementedOpen
  <2>3. m \in Content /\ OpenIfProposal(m)
    BY <2>2 DEF Objective, Content, MSG_TYPE, option_type, OpenIfProposal
  <2>4. out' = out /\ (up' = up \/ up' = Append(up, m))
    BY <1>6, SamePDUs DEF CN!CounterProposal, CN!WritePDU
  <2> HIDE DEF m
  <2>5. QED
    BY <1>2, <2>3, <2>4
<1>7. ASSUME up' = up, out' = out
      PROVE  LoopInv'
  BY <1>1, <1>7
<1>8. QED
  BY <1>3, <1>4, <1>5, <1>6, <1>7
     DEF ClientSteps, CN!ClientThread, CN!ReadTimesOut, CN!ReadEOF,
         CN!ReadStale, CN!HandleWait, CN!HandleEnd, CN!HandleOther, CN!Return

LEMMA LoopStep == NTypeInv /\ LoopInv /\ [NNext]_nvars => LoopInv'
<1> SUFFICES ASSUME NTypeInv, LoopInv, [NNext]_nvars
             PROVE  LoopInv'
  OBVIOUS
<1> USE DEF LoopInv, RoundsLeft
<1>1. CASE Call
  BY <1>1 DEF Call, server, CN!negotiate, CN!synchronize, CN!Start,
              OpenIfProposal
\* The run loop moves a PDU from the connection to the queue.
<1>2. CASE Distribute
  <2>1. up \in Seq(Content) /\ q \in Seq(Content) /\ up # <<>> /\ up' = Tail(up)
    BY <1>2, SameContent DEF Distribute, NTypeInv, TypeInv, TypeOK, ClientInv,
                             CN!ClientTypeOK
  <2>2. /\ Head(up) \in Content /\ OpenIfProposal(Head(up))
        /\ AllOpen(up')
    BY <2>1, AllOpenTail
  <2>3. CASE Construct(Head(up))
    <3>1. q' = Append(<<>>, Head(up))
      BY <2>3 DEF Construct
    <3>2. <<>> \in Seq(Content)
      OBVIOUS
    <3>3. AllOpen(q')
      BY <2>2, <3>1, <3>2, AllOpenAppend, AllOpenEmpty
    <3>4. QED
      BY <2>2, <2>3, <3>3 DEF Construct
  <2>4. CASE Push(Head(up))
    <3>1. q' = Append(q, Head(up))
      BY <2>4 DEF Push
    <3>2. AllOpen(q')
      BY <2>1, <2>2, <3>1, AllOpenAppend
    <3>3. QED
      BY <2>2, <2>4, <3>2 DEF Push, OpenIfProposal
  <2>5. CASE UNCHANGED vars
    BY <2>2, <2>5 DEF vars, OpenIfProposal
  <2>6. QED
    BY <1>2, <2>3, <2>4, <2>5 DEF Distribute
<1>3. CASE Quiet \/ UNCHANGED nvars
  BY <1>3 DEF Quiet, nvars, vars, OpenIfProposal
<1>4. QED
  BY <1>1, <1>2, <1>3, LoopServer, LoopClient DEF NNext

\* Neither side ever sends or queues a proposal without a round left, so the
\* byte the session decrements is never 0.
THEOREM RoundsLeftCorrect ==
    ASSUME AnyMessage
    PROVE  NSpec => []RoundsLeft
<1>1. LoopInv => RoundsLeft
  BY DEF LoopInv
<1>2. QED
  BY <1>1, NTypeInvariant, LoopInit, LoopStep, PTL DEF NSpec

=============================================================================
