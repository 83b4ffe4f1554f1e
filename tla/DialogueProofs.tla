---------------------------- MODULE DialogueProofs ----------------------------
(***************************************************************************)
(* Client and session hold one Dialogue: every step of Negotiation is a    *)
(* step of Dialogue, or leaves the dialogue alone.                         *)
(*                                                                         *)
(* TakesTurns says that a single PDU is in play, and Agreement what value  *)
(* is remembered; SpeakInv adds what the PDU in play is: the proposal the  *)
(* client wrote last, or the session's reply to it, with one round less.   *)
(* A session with nothing in hand says nothing (SessionIdle), so a step of *)
(* the session that is seen in the dialogue answers that proposal or loses *)
(* it; the client's steps are then taken one action at a time.             *)
(***************************************************************************)
EXTENDS AgreementProofs

\* What the call is about.
Subject == IF call = "synchronize" THEN "Synchronization" ELSE "Negotiation"

\* m is the proposal the client has written last.
Says(m) ==
    /\ IsProposal(m) /\ m.opt = Subject
    /\ m.value = written.value /\ m.loop = written.loop

\* The session's reply to that proposal.
Replies ==
    /\ c.value = written.value
    /\ \/ /\ call = "negotiate" /\ reply.type = "NEGO_MSG"
          /\ reply.opt = "Negotiation" /\ reply.value \in Values
          /\ reply.loop = written.loop - 1 /\ reply.loop > 0
       \/ /\ call = "negotiate" /\ reply.type = "NEGO_END_MSG"
          /\ reply.opt \in {"Accept", "Decline"}
       \/ /\ call = "synchronize" /\ reply.type = "NEGO_END_MSG"
          /\ reply.opt = "Synchronization" /\ reply.value \in Values

WaitsForReply ==
    /\ written.value \in Values /\ written.loop > 0
    /\ \A m \in PDUs(up) \cup PDUs(q) : Says(m)
    /\ Answering => Says(c)
    /\ pc \in {"send", "write"} \/ ToClient => Replies

SpeakInv ==
    /\ cpc = "off" <=> call = "none"
    /\ cpc \in {"off", "request"} => garbage = 0
    /\ cpc = "request" => msg.value \in Values /\ msg.opt = Subject
                            /\ msg.type = "REQUEST_MSG"
    /\ garbage = 0 =>
         /\ ~Returned /\ cpc \notin {"off", "request"} => WaitsForReply
         /\ cpc = "return" /\ call = "synchronize" /\ rtnval = "SUCCESS" =>
              /\ config = {} /\ msg.value = reply.value
              /\ reply.type = "NEGO_END_MSG" /\ reply.opt = "Synchronization"
              /\ reply.value \in Values

-----------------------------------------------------------------------------
(* SpeakInv is an invariant.                                               *)

LEMMA DecrementedLess ==
    ASSUME NEW loop \in uint8, loop > 0
    PROVE  Decremented(loop) = loop - 1
BY DEF Decremented, uint8

\* A proposal the client answers with one of its own had a second round.
LEMMA RoundGoesOn ==
    ASSUME NEW m \in Content, m.loop > 0, m.loop # 1
    PROVE  Decremented(m.loop) = m.loop - 1 /\ Decremented(m.loop) > 0
<1>1. m.loop \in uint8
  BY DEF Content
<1>2. Decremented(m.loop) = m.loop - 1
  BY <1>1, DecrementedLess
<1>3. m.loop \in Nat
  BY <1>1 DEF uint8
<1>4. QED
  BY <1>2, <1>3

\* A wait thread writes nothing but WAIT_MSGs.
LEMMA WaitIsSilent ==
    ASSUME NTypeInv, NEW w \in Rounds, WaitThread(w)
    PROVE  UNCHANGED <<q, pc, c, reply>> /\ (Silent <=> Silent')
<1> DEFINE Wait == Plain("WAIT_MSG", "Waiting_time")
<1>1. /\ UNCHANGED <<q, pc, c, reply>>
      /\ out' = out \/ out' = Append(out, Wait)
  BY DEF WaitThread, WaitWake, WaitSend, WaitWrite, WaitUnchanged
<1>2. Wait \in Content
  BY PlainType DEF MSG_TYPE, option_type
<1>3. ~NotWait(Wait)
  BY DEF NotWait, Plain, Objective
<1> HIDE DEF Wait
<1>4. PDUs(out') = PDUs(out) \/ PDUs(out') = PDUs(out) \cup {Wait}
  BY <1>1, <1>2, PlayTypes, PDUsAppend
<1>5. QED
  BY <1>1, <1>3, <1>4 DEF Silent

LEMMA SpeakInit == NInit => SpeakInv
BY DEF NInit, CN!ClientInit, SpeakInv, Returned

\* A step of the session that says nothing.
LEMMA SpeakKept ==
    ASSUME SpeakInv, UNCHANGED <<client, c, reply>>,
           PDUs(up') \cup PDUs(q') \subseteq PDUs(up) \cup PDUs(q),
           Answering' => Answering,
           pc' \in {"send", "write"} => pc \in {"send", "write"},
           Silent => Silent'
    PROVE  SpeakInv'
<1>1. UNCHANGED <<call, cpc, msg, written, config, rtnval, garbage>>
  BY DEF client
<1>2. WaitsForReply => WaitsForReply'
  BY <1>1 DEF WaitsForReply, Says, Subject, Replies, ToClient, Handling
<1>3. QED
  BY <1>1, <1>2 DEF SpeakInv, Returned, Subject

LEMMA SpeakPop ==
    ASSUME NTypeInv, TurnInv, SpeakInv, UNCHANGED <<client, up>>,
           RunPopDuplicate \/ RunPop
    PROVE  SpeakInv'
<1>1. /\ UNCHANGED <<call, cpc, msg, written, config, rtnval, garbage>>
      /\ UNCHANGED <<up, reply, out>>
      /\ pc' \in {"poll", "set_state"}
  BY DEF client, RunPopDuplicate, RunPop, Pop
<1>2. q # <<>> /\ PDUs(q') \subseteq PDUs(q) /\ c' \in PDUs(q)
  <2>1. /\ q \in Seq(Content) /\ q # <<>>
        /\ q' = Tail(q) /\ c' = Head(q)
    BY PlayTypes DEF RunPopDuplicate, RunPop, Pop, NTypeInv, TypeInv
  <2>2. QED
    BY <2>1, PDUsTail
<1>3. garbage = 0 => Silent' /\ ~Handling'
  BY <1>1, <1>2, OnePlace DEF Silent, Handling
<1>4. garbage = 0 /\ WaitsForReply => WaitsForReply'
  BY <1>1, <1>2, <1>3 DEF WaitsForReply, Says, Subject, ToClient
<1>5. QED
  BY <1>1, <1>4 DEF SpeakInv, Returned, Subject

\* run() answers the proposal in hand, and a proposal of its own has a round
\* less.
LEMMA ReplyReplies ==
    ASSUME NEW m \in Content, NEW answer \in Values, NEW geq \in BOOLEAN,
           m.loop > 0
    PROVE  LET r == ReplyTo(m, answer, geq) IN
           IF m.opt = "Synchronization"
             THEN /\ r.type = "NEGO_END_MSG" /\ r.opt = "Synchronization"
                  /\ r.value \in Values
             ELSE \/ /\ r.type = "NEGO_MSG" /\ r.opt = m.opt
                     /\ r.value \in Values
                     /\ r.loop = m.loop - 1 /\ r.loop > 0
                  \/ r.type = "NEGO_END_MSG" /\ r.opt \in {"Accept", "Decline"}
<1>1. /\ Decremented(m.loop) = m.loop - 1
      /\ Decremented(m.loop) # 0 => m.loop - 1 > 0
  <2>1. m.loop \in uint8
    BY DEF Content
  <2>2. Decremented(m.loop) = m.loop - 1
    BY <2>1, DecrementedLess
  <2>3. m.loop \in Nat
    BY <2>1 DEF uint8
  <2>4. QED
    BY <2>2, <2>3
<1>2. QED
  BY <1>1 DEF ReplyTo, Objective, Plain

LEMMA SpeakUpper ==
    ASSUME NTypeInv, OfferInv, AgreeInv, SpeakInv, UNCHANGED <<client, up>>,
           NEW answer \in Values, NEW geq \in BOOLEAN, RunUpper(answer, geq)
    PROVE  SpeakInv'
<1>1. /\ UNCHANGED <<call, cpc, msg, written, config, rtnval, garbage>>
      /\ UNCHANGED <<up, q, c, out>>
      /\ reply' = ReplyTo(c, answer, geq) /\ pc' = "send"
      /\ Answering
  BY DEF client, RunUpper, Answering
<1>2. c \in Content /\ IsProposal(c)
  BY DEF RunUpper, NTypeInv, TypeInv, InHand, OfferInv
<1>3. ASSUME WaitsForReply, call \in {"negotiate", "synchronize"}
      PROVE  WaitsForReply'
  <2>1. Says(c) /\ c.loop > 0
    BY <1>1, <1>3 DEF WaitsForReply, Says
  <2>2. Replies'
    <3>1. CASE call = "synchronize"
      BY <1>1, <1>2, <2>1, <3>1, ReplyReplies DEF Replies, Says, Subject
    <3>2. CASE call = "negotiate"
      BY <1>1, <1>2, <2>1, <3>2, ReplyReplies DEF Replies, Says, Subject
    <3>3. QED
      BY <1>3, <3>1, <3>2
  <2>3. QED
    BY <1>1, <1>3, <2>1, <2>2 DEF WaitsForReply, Says, Subject
<1>4. call \in {"none", "negotiate", "synchronize"}
  BY DEF NTypeInv, ClientInv, CN!ClientTypeOK
\* A client that has been answered has left no proposal behind.
<1>5. ~(garbage = 0 /\ cpc = "return" /\ call = "synchronize"
          /\ rtnval = "SUCCESS")
  BY <1>1, <1>2 DEF AgreeInv, Returned, Result, SettledInv
<1>6. QED
  <2>1. garbage = 0 /\ ~Returned /\ cpc \notin {"off", "request"}
          => WaitsForReply'
    BY <1>3, <1>4 DEF SpeakInv
  <2>2. Returned' = Returned /\ Subject' = Subject
    BY <1>1 DEF Returned, Subject
  <2>3. QED
    BY <1>1, <1>5, <2>1, <2>2 DEF SpeakInv

LEMMA SpeakWrite ==
    ASSUME SpeakInv, UNCHANGED <<client, up>>, RunWrite
    PROVE  SpeakInv'
<1>1. UNCHANGED <<call, cpc, msg, written, config, rtnval, garbage>>
  BY DEF client
<1>2. /\ UNCHANGED <<up, q, c, reply>>
      /\ pc = "write" /\ pc' \in {"poll", "sent"}
  BY DEF RunWrite
<1>3. WaitsForReply => WaitsForReply'
  BY <1>1, <1>2 DEF WaitsForReply, Says, Subject, Replies, Answering
<1>4. QED
  BY <1>1, <1>2, <1>3 DEF SpeakInv, Returned, Subject

LEMMA SpeakServer ==
    ASSUME NTypeInv, TurnInv, OfferInv, AgreeInv, SpeakInv, ServerSteps
    PROVE  SpeakInv'
<1>0. UNCHANGED <<client, up>>
  BY DEF ServerSteps
<1>1. CASE RunReady \/ RunExit \/ RunClose \/ RunSetState \/ RunMark
             \/ RunSpawn \/ RunBranch \/ RunSent \/ RunSleep
  BY <1>0, <1>1, SpeakKept
     DEF RunReady, RunExit, RunClose, RunSetState, RunMark, RunSpawn,
         RunBranch, RunSent, RunSleep, vars, Answering, Silent
<1>2. CASE RunPopDuplicate \/ RunPop
  BY <1>0, <1>2, SpeakPop
<1>3. ASSUME NEW answer \in Values, NEW geq \in BOOLEAN, RunUpper(answer, geq)
      PROVE  SpeakInv'
  BY <1>0, <1>3, SpeakUpper
<1>4. CASE RunSend \/ RunWriteFails
  BY <1>0, <1>4, SpeakKept
     DEF RunSend, RunWriteFails, AfterFailedSend, Answering, Silent
<1>5. CASE RunWrite
  BY <1>0, <1>5, SpeakWrite
<1>6. CASE RunClear
  BY <1>0, <1>6, SpeakKept, PDUsEmpty DEF RunClear, Answering, Silent
<1>7. ASSUME NEW w \in Rounds, WaitThread(w)
      PROVE  SpeakInv'
  <2>1. UNCHANGED <<q, pc, c, reply>> /\ (Silent => Silent')
    BY <1>7, WaitIsSilent
  <2>2. QED
    BY <1>0, <2>1, SpeakKept DEF Answering
<1>8. ASSUME NEW e \in Rounds, EndThread(e)
      PROVE  SpeakInv'
  BY <1>0, <1>8, SpeakKept
     DEF EndThread, EndWake, EndReset, EndFire, EndUnchanged, Answering, Silent
<1>9. QED
  BY <1>1, <1>2, <1>3, <1>4, <1>5, <1>6, <1>7, <1>8
     DEF ServerSteps, SessionThread

LEMMA SpeakDistribute ==
    ASSUME NTypeInv, SpeakInv, Distribute
    PROVE  SpeakInv'
<1>1. /\ UNCHANGED client /\ UNCHANGED <<out, c, reply>>
      /\ Answering' = Answering
      /\ PDUs(up') \cup PDUs(q') \subseteq PDUs(up) \cup PDUs(q)
      /\ pc' \in {"upper", "send", "write"} => pc' = pc
  BY DistributeMoves
<1>2. QED
  BY <1>1, SpeakKept DEF Silent

\* The client's steps.
LEMMA SpeakRequest ==
    ASSUME NTypeInv, TurnInv, SpeakInv, CN!SendRequest,
           UNCHANGED <<q, pc, c, reply>>
    PROVE  SpeakInv'
<1>1. /\ cpc = "request" /\ msg \in Content /\ msg.loop # 0
      /\ written' = msg /\ UNCHANGED <<call, msg, config, garbage, out>>
      /\ up = <<>> /\ q = <<>> /\ out = <<>> /\ ~Answering /\ pc = "new"
  BY DEF CN!SendRequest, TurnInv, Unborn, NTypeInv, TypeInv, ClientInv,
         Answering
<1>2. msg.value \in Values /\ msg.opt = Subject /\ msg.type = "REQUEST_MSG"
  BY <1>1 DEF SpeakInv
<1>3. CASE up' = Append(up, msg) /\ cpc' = "read" /\ rtnval' = rtnval
  <2>1. PDUs(up') \cup PDUs(q') = {msg}
    <3>1. PDUs(up') = PDUs(up) \cup {msg}
      BY <1>1, <1>3, PlayTypes, PDUsAppend
    <3>2. QED
      BY <1>1, <3>1, PDUsEmpty
  <2>2. Says(msg)'
    BY <1>1, <1>2 DEF Says, IsProposal, Subject
  <2>3. ~Answering' /\ ~ToClient' /\ pc' = "new"
    BY <1>1, <1>3, PDUsEmpty DEF Answering, ToClient, Silent, Handling
  <2>4. written'.loop > 0
    <3>1. msg.loop \in uint8
      BY <1>1 DEF Content
    <3>2. \A loop \in uint8 : loop # 0 => loop > 0
      BY DEF uint8
    <3>3. QED
      BY <1>1, <3>1, <3>2
  <2>5. WaitsForReply'
    BY <1>1, <1>2, <2>1, <2>2, <2>3, <2>4 DEF WaitsForReply
  <2>6. QED
    BY <1>1, <1>3, <2>5 DEF SpeakInv
<1>4. CASE cpc' = "return" /\ rtnval' = "ERROR"
  BY <1>1, <1>4 DEF SpeakInv, Returned
<1>5. QED
  BY <1>3, <1>4 DEF CN!SendRequest

LEMMA SpeakRead ==
    ASSUME NTypeInv, SpeakInv, CN!Read, UNCHANGED <<q, pc, c, reply>>
    PROVE  SpeakInv'
<1>1. /\ UNCHANGED <<call, written, config, rtnval, garbage, up>>
      /\ cpc \in CN!Reading /\ cpc' = "handle" /\ msg' = Head(out)
      /\ out # <<>> /\ out' = Tail(out)
  BY DEF CN!Read
<1>2. PDUs(out') \subseteq PDUs(out) /\ msg' \in PDUs(out)
  BY <1>1, PlayTypes, PDUsTail
<1>3. ToClient' => ToClient
  BY <1>1, <1>2 DEF ToClient, Silent, Handling
<1>4. WaitsForReply => WaitsForReply'
  BY <1>1, <1>3 DEF WaitsForReply, Says, Subject, Replies, Answering
<1>5. ~Returned /\ ~Returned' /\ cpc \notin {"off", "request"}
  BY <1>1 DEF CN!Reading, Returned
<1>6. QED
  BY <1>1, <1>4, <1>5 DEF SpeakInv, Subject

\* The client reads on, or goes without a result.
LEMMA SpeakNoResult ==
    ASSUME SpeakInv, cpc \notin {"off", "request"}, ~Returned,
           UNCHANGED <<call, written, config, garbage, up, out>>,
           UNCHANGED <<q, pc, c, reply>>,
           \/ cpc' \in CN!Reading /\ rtnval' = rtnval
           \/ cpc' = "return" /\ rtnval' = "ERROR"
    PROVE  SpeakInv'
<1>1. CASE cpc' \in CN!Reading /\ rtnval' = rtnval
  <2>1. ~Returned' /\ ~Handling' /\ cpc' \notin {"off", "request"}
          /\ cpc' # "return"
    BY <1>1 DEF CN!Reading, Returned, Handling
  <2>2. ToClient' => ToClient
    BY <2>1 DEF ToClient, Silent
  <2>3. WaitsForReply => WaitsForReply'
    BY <2>2 DEF WaitsForReply, Says, Subject, Replies, Answering
  <2>4. QED
    BY <2>1, <2>3 DEF SpeakInv
<1>2. CASE cpc' = "return" /\ rtnval' = "ERROR"
  BY <1>2 DEF SpeakInv, Returned
<1>3. QED
  BY <1>1, <1>2

\* The client has a NEGO_MSG in hand: it is the session's counter-proposal.
LEMMA CounterInHand ==
    ASSUME NTypeInv, TurnInv, OfferInv, AgreeInv, SpeakInv, garbage = 0,
           cpc = "handle", msg.type = "NEGO_MSG"
    PROVE  /\ call = "negotiate" /\ msg = reply /\ Replies
           /\ msg.loop > 0 /\ msg.value \in Values
           /\ WaitsForReply
<1>1. msg = reply
  BY InHandIsLast
<1>2. ToClient /\ ~Returned
  BY DEF ToClient, Handling, NotWait, Returned
<1>3. WaitsForReply /\ Replies
  BY <1>2 DEF SpeakInv, WaitsForReply
<1>4. QED
  BY <1>1, <1>3 DEF Replies

LEMMA SpeakEnds ==
    ASSUME NTypeInv, TurnInv, OfferInv, AgreeInv, SpeakInv,
           UNCHANGED <<q, pc, c, reply>>,
           CN!AcceptProposal \/ CN!DeclineProposal
    PROVE  SpeakInv'
<1>1. /\ cpc = "handle" /\ msg.type = "NEGO_MSG" /\ cpc' = "return"
      /\ UNCHANGED <<call, garbage>>
  BY DEF CN!AcceptProposal, CN!DeclineProposal, CN!WritePDU
<1>2. garbage = 0 => call = "negotiate"
  BY <1>1, CounterInHand
<1>3. QED
  BY <1>1, <1>2 DEF SpeakInv, Returned

LEMMA SpeakCounter ==
    ASSUME NTypeInv, TurnInv, OfferInv, AgreeInv, SpeakInv,
           UNCHANGED <<q, pc, c, reply>>,
           NEW answer \in Values, CN!CounterProposal(answer)
    PROVE  SpeakInv'
<1>1. PICK m \in Content :
        /\ m = Objective("NEGO_MSG", "Negotiation", Decremented(msg.loop),
                         answer)
        /\ cpc = "handle" /\ msg.type = "NEGO_MSG" /\ msg.loop # 1
        /\ written' = m
        /\ UNCHANGED <<call, msg, config, garbage, out>>
        /\ \/ up' = Append(up, m) /\ cpc' = "read" /\ rtnval' = "SUCCESS"
           \/ cpc' = "return" /\ rtnval' = "ERROR"
  BY SamePDUs, CounterContent DEF CN!CounterProposal, CN!WritePDU
<1>2. m \in Content
  OBVIOUS
<1>3. /\ m.value = answer /\ m.loop = Decremented(msg.loop)
      /\ m.opt = "Negotiation" /\ IsProposal(m)
  BY <1>1 DEF Objective, IsProposal
<1>4. SUFFICES ASSUME garbage = 0
               PROVE  SpeakInv'
  BY <1>1 DEF SpeakInv
<1>5. /\ up = <<>> /\ q = <<>> /\ Silent /\ ~Answering
      /\ call = "negotiate" /\ msg.loop > 0 /\ msg \in Content
  BY <1>1, <1>4, InHandIsLast, CounterInHand
<1>6. CASE up' = Append(up, m) /\ cpc' = "read" /\ rtnval' = "SUCCESS"
  <2>1. PDUs(up') \cup PDUs(q') = {m}
    <3>1. PDUs(up') = PDUs(up) \cup {m}
      BY <1>2, <1>6, PlayTypes, PDUsAppend
    <3>2. QED
      BY <1>5, <3>1, PDUsEmpty
  <2>2. ~Answering' /\ pc' \notin {"send", "write"} /\ ~ToClient'
    BY <1>1, <1>5, <1>6 DEF Answering, Handling, Silent, ToClient
  <2>3. m.loop > 0
    BY <1>1, <1>3, <1>5, RoundGoesOn
  <2>4. Says(m)'
    BY <1>1, <1>3, <1>5 DEF Says, Subject, IsProposal
  <2>5. WaitsForReply'
    BY <1>1, <1>3, <2>1, <2>2, <2>3, <2>4 DEF WaitsForReply
  <2>6. QED
    BY <1>1, <1>5, <1>6, <2>5 DEF SpeakInv
<1>7. CASE cpc' = "return" /\ rtnval' = "ERROR"
  BY <1>1, <1>5, <1>7 DEF SpeakInv, Returned
<1>8. QED
  BY <1>1, <1>6, <1>7

LEMMA SpeakEnded ==
    ASSUME NTypeInv, TurnInv, OfferInv, AgreeInv, SpeakInv,
           UNCHANGED <<q, pc, c, reply>>, CN!HandleEnd
    PROVE  SpeakInv'
<1>1. /\ cpc = "handle" /\ msg.type = "NEGO_END_MSG" /\ cpc' = "return"
      /\ config' = IF msg.opt = "Accept" THEN config \cup {lastTopOptions}
                                         ELSE config
      /\ UNCHANGED <<call, msg, garbage>>
  BY DEF CN!HandleEnd
<1>2. ASSUME garbage = 0, call = "synchronize"
      PROVE  /\ config' = {} /\ msg = reply
             /\ reply.type = "NEGO_END_MSG" /\ reply.opt = "Synchronization"
             /\ reply.value \in Values
  <2>1. msg = reply /\ config = {}
    BY <1>1, <1>2, InHandIsLast
  <2>2. ToClient /\ ~Returned
    BY <1>1 DEF ToClient, Handling, NotWait, Returned
  <2>3. Replies
    BY <1>1, <1>2, <2>2 DEF SpeakInv, WaitsForReply
  <2>4. QED
    BY <1>1, <1>2, <2>1, <2>3 DEF Replies
<1>3. QED
  BY <1>1, <1>2 DEF SpeakInv, Returned

LEMMA SpeakReturn ==
    ASSUME SpeakInv, CN!Return
    PROVE  SpeakInv'
BY DEF CN!Return, SpeakInv, Returned

LEMMA SpeakClient ==
    ASSUME NTypeInv, TurnInv, OfferInv, AgreeInv, SpeakInv, ClientSteps
    PROVE  SpeakInv'
<1>0. UNCHANGED <<q, pc, c, reply>>
  BY DEF ClientSteps, server
<1>1. garbage \in Nat
  BY ClientAssumption DEF NTypeInv, ClientInv, CN!ClientTypeOK
\* Acting on a failed read: nothing is claimed from here on.
<1>2. ASSUME garbage' = garbage + 1, cpc' = "handle", call' = call,
             cpc \in CN!Reading
      PROVE  SpeakInv'
  BY <1>1, <1>2 DEF SpeakInv, CN!Reading
<1>3. CASE CN!ReadTimesOut \/ CN!ReadEOF
  <2>1. /\ cpc \in CN!Reading
        /\ UNCHANGED <<call, written, config, up, out>>
        /\ \/ garbage' = garbage + 1 /\ cpc' = "handle"
           \/ garbage' = garbage /\ cpc' = "reread" /\ rtnval' = rtnval
           \/ garbage' = garbage /\ cpc' = "return" /\ rtnval' = "ERROR"
    BY <1>3 DEF CN!ReadTimesOut, CN!ReadEOF, CN!Unassigned
  <2>2. cpc \notin {"off", "request"} /\ ~Returned
    BY <2>1 DEF CN!Reading, Returned
  <2>3. QED
    BY <1>0, <1>2, <2>1, <2>2, SpeakNoResult DEF CN!Reading
<1>4. ASSUME NEW stale \in {msg, written}, CN!ReadStale(stale)
      PROVE  SpeakInv'
  BY <1>2, <1>4 DEF CN!ReadStale
<1>5. CASE CN!HandleWait \/ CN!HandleOther
  <2>1. /\ cpc = "handle"
        /\ UNCHANGED <<call, written, config, garbage, up, out>>
        /\ \/ cpc' = "wait_read" /\ rtnval' = rtnval
           \/ cpc' = "return" /\ rtnval' = "ERROR"
    BY <1>5 DEF CN!HandleWait, CN!HandleOther
  <2>2. QED
    BY <1>0, <2>1, SpeakNoResult DEF CN!Reading, Returned
<1>6. ASSUME NEW answer \in Values, CN!CounterProposal(answer)
      PROVE  SpeakInv'
  BY <1>0, <1>6, SpeakCounter
<1>7. QED
  BY <1>0, <1>3, <1>4, <1>5, <1>6, SpeakRequest, SpeakRead, SpeakEnds,
     SpeakEnded, SpeakReturn
     DEF ClientSteps, CN!ClientThread

LEMMA SpeakCall ==
    ASSUME SpeakInv, Call
    PROVE  SpeakInv'
<1>1. PICK value \in Values : CN!negotiate(value) \/ CN!synchronize(value)
  BY DEF Call
<1>2. PICK entry \in {"negotiate", "synchronize"},
           opt \in {"Negotiation", "Synchronization"},
           loop \in LoopCounts \cup {1} :
        /\ CN!Start(entry, opt, loop, value)
        /\ opt = IF entry = "synchronize" THEN "Synchronization"
                                          ELSE "Negotiation"
  <2>1. CASE CN!negotiate(value)
    BY <2>1 DEF CN!negotiate
  <2>2. CASE CN!synchronize(value)
    BY <2>2 DEF CN!synchronize
  <2>3. QED
    BY <1>1, <2>1, <2>2
<1>3. /\ cpc = "off" /\ cpc' = "request" /\ call' = entry
      /\ msg' = Objective("REQUEST_MSG", opt, loop, value)
      /\ garbage' = garbage
  BY <1>2, SamePDUs DEF CN!Start
<1>4. msg'.value \in Values /\ msg'.opt = opt /\ msg'.type = "REQUEST_MSG"
  BY <1>1, <1>3 DEF Objective
<1>5. QED
  BY <1>2, <1>3, <1>4 DEF SpeakInv, Subject

LEMMA SpeakStep ==
    NTypeInv /\ TurnInv /\ OfferInv /\ AgreeInv /\ SpeakInv /\ [NNext]_nvars
      => SpeakInv'
<1> SUFFICES ASSUME NTypeInv, TurnInv, OfferInv, AgreeInv, SpeakInv,
                    [NNext]_nvars
             PROVE  SpeakInv'
  OBVIOUS
<1>1. CASE Quiet \/ UNCHANGED nvars
  BY <1>1, SpeakKept DEF Quiet, nvars, vars, client, Answering, Silent
<1>2. QED
  BY <1>1, SpeakServer, SpeakDistribute, SpeakClient, SpeakCall DEF NNext

LEMMA SpeakInvariant ==
    ASSUME AnyMessage
    PROVE  NSpec => [](TurnInv /\ OfferInv /\ AgreeInv /\ SpeakInv /\ NTypeInv)
<1>1. OfferInv /\ NTypeInv /\ [NNext]_nvars => OfferInv'
  BY OfferStep
<1>2. NTypeInv /\ TurnInv /\ OfferInv /\ AgreeInv /\ [NNext]_nvars => AgreeInv'
  BY AgreeStep
<1>3. NTypeInv /\ TurnInv /\ OfferInv /\ AgreeInv /\ SpeakInv
        /\ [NNext]_nvars => SpeakInv'
  BY SpeakStep
<1>4. QED
  BY <1>1, <1>2, <1>3, NTypeInvariant, TurnInvariant, OfferInit, AgreeInit,
     SpeakInit, PTL DEF NSpec

-----------------------------------------------------------------------------
(* Every step is a step of the dialogue, or none of its steps.             *)

DialogueInv == NTypeInv /\ TurnInv /\ OfferInv /\ AgreeInv /\ SpeakInv

\* A step of the dialogue, or of neither side's.
Moves == DL!DNext \/ UNCHANGED DL!dvars

LEMMA DialogueBegins == NInit => DL!DInit
BY DEF NInit, CN!ClientInit, DL!DInit, Turn, OnTheTable, Left, Configured,
       Believable

\* A dialogue that is over, or is left.
LEMMA Leaving ==
    ASSUME Turn' = "over", Configured' = Configured, call' = call
    PROVE  Moves
<1>1. OnTheTable' = NoValue /\ Left' = 0
  BY DEF OnTheTable, Left
<1>2. CASE Turn = "over"
  <2>1. OnTheTable = NoValue /\ Left = 0
    BY <1>2 DEF OnTheTable, Left
  <2>2. QED
    BY <1>1, <1>2, <2>1 DEF Moves, DL!dvars
<1>3. CASE Turn # "over"
  BY <1>1, <1>3 DEF Moves, DL!DNext, DL!Leave, DL!Close
<1>4. QED
  BY <1>2, <1>3

LEMMA Staying ==
    ASSUME call' = call, Turn' = Turn, Configured' = Configured,
           Turn = "session" =>
             written'.value = written.value /\ written'.loop = written.loop,
           Turn \in {"client", "result"} => AgreedValue' = AgreedValue,
           Turn = "client" => reply'.loop = reply.loop
    PROVE  Moves
<1>1. OnTheTable' = OnTheTable /\ Left' = Left
  BY DEF OnTheTable, Left
<1>2. QED
  BY <1>1 DEF Moves, DL!dvars

\* The client takes the value on the table.
LEMMA Taking ==
    ASSUME Turn \in {"client", "result"}, Turn' = "over", call' = call,
           Configured' = {AgreedValue}
    PROVE  Moves
<1>1. OnTheTable = AgreedValue /\ OnTheTable' = NoValue /\ Left' = 0
  BY DEF OnTheTable, Left
<1>2. QED
  BY <1>1 DEF Moves, DL!DNext, DL!Take, DL!Close

\* What the client does once it is not to be believed does not count.
LEMMA StaysUnbelieved ==
    ASSUME DialogueInv, [NNext]_nvars, ~Believable
    PROVE  Moves
<1>1. ~Believable' /\ call' = call
  <2>1. CASE garbage # 0
    <3>1. cpc \notin {"off", "request"} /\ garbage \in Nat
      BY <2>1, ClientAssumption
         DEF DialogueInv, SpeakInv, NTypeInv, ClientInv, CN!ClientTypeOK
    <3>2. garbage' \in {garbage, garbage + 1} /\ call' = call
      <4>1. CASE ClientSteps
        BY <4>1
           DEF ClientSteps, CN!ClientThread, CN!SendRequest, CN!Read,
               CN!ReadTimesOut, CN!ReadEOF, CN!Unassigned, CN!ReadStale,
               CN!AcceptProposal, CN!DeclineProposal, CN!CounterProposal,
               CN!HandleWait, CN!HandleEnd, CN!HandleOther, CN!Return
      <4>2. CASE ~ClientSteps
        BY <3>1, <4>2
           DEF NNext, Call, CN!negotiate, CN!synchronize, CN!Start, Distribute,
               ServerSteps, Quiet, nvars, client
      <4>3. QED
        BY <4>1, <4>2
    <3>3. garbage' # 0
      BY <2>1, <3>1, <3>2
    <3>4. QED
      BY <3>2, <3>3 DEF Believable
  <2>2. CASE garbage = 0
    <3>1. call = "synchronize" /\ rtnval # "SUCCESS" /\ Returned
      BY <2>2 DEF Believable, DialogueInv, AgreeInv, WaitInv
    <3>2. rtnval' = rtnval /\ call' = call
      <4>1. CASE ClientSteps
        BY <3>1, <4>1
           DEF Returned, ClientSteps, CN!ClientThread, CN!SendRequest, CN!Read,
               CN!Reading, CN!ReadTimesOut, CN!ReadEOF, CN!ReadStale,
               CN!AcceptProposal, CN!DeclineProposal, CN!CounterProposal,
               CN!HandleWait, CN!HandleEnd, CN!HandleOther, CN!Return
      <4>2. CASE ~ClientSteps
        BY <3>1, <4>2
           DEF Returned, NNext, Call, CN!negotiate, CN!synchronize, CN!Start,
               Distribute, ServerSteps, Quiet, nvars, client
      <4>3. QED
        BY <4>1, <4>2
    <3>3. QED
      BY <3>1, <3>2 DEF Believable
  <2>3. QED
    BY <2>1, <2>2
<1>2. Turn' = "over" /\ Configured' = {} /\ Configured = {}
  BY <1>1 DEF Turn, Configured
<1>3. QED
  BY <1>1, <1>2, Leaving

\* A session that has nothing to act on says and takes nothing.
LEMMA SessionIdle ==
    ASSUME NTypeInv, ~ToSession, ServerSteps \/ Distribute
    PROVE  /\ ~ToSession' /\ UNCHANGED <<c, reply>>
           /\ Silent <=> Silent'
<1>1. up = <<>> /\ q = <<>> /\ ~Answering
  BY DEF ToSession
<1>2. ServerSteps /\ up' = <<>>
  BY <1>1 DEF Distribute, ServerSteps
<1>3. CASE RunReady \/ RunExit \/ RunSent \/ RunSleep \/ RunClose \/ RunClear
  BY <1>1, <1>2, <1>3
     DEF RunReady, RunExit, RunSent, RunSleep, RunClose, RunClear, vars,
         Answering, ToSession, Silent
<1>4. ASSUME NEW w \in Rounds, WaitThread(w)
      PROVE  /\ ~ToSession' /\ UNCHANGED <<c, reply>>
             /\ Silent <=> Silent'
  BY <1>1, <1>2, <1>4, WaitIsSilent DEF Answering, ToSession
<1>5. ASSUME NEW e \in Rounds, EndThread(e)
      PROVE  /\ ~ToSession' /\ UNCHANGED <<c, reply>>
             /\ Silent <=> Silent'
  BY <1>1, <1>2, <1>5
     DEF EndThread, EndWake, EndReset, EndFire, EndUnchanged, Answering,
         ToSession, Silent
<1>6. CASE RunPopDuplicate \/ RunPop
  BY <1>1, <1>6 DEF RunPopDuplicate, RunPop, Pop, NTypeInv, TypeInv
<1>7. CASE RunSetState \/ RunMark \/ RunSpawn \/ RunBranch \/ RunSend
             \/ RunWrite \/ RunWriteFails
  BY <1>1, <1>7
     DEF RunSetState, RunMark, RunSpawn, RunBranch, RunSend, RunWrite,
         RunWriteFails, Answering
<1>8. ASSUME NEW answer \in Values, NEW geq \in BOOLEAN, RunUpper(answer, geq)
      PROVE  FALSE
  BY <1>1, <1>8 DEF RunUpper, Answering
<1>9. QED
  BY <1>2, <1>3, <1>4, <1>5, <1>6, <1>7, <1>8 DEF ServerSteps, SessionThread

\* While the client waits, a step of the session or of the run loop answers
\* its proposal, loses it, or says nothing.
LEMMA SessionSpeaks ==
    ASSUME DialogueInv, DialogueInv', ServerSteps \/ Distribute,
           Believable, ~Returned, cpc \notin {"off", "request"}
    PROVE  Moves
<1>1. /\ UNCHANGED <<call, cpc, msg, written, config, rtnval, garbage>>
      /\ Believable' /\ ~Returned' /\ cpc' \notin {"off", "request"}
  BY DEF ServerSteps, Distribute, client, Believable, Returned
<1>2. WaitsForReply /\ WaitsForReply'
  BY <1>1 DEF DialogueInv, SpeakInv, Believable
<1>3. Configured' = Configured /\ call' = call
  BY <1>1 DEF Configured
<1>4. CASE ToSession /\ ToSession'
  <2>1. Turn = "session" /\ Turn' = "session"
    BY <1>1, <1>4 DEF Turn
  <2>2. QED
    BY <1>1, <1>3, <2>1, Staying
<1>5. CASE ToSession /\ ~ToSession' /\ ToClient'
  <2>1. Replies'
    BY <1>2, <1>5 DEF WaitsForReply
  <2>2. Turn = "session" /\ OnTheTable = written.value /\ Left = written.loop
    BY <1>5 DEF Turn, OnTheTable, Left
  <2>3. CASE call = "negotiate" /\ reply'.type = "NEGO_MSG"
    <3>1. /\ reply'.opt = "Negotiation" /\ reply'.value \in Values
          /\ reply'.loop = written.loop - 1 /\ reply'.loop > 0
      BY <1>1, <2>1, <2>3 DEF Replies
    <3>2. Turn' = "client"
      BY <1>1, <1>5, <2>3, <3>1 DEF Turn
    <3>3. OnTheTable' = reply'.value /\ Left' = reply'.loop
      BY <3>1, <3>2 DEF OnTheTable, Left, AgreedValue
    <3>4. Left > 1 /\ Left' = Left - 1
      <4>1. written \in Content
        BY DEF DialogueInv, NTypeInv, ClientInv
      <4>2. written.loop \in Nat
        BY <4>1 DEF Content, uint8
      <4>3. QED
        BY <2>2, <3>1, <3>3, <4>2
    <3>5. DL!Counter("session", "client", reply'.value)
      BY <1>3, <2>2, <2>3, <3>2, <3>3, <3>4 DEF DL!Counter
    <3>6. QED
      BY <3>1, <3>5 DEF Moves, DL!DNext
  <2>4. CASE call = "negotiate" /\ reply'.type # "NEGO_MSG"
    <3>1. reply'.opt \in {"Accept", "Decline"} /\ c'.value = written.value
      BY <1>1, <2>1, <2>4 DEF Replies
    <3>2. CASE reply'.opt = "Decline"
      <4>1. Turn' = "over"
        BY <1>1, <1>5, <2>4, <3>2 DEF Turn
      <4>2. QED
        BY <1>3, <4>1, Leaving
    <3>3. CASE reply'.opt = "Accept"
      <4>1. Turn' = "result"
        BY <1>1, <1>5, <2>4, <3>3 DEF Turn
      <4>2. OnTheTable' = OnTheTable /\ Left' = 0
        BY <2>2, <3>1, <4>1 DEF OnTheTable, Left, AgreedValue
      <4>3. QED
        BY <1>3, <2>2, <2>4, <4>1, <4>2 DEF Moves, DL!DNext, DL!Settle
    <3>4. QED
      BY <3>1, <3>2, <3>3
  <2>5. CASE call # "negotiate"
    <3>1. /\ call = "synchronize" /\ reply'.type = "NEGO_END_MSG"
          /\ reply'.opt = "Synchronization" /\ reply'.value \in Values
      BY <1>1, <2>1, <2>5 DEF Replies
    <3>2. Turn' = "result"
      BY <1>1, <1>5, <3>1 DEF Turn
    <3>3. OnTheTable' = reply'.value /\ Left' = 0
      BY <3>1, <3>2 DEF OnTheTable, Left, AgreedValue
    <3>4. DL!Answer(reply'.value)
      BY <1>3, <2>2, <3>1, <3>2, <3>3 DEF DL!Answer
    <3>5. QED
      BY <3>1, <3>4 DEF Moves, DL!DNext
  <2>6. QED
    BY <2>3, <2>4, <2>5
<1>6. CASE ToSession /\ ~ToSession' /\ ~ToClient'
  <2>1. Turn' = "over"
    BY <1>1, <1>6 DEF Turn, Returned
  <2>2. QED
    BY <1>3, <2>1, Leaving
<1>7. CASE ~ToSession
  <2>1. ~ToSession' /\ UNCHANGED <<c, reply>> /\ (Silent <=> Silent')
    BY <1>7, SessionIdle DEF DialogueInv
  <2>2. ToClient <=> ToClient'
    BY <1>1, <2>1 DEF ToClient, Handling
  <2>3. Turn' = Turn /\ Turn # "session" /\ AgreedValue' = AgreedValue
    BY <1>1, <1>7, <2>1, <2>2 DEF Turn, AgreedValue
  <2>4. QED
    BY <1>3, <2>1, <2>3, Staying
<1>8. QED
  BY <1>4, <1>5, <1>6, <1>7

\* What the session does otherwise is not part of the dialogue.
LEMMA SessionMoves ==
    ASSUME DialogueInv, DialogueInv', Believable,
           ServerSteps \/ Distribute \/ Quiet \/ UNCHANGED nvars
    PROVE  Moves
<1>1. CASE Quiet \/ UNCHANGED nvars
  <2>1. UNCHANGED nvars
    BY <1>1 DEF Quiet
  <2>2. UNCHANGED <<call, Turn, OnTheTable, Left, Configured>>
    BY <2>1
       DEF nvars, vars, client, Turn, OnTheTable, Left, Configured, Believable,
           Returned, ToSession, ToClient, Silent, Handling, Answering,
           AgreedValue
  <2>3. QED
    BY <2>2 DEF Moves, DL!dvars
<1>2. CASE ServerSteps \/ Distribute
  <2>1. /\ UNCHANGED <<call, cpc, msg, written, config, rtnval, garbage>>
        /\ Believable' /\ Configured' = Configured
    BY <1>2 DEF ServerSteps, Distribute, client, Believable, Configured
  <2>2. CASE cpc \in {"off", "request"}
    <3>1. Turn = "start" /\ Turn' = "start"
      BY <2>1, <2>2 DEF Turn
    <3>2. QED
      BY <2>1, <3>1, Staying
  <2>3. CASE Returned
    <3>1. Turn' = Turn /\ Turn \in {"result", "over"}
      BY <2>1, <2>3 DEF Turn, Returned
    <3>2. Turn = "result" => AgreedValue' = AgreedValue
      <4>1. Turn = "result" => cpc = "return" /\ call = "synchronize"
                                 /\ garbage = 0 /\ rtnval = "SUCCESS"
        BY <2>3 DEF Turn, Returned, Believable
      <4>2. Turn = "result" =>
              /\ msg.value = reply.value /\ reply.opt = "Synchronization"
              /\ msg.value = reply'.value /\ reply'.opt = "Synchronization"
        BY <2>1, <4>1 DEF DialogueInv, SpeakInv
      <4>3. QED
        BY <4>2 DEF AgreedValue
    <3>3. QED
      BY <2>1, <3>1, <3>2, Staying
  <2>4. QED
    BY <1>2, <2>2, <2>3, SessionSpeaks
<1>3. QED
  BY <1>1, <1>2

\* A connection that has just been written to is not empty.
LEMMA AppendNotEmpty ==
    ASSUME NEW s \in Seq(Content), NEW m \in Content
    PROVE  Append(s, m) # <<>>
BY AppendProperties

\* The client's steps.  A call begins the dialogue, and the request is its
\* first proposal.
LEMMA CallMoves ==
    ASSUME DialogueInv, Believable, Call
    PROVE  Moves
<1>1. PICK value \in Values : CN!negotiate(value) \/ CN!synchronize(value)
  BY DEF Call
<1>2. PICK entry \in {"negotiate", "synchronize"} :
        /\ cpc = "off" /\ cpc' = "request" /\ call' = entry
        /\ UNCHANGED <<config, rtnval, garbage>>
  BY <1>1 DEF CN!negotiate, CN!synchronize, CN!Start
<1>3. call = "none" /\ garbage = 0 /\ rtnval = "SUCCESS"
  BY <1>2 DEF DialogueInv, SpeakInv, AgreeInv, WaitInv, Returned
<1>4. Believable'
  BY <1>2, <1>3 DEF Believable
<1>5. Turn = "start" /\ Turn' = "start"
  BY <1>2, <1>4 DEF Turn
<1>6. /\ OnTheTable' = OnTheTable /\ Left' = Left
      /\ Configured' = Configured
  BY <1>2, <1>4, <1>5 DEF OnTheTable, Left, Configured
<1>7. DL!Begin(entry)
  BY <1>2, <1>3, <1>5, <1>6 DEF DL!Begin
<1>8. QED
  BY <1>7 DEF Moves, DL!DNext

\* The client returns without having configured anything.
LEMMA GivingUp ==
    ASSUME DialogueInv, Believable, ~Returned,
           call' = call, config' = config, cpc' = "return",
           rtnval' = "ERROR" \/ call = "negotiate"
    PROVE  Moves
<1>1. config = {}
  BY DEF DialogueInv, AgreeInv, WaitInv, Believable
<1>2. Configured = {} /\ Configured' = {}
  BY <1>1 DEF Configured
<1>3. Turn' = "over"
  BY DEF Turn, Returned, Believable
<1>4. QED
  BY <1>2, <1>3, Leaving

\* The client acts on a failed read.
LEMMA Misreading ==
    ASSUME DialogueInv, Believable, ~Returned,
           call' = call, config' = config, garbage' = garbage + 1
    PROVE  Moves
<1>1. config = {} /\ garbage = 0
  BY DEF DialogueInv, AgreeInv, WaitInv, Believable
<1>2. ~Believable'
  BY <1>1 DEF Believable
<1>3. Configured = {} /\ Configured' = {} /\ Turn' = "over"
  BY <1>1, <1>2 DEF Configured, Turn
<1>4. QED
  BY <1>3, Leaving

\* The client goes on waiting.
LEMMA Waiting ==
    ASSUME Believable, UNCHANGED <<call, written, config, rtnval, garbage, up>>,
           UNCHANGED <<q, pc, c, reply>>, ToClient' <=> ToClient,
           cpc \notin {"off", "request"}, ~Returned,
           cpc' \notin {"off", "request"}, ~Returned'
    PROVE  Moves
<1>1. Believable' /\ ToSession' = ToSession /\ AgreedValue' = AgreedValue
  BY DEF Believable, ToSession, Answering, AgreedValue
<1>2. Turn' = Turn
  BY <1>1 DEF Turn, Returned
<1>3. Configured' = Configured
  BY <1>1 DEF Configured
<1>4. QED
  BY <1>1, <1>2, <1>3, Staying

LEMMA RequestMoves ==
    ASSUME DialogueInv, DialogueInv', Believable, CN!SendRequest,
           UNCHANGED <<q, pc, c, reply>>
    PROVE  Moves
<1>1. /\ cpc = "request" /\ written' = msg /\ ~Returned
      /\ UNCHANGED <<call, config, garbage>>
  BY DEF CN!SendRequest, Returned
<1>2. CASE up' = Append(up, msg) /\ cpc' = "read" /\ rtnval' = rtnval
  <2>1. Believable' /\ Configured' = Configured
    BY <1>1, <1>2 DEF Believable, Configured
  <2>2. up' # <<>>
    BY <1>2, PlayTypes, AppendNotEmpty
       DEF DialogueInv, NTypeInv, ClientInv, CN!SendRequest
  <2>3. Turn = "start" /\ Turn' = "session"
    BY <1>1, <1>2, <2>1, <2>2 DEF Turn, Returned, ToSession
  <2>4. OnTheTable' = msg.value /\ Left' = msg.loop
    BY <1>1, <2>3 DEF OnTheTable, Left
  <2>5. msg.value \in Values /\ msg.loop \in Nat \ {0}
    <3>1. msg \in Content /\ msg.loop # 0 /\ msg.value \in Values
      BY <1>1
         DEF CN!SendRequest, DialogueInv, NTypeInv, ClientInv, SpeakInv
    <3>2. QED
      BY <3>1 DEF Content, uint8
  <2>6. call # "none"
    BY <1>1 DEF DialogueInv, SpeakInv
  <2>7. DL!Ask(msg.value)
    BY <1>1, <2>1, <2>3, <2>4, <2>5, <2>6 DEF DL!Ask
  <2>8. QED
    BY <2>5, <2>7 DEF Moves, DL!DNext
<1>3. CASE cpc' = "return" /\ rtnval' = "ERROR"
  BY <1>1, <1>3, GivingUp
<1>4. QED
  BY <1>2, <1>3 DEF CN!SendRequest

LEMMA ReadMoves ==
    ASSUME DialogueInv, Believable, CN!Read, UNCHANGED <<q, pc, c, reply>>
    PROVE  Moves
<1>1. /\ cpc \in CN!Reading /\ cpc' = "handle"
      /\ out # <<>> /\ out' = Tail(out) /\ msg' = Head(out)
      /\ UNCHANGED <<call, written, config, rtnval, garbage, up>>
  BY DEF CN!Read
<1>2. PDUs(out) = PDUs(out') \cup {msg'}
  BY <1>1, PlayTypes, PDUsTail DEF DialogueInv
<1>3. ToClient' <=> ToClient
  BY <1>1, <1>2 DEF ToClient, Silent, Handling, CN!Reading
<1>4. QED
  BY <1>1, <1>3, Waiting DEF CN!Reading, Returned

\* The client has the session's word in hand.
LEMMA WordInHand ==
    ASSUME DialogueInv, Believable, cpc = "handle",
           msg.type \in {"NEGO_MSG", "NEGO_END_MSG"}
    PROVE  /\ msg = reply /\ config = {} /\ Replies
           /\ Turn = IF reply.opt = "Decline" THEN "over"
                     ELSE IF reply.type = "NEGO_MSG" THEN "client" ELSE "result"
<1>1. garbage = 0
  BY DEF Believable
<1>2. /\ msg = reply /\ config = {}
      /\ up = <<>> /\ q = <<>> /\ ~Answering
  BY <1>1, InHandIsLast DEF DialogueInv
<1>3. ToClient /\ ~Returned /\ ~ToSession
  BY <1>2 DEF ToClient, Handling, NotWait, Returned, ToSession
<1>4. Replies
  BY <1>1, <1>3 DEF DialogueInv, SpeakInv, WaitsForReply
<1>5. QED
  BY <1>2, <1>3, <1>4 DEF Turn

LEMMA AcceptMoves ==
    ASSUME DialogueInv, Believable, UNCHANGED <<q, pc, c, reply>>,
           CN!AcceptProposal
    PROVE  Moves
<1>1. /\ cpc = "handle" /\ msg.type = "NEGO_MSG" /\ cpc' = "return"
      /\ config' = config \cup {msg.value}
      /\ UNCHANGED <<call, garbage>>
  BY DEF CN!AcceptProposal, CN!WritePDU
<1>2. /\ msg = reply /\ config = {} /\ call = "negotiate"
      /\ reply.opt = "Negotiation" /\ reply.value \in Values
      /\ Turn = "client"
  BY <1>1, WordInHand DEF Replies
<1>3. Believable' /\ AgreedValue = msg.value /\ msg.value # NoValue
  BY <1>1, <1>2, NoValueAssumption DEF Believable, AgreedValue
<1>4. Turn' = "over" /\ Configured' = {AgreedValue}
  BY <1>1, <1>2, <1>3 DEF Turn, Returned, Configured
<1>5. QED
  BY <1>1, <1>2, <1>4, Taking

LEMMA DeclineMoves ==
    ASSUME DialogueInv, Believable, CN!DeclineProposal
    PROVE  Moves
<1>1. /\ cpc = "handle" /\ msg.type = "NEGO_MSG" /\ cpc' = "return"
      /\ UNCHANGED <<call, config>>
  BY DEF CN!DeclineProposal, CN!WritePDU
<1>2. call = "negotiate" /\ ~Returned
  BY <1>1, WordInHand DEF Replies, Returned
<1>3. QED
  BY <1>1, <1>2, GivingUp

LEMMA CounterMoves ==
    ASSUME DialogueInv, DialogueInv', Believable,
           UNCHANGED <<q, pc, c, reply>>,
           NEW answer \in Values, CN!CounterProposal(answer)
    PROVE  Moves
<1>1. PICK m \in Content :
        /\ m = Objective("NEGO_MSG", "Negotiation", Decremented(msg.loop),
                         answer)
        /\ cpc = "handle" /\ msg.type = "NEGO_MSG" /\ msg.loop # 1
        /\ written' = m
        /\ UNCHANGED <<call, config, garbage>>
        /\ \/ up' = Append(up, m) /\ cpc' = "read" /\ rtnval' = "SUCCESS"
           \/ cpc' = "return" /\ rtnval' = "ERROR"
  BY SamePDUs, CounterContent
     DEF DialogueInv, CN!CounterProposal, CN!WritePDU
<1>2. m.value = answer /\ m.loop = Decremented(msg.loop)
  BY <1>1 DEF Objective
<1>3. /\ msg = reply /\ call = "negotiate" /\ reply.opt = "Negotiation"
      /\ msg.loop > 0 /\ Turn = "client"
  BY <1>1, WordInHand DEF Replies
<1>4. CASE up' = Append(up, m) /\ cpc' = "read" /\ rtnval' = "SUCCESS"
  <2>1. Believable' /\ Configured' = Configured
    BY <1>1, <1>4 DEF Believable, Configured
  <2>2. up' # <<>>
    BY <1>4, PlayTypes, AppendNotEmpty DEF DialogueInv
  <2>3. Turn' = "session"
    BY <1>4, <2>1, <2>2 DEF Turn, Returned, ToSession
  <2>4. /\ OnTheTable' = answer /\ Left' = Decremented(msg.loop)
        /\ Left = msg.loop
    BY <1>1, <1>2, <1>3, <2>3 DEF OnTheTable, Left
  <2>5. Left > 1 /\ Left' = Left - 1
    <3>1. msg \in Content
      BY <1>1 DEF DialogueInv, NTypeInv, ClientInv
    <3>2. msg.loop \in uint8 /\ uint8 \subseteq Nat
      BY <3>1 DEF Content, uint8
    <3>3. Decremented(msg.loop) = msg.loop - 1
      BY <1>3, <3>2, DecrementedLess
    <3>4. msg.loop \in Nat /\ msg.loop > 0 /\ msg.loop # 1
      BY <1>1, <1>3, <3>2
    <3>5. QED
      BY <2>4, <3>3, <3>4
  <2>6. DL!Counter("client", "session", answer)
    BY <1>1, <1>3, <2>1, <2>3, <2>4, <2>5 DEF DL!Counter
  <2>7. QED
    BY <2>6 DEF Moves, DL!DNext
<1>5. CASE cpc' = "return" /\ rtnval' = "ERROR"
  BY <1>1, <1>5, GivingUp DEF Returned
<1>6. QED
  BY <1>1, <1>4, <1>5

LEMMA EndMoves ==
    ASSUME DialogueInv, DialogueInv', Believable, UNCHANGED <<q, pc, c, reply>>,
           CN!HandleEnd
    PROVE  Moves
<1>1. /\ cpc = "handle" /\ msg.type = "NEGO_END_MSG" /\ cpc' = "return"
      /\ config' = IF msg.opt = "Accept" THEN config \cup {lastTopOptions}
                                         ELSE config
      /\ rtnval' = "SUCCESS"
      /\ UNCHANGED <<call, written, garbage>>
  BY DEF CN!HandleEnd
<1>2. msg = reply /\ config = {} /\ Replies /\ ~Returned
  BY <1>1, WordInHand DEF Returned
<1>3. AgreedValue' = AgreedValue /\ Believable'
  BY <1>1 DEF AgreedValue, Believable
<1>4. CASE call = "synchronize"
  <2>1. reply.opt = "Synchronization" /\ config' = config
    BY <1>1, <1>2, <1>4 DEF Replies
  <2>2. Turn = "result" /\ Turn' = "result"
    BY <1>1, <1>2, <1>3, <1>4, <2>1, WordInHand DEF Turn, Returned
  <2>3. Configured' = Configured
    BY <1>3, <2>1 DEF Configured
  <2>4. QED
    BY <1>1, <1>3, <2>2, <2>3, Staying
<1>5. CASE call # "synchronize" /\ reply.opt = "Accept"
  <2>1. Turn = "result" /\ Turn' = "over"
    BY <1>1, <1>2, <1>3, <1>5, WordInHand DEF Turn, Returned
  <2>2. lastTopOptions \in {NoValue, AgreedValue} /\ AgreedValue \in Values
    <3>1. lastTopOptions \in {NoValue, AgreedValue}
      BY <1>1, <1>2, <1>5, InHandIsLast DEF DialogueInv, Believable
    <3>2. written.value \in Values
      BY <1>1, <1>2 DEF DialogueInv, SpeakInv, WaitsForReply, Believable
    <3>3. QED
      BY <1>2, <1>5, <3>1, <3>2 DEF Replies, AgreedValue
  <2>3. config' = {lastTopOptions}
    BY <1>1, <1>2, <1>5
  <2>4. CASE lastTopOptions = NoValue
    <3>1. Configured' = {} /\ Configured = {}
      BY <1>2, <2>3, <2>4 DEF Configured
    <3>2. QED
      BY <1>1, <2>1, <3>1, Leaving
  <2>5. CASE lastTopOptions # NoValue
    <3>1. Configured' = {AgreedValue}
      BY <1>3, <2>2, <2>3, <2>5, NoValueAssumption DEF Configured
    <3>2. QED
      BY <1>1, <2>1, <3>1, Taking
  <2>6. QED
    BY <2>4, <2>5
<1>6. CASE call # "synchronize" /\ reply.opt # "Accept"
  <2>1. call = "negotiate" /\ config' = config
    BY <1>1, <1>2, <1>6 DEF Replies
  <2>2. QED
    BY <1>1, <1>2, <2>1, GivingUp
<1>7. QED
  BY <1>4, <1>5, <1>6

LEMMA ReturnMoves ==
    ASSUME DialogueInv, Believable, CN!Return
    PROVE  Moves
<1>1. /\ cpc = "return" /\ cpc' = "done"
      /\ config' = IF call = "synchronize" THEN config \cup {msg.value}
                                           ELSE config
      /\ UNCHANGED <<call, rtnval, garbage>>
  BY DEF CN!Return
<1>2. Believable' /\ Turn' = "over"
  BY <1>1 DEF Believable, Turn, Returned
<1>3. CASE call = "synchronize"
  <2>1. garbage = 0 /\ rtnval = "SUCCESS"
    BY <1>3 DEF Believable
  <2>2. /\ config = {} /\ msg.value = reply.value
        /\ reply.opt = "Synchronization" /\ reply.value \in Values
    BY <1>1, <1>3, <2>1 DEF DialogueInv, SpeakInv
  <2>3. Turn = "result"
    BY <1>1, <1>3 DEF Turn, Returned
  <2>4. Configured' = {AgreedValue}
    BY <1>1, <1>2, <1>3, <2>2, NoValueAssumption DEF Configured, AgreedValue
  <2>5. QED
    BY <1>1, <1>2, <2>3, <2>4, Taking
<1>4. CASE call # "synchronize"
  <2>1. Configured' = Configured
    BY <1>1, <1>2, <1>4 DEF Configured
  <2>2. QED
    BY <1>1, <1>2, <2>1, Leaving
<1>5. QED
  BY <1>3, <1>4

LEMMA ClientMoves ==
    ASSUME DialogueInv, DialogueInv', Believable, ClientSteps
    PROVE  Moves
<1>0. UNCHANGED <<q, pc, c, reply>>
  BY DEF ClientSteps, server
<1>1. CASE \/ CN!ReadTimesOut \/ CN!ReadEOF
           \/ \E stale \in {msg, written} : CN!ReadStale(stale)
  <2>1. /\ cpc \in CN!Reading
        /\ UNCHANGED <<call, written, config, up, out>>
        /\ \/ garbage' = garbage + 1
           \/ garbage' = garbage /\ cpc' = "reread" /\ rtnval' = rtnval
           \/ garbage' = garbage /\ cpc' = "return" /\ rtnval' = "ERROR"
    BY <1>1 DEF CN!ReadTimesOut, CN!ReadEOF, CN!ReadStale, CN!Unassigned
  <2>2. ~Returned /\ cpc \notin {"off", "request"} /\ ~Handling
    BY <2>1 DEF CN!Reading, Returned, Handling
  <2>3. CASE garbage' = garbage /\ cpc' = "reread" /\ rtnval' = rtnval
    <3>1. ToClient' <=> ToClient
      BY <2>1, <2>2, <2>3 DEF ToClient, Silent, Handling
    <3>2. QED
      BY <1>0, <2>1, <2>2, <2>3, <3>1, Waiting DEF Returned
  <2>4. QED
    BY <2>1, <2>2, <2>3, Misreading, GivingUp
<1>2. CASE CN!HandleWait \/ CN!HandleOther
  <2>1. /\ cpc = "handle"
        /\ UNCHANGED <<call, written, config, garbage, up, out>>
        /\ \/ cpc' = "wait_read" /\ rtnval' = rtnval /\ msg.type = "WAIT_MSG"
           \/ cpc' = "return" /\ rtnval' = "ERROR"
    BY <1>2 DEF CN!HandleWait, CN!HandleOther
  <2>2. ~Returned
    BY <2>1 DEF Returned
  <2>3. CASE /\ cpc' = "wait_read" /\ rtnval' = rtnval
             /\ msg.type = "WAIT_MSG"
    <3>1. ToClient' <=> ToClient
      BY <2>1, <2>3 DEF ToClient, Silent, Handling, NotWait
    <3>2. QED
      BY <1>0, <2>1, <2>3, <3>1, Waiting DEF Returned
  <2>4. QED
    BY <2>1, <2>2, <2>3, GivingUp
<1>3. ASSUME NEW answer \in Values, CN!CounterProposal(answer)
      PROVE  Moves
  BY <1>0, <1>3, CounterMoves
<1>4. QED
  BY <1>0, <1>1, <1>2, <1>3, RequestMoves, ReadMoves, AcceptMoves,
     DeclineMoves, EndMoves, ReturnMoves
     DEF ClientSteps, CN!ClientThread

LEMMA DialogueStep ==
    DialogueInv /\ DialogueInv' /\ [NNext]_nvars => [DL!DNext]_(DL!dvars)
<1> SUFFICES ASSUME DialogueInv, DialogueInv', [NNext]_nvars
             PROVE  Moves
  BY DEF Moves
<1>1. CASE ~Believable
  BY <1>1, StaysUnbelieved
<1>2. CASE Believable
  BY <1>2, CallMoves, ClientMoves, SessionMoves DEF NNext
<1>3. QED
  BY <1>1, <1>2

\* Client and session hold one Dialogue, whatever the connection loses,
\* whichever thread is late, and whatever message is refused or repeated.
THEOREM HoldsDialogueCorrect ==
    ASSUME AnyMessage
    PROVE  NSpec => HoldsDialogue
<1>1. NSpec => []DialogueInv
  BY SpeakInvariant, PTL DEF DialogueInv
<1>2. DialogueInv /\ DialogueInv' /\ [NNext]_nvars => [DL!DNext]_(DL!dvars)
  BY DialogueStep
<1>3. QED
  BY <1>1, <1>2, DialogueBegins, PTL DEF NSpec, HoldsDialogue, DL!DSpec

-----------------------------------------------------------------------------
(* What a Dialogue guarantees, and with it the composition.                *)

\* Whoever speaks has a value before him, and nothing is configured until the
\* dialogue is over.
OutcomeInv ==
    /\ Turn \in {"session", "client", "result"} => OnTheTable \in Values
    /\ Turn # "over" => Configured = {}
    /\ Configured = {} \/ \E v \in Values : Configured = {v}

\* What is configured stays, and so does the end of the dialogue.
OutcomeIsFinal ==
    [][Turn = "over" => Turn' = "over" /\ Configured' = Configured]_(DL!dvars)

LEMMA OutcomeStep == OutcomeInv /\ [DL!DNext]_(DL!dvars) => OutcomeInv'
<1> SUFFICES ASSUME OutcomeInv, [DL!DNext]_(DL!dvars)
             PROVE  OutcomeInv'
  OBVIOUS
<1> USE DEF OutcomeInv
<1>1. CASE UNCHANGED DL!dvars
  BY <1>1 DEF DL!dvars
<1>2. ASSUME NEW entry, DL!Begin(entry)
      PROVE  OutcomeInv'
  BY <1>2 DEF DL!Begin
<1>3. ASSUME NEW v \in Values,
             \/ DL!Ask(v) \/ DL!Answer(v)
             \/ DL!Counter("session", "client", v)
             \/ DL!Counter("client", "session", v)
      PROVE  OutcomeInv'
  BY <1>3 DEF DL!Ask, DL!Answer, DL!Counter
<1>4. CASE DL!Settle
  BY <1>4 DEF DL!Settle
<1>5. CASE DL!Take
  BY <1>5 DEF DL!Take, DL!Close
<1>6. CASE DL!Leave
  BY <1>6 DEF DL!Leave, DL!Close
<1>7. QED
  BY <1>1, <1>2, <1>3, <1>4, <1>5, <1>6 DEF DL!DNext

\* A client that has acted on no failed read configures one value of the
\* negotiation at most, after the last proposal, and nothing that arrives late
\* changes it.
THEOREM OneOutcome ==
    ASSUME AnyMessage
    PROVE  NSpec => []OutcomeInv /\ OutcomeIsFinal
<1>1. DL!DInit => OutcomeInv
  BY DEF DL!DInit, OutcomeInv
<1>2. [DL!DNext]_(DL!dvars) =>
        [Turn = "over" => Turn' = "over" /\ Configured' = Configured]_(DL!dvars)
  <2>1. CASE DL!DNext /\ Turn = "over"
    BY <2>1
       DEF DL!DNext, DL!Begin, DL!Ask, DL!Counter, DL!Settle, DL!Answer,
           DL!Take, DL!Leave
  <2>2. QED
    BY <2>1
<1>3. QED
  BY <1>1, <1>2, OutcomeStep, HoldsDialogueCorrect, PTL
     DEF HoldsDialogue, DL!DSpec, OutcomeIsFinal

=============================================================================
