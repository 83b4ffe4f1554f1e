---------------------------- MODULE AgreementProofs ----------------------------
(***************************************************************************)
(* TakesTurns and Agreement hold of Negotiation, for every set of values,  *)
(* every bound, every timeout and every loop count.                        *)
(*                                                                         *)
(* TakesTurns is a count, so what a write and a read do to the number of   *)
(* PDUs that are not WAIT_MSGs comes first.  It becomes inductive with the *)
(* fact that the first request finds both directions empty.  Its use is    *)
(* OnePlace: whoever has the PDU in play knows that nobody else has one.   *)
(*                                                                         *)
(* Agreement needs the value on its way: before the client returns, what   *)
(* it stored last is what it wrote last (WaitInv); afterwards, nothing     *)
(* under way can make the session agree to another value (SettledInv).     *)
(***************************************************************************)
EXTENDS NegotiationProofs, FiniteSetTheorems

-----------------------------------------------------------------------------
(* Counting the PDUs on a connection.                                      *)

\* The indexes Acting counts.
ActingAt(s) == {i \in DOMAIN s : NotWait(s[i])}

LEMMA ActingFinite ==
    ASSUME NEW s \in Seq(Content)
    PROVE  IsFiniteSet(ActingAt(s)) /\ Acting(s) = Cardinality(ActingAt(s))
           /\ Acting(s) \in Nat
<1>1. Len(s) \in Nat /\ DOMAIN s = 1 .. Len(s)
  BY LenProperties
<1>2. IsFiniteSet(1 .. Len(s))
  BY <1>1, FS_Interval
<1>3. IsFiniteSet(ActingAt(s))
  BY <1>1, <1>2, FS_Subset DEF ActingAt
<1>4. QED
  BY <1>3, FS_CardinalityType DEF ActingAt, Acting

LEMMA ActingEmpty == Acting(<<>>) = 0
<1>1. ActingAt(<<>>) = {}
  BY DEF ActingAt
<1>2. QED
  BY <1>1, FS_EmptySet DEF ActingAt, Acting

\* A written PDU counts unless it is a WAIT_MSG.
LEMMA ActingAppend ==
    ASSUME NEW s \in Seq(Content), NEW m \in Content
    PROVE  Acting(Append(s, m)) = Acting(s) + One(NotWait(m))
<1>1. /\ Len(s) \in Nat
      /\ DOMAIN s = 1 .. Len(s)
      /\ Append(s, m) \in Seq(Content)
      /\ DOMAIN Append(s, m) = 1 .. Len(s) + 1
      /\ \A i \in 1 .. Len(s) : Append(s, m)[i] = s[i]
      /\ Append(s, m)[Len(s) + 1] = m
  BY AppendProperties, LenProperties
<1>2. /\ IsFiniteSet(ActingAt(s)) /\ Len(s) + 1 \notin ActingAt(s)
      /\ Acting(s) = Cardinality(ActingAt(s)) /\ Acting(s) \in Nat
      /\ Acting(Append(s, m)) = Cardinality(ActingAt(Append(s, m)))
  <2>1. Len(s) + 1 \notin DOMAIN s
    BY <1>1
  <2>2. Len(s) + 1 \notin ActingAt(s)
    BY <2>1 DEF ActingAt
  <2>3. QED
    BY <1>1, <2>2, ActingFinite
<1>3. CASE NotWait(m)
  <2>1. ActingAt(Append(s, m)) = ActingAt(s) \cup {Len(s) + 1}
    BY <1>1, <1>3 DEF ActingAt
  <2>2. Cardinality(ActingAt(Append(s, m))) = Cardinality(ActingAt(s)) + 1
    BY <1>2, <2>1, FS_AddElement
  <2>3. One(NotWait(m)) = 1
    BY <1>3 DEF One
  <2>4. QED
    BY <1>2, <2>2, <2>3
<1>4. CASE ~NotWait(m)
  <2>1. ActingAt(Append(s, m)) = ActingAt(s)
    BY <1>1, <1>4 DEF ActingAt
  <2>2. One(NotWait(m)) = 0
    BY <1>4 DEF One
  <2>3. QED
    BY <1>2, <2>1, <2>2
<1>5. QED
  BY <1>3, <1>4

\* The PDU read counts no more.
LEMMA ActingTail ==
    ASSUME NEW s \in Seq(Content), s # <<>>
    PROVE  Acting(s) = Acting(Tail(s)) + One(NotWait(Head(s)))
<1>1. /\ Len(s) \in Nat \ {0}
      /\ DOMAIN s = 1 .. Len(s)
      /\ Head(s) = s[1]
      /\ Tail(s) \in Seq(Content)
      /\ DOMAIN Tail(s) = 1 .. Len(s) - 1
      /\ \A i \in 1 .. Len(s) - 1 : Tail(s)[i] = s[i + 1]
  BY HeadTailProperties, EmptySeq, LenProperties
<1> DEFINE Later == ActingAt(s) \ {1}
           shift == [i \in ActingAt(Tail(s)) |-> i + 1]
<1>2. /\ IsFiniteSet(ActingAt(s)) /\ IsFiniteSet(ActingAt(Tail(s)))
      /\ Acting(s) = Cardinality(ActingAt(s)) /\ Acting(s) \in Nat
      /\ Acting(Tail(s)) = Cardinality(ActingAt(Tail(s)))
  BY <1>1, ActingFinite
<1>3. Cardinality(ActingAt(Tail(s))) = Cardinality(Later)
  <2>1. shift \in [ActingAt(Tail(s)) -> Later]
    BY <1>1 DEF ActingAt
  <2>2. \A i, j \in ActingAt(Tail(s)) : shift[i] = shift[j] => i = j
    BY <1>1 DEF ActingAt
  <2>3. ASSUME NEW j \in Later
        PROVE  \E i \in ActingAt(Tail(s)) : shift[i] = j
    <3>1. j - 1 \in 1 .. Len(s) - 1 /\ Tail(s)[j - 1] = s[j]
      BY <1>1 DEF ActingAt
    <3>2. j - 1 \in ActingAt(Tail(s))
      BY <1>1, <3>1 DEF ActingAt
    <3>3. QED
      BY <1>1, <3>2 DEF ActingAt
  <2>4. shift \in Bijection(ActingAt(Tail(s)), Later)
    BY <2>1, <2>2, <2>3 DEF Bijection, Injection, Surjection, IsInjective
  <2>5. QED
    BY <1>2, <2>4, FS_Bijection DEF ExistsBijection
<1> HIDE DEF Later, shift
<1>4. CASE NotWait(Head(s))
  <2>1. 1 \in ActingAt(s)
    BY <1>1, <1>4 DEF ActingAt
  <2>2. Cardinality(Later) = Cardinality(ActingAt(s)) - 1
    BY <1>2, <2>1, FS_RemoveElement DEF Later
  <2>3. One(NotWait(Head(s))) = 1
    BY <1>4 DEF One
  <2>4. QED
    BY <1>2, <1>3, <2>2, <2>3
<1>5. CASE ~NotWait(Head(s))
  <2>1. Later = ActingAt(s)
    BY <1>1, <1>5 DEF Later, ActingAt
  <2>2. One(NotWait(Head(s))) = 0
    BY <1>5 DEF One
  <2>3. QED
    BY <1>2, <1>3, <2>1, <2>2
<1>6. QED
  BY <1>4, <1>5

-----------------------------------------------------------------------------
(* The two sides take turns.                                               *)

\* Nothing has been written, and there is no session.
Unborn == up = <<>> /\ out = <<>> /\ pc = "new"

\* The first request finds both directions empty.
TurnInv ==
    /\ TakesTurns
    /\ cpc \in {"off", "request"} => Unborn

LEMMA PlayTypes ==
    ASSUME NTypeInv
    PROVE  /\ up \in Seq(Content) /\ q \in Seq(Content) /\ out \in Seq(Content)
           /\ Len(up) \in Nat /\ Len(q) \in Nat /\ Acting(out) \in Nat
           /\ One(Answering) \in {0, 1} /\ One(Handling) \in {0, 1}
<1>1. up \in Seq(Content) /\ q \in Seq(Content) /\ out \in Seq(Content)
  BY SameContent DEF NTypeInv, TypeInv, TypeOK, ClientInv, CN!ClientTypeOK
<1>2. QED
  BY <1>1, ActingFinite, LenProperties DEF One

\* The proposal the client writes is a PDU.
LEMMA CounterContent ==
    ASSUME NTypeInv, NEW answer \in Values, CN!CounterProposal(answer)
    PROVE  Objective("NEGO_MSG", "Negotiation", Decremented(msg.loop), answer)
             \in Content
<1>1. msg \in Content
  BY DEF CN!CounterProposal, NTypeInv, ClientInv
<1>2. Decremented(msg.loop) \in uint8
  BY <1>1, DecrementedIsByte DEF Content
<1>3. QED
  BY <1>2 DEF Objective, Content, MSG_TYPE, option_type

\* The session's steps hand PDUs on and lose some, but make none.
LEMMA TurnServer ==
    ASSUME NTypeInv, ServerSteps
    PROVE  InPlay' <= InPlay
<1> DEFINE a == Acting(out)
           s == One(Answering)
           h == One(Handling)
<1>0. /\ UNCHANGED <<up, cpc, msg>>
      /\ Len(up) \in Nat /\ Len(q) \in Nat /\ a \in Nat
      /\ s \in {0, 1} /\ h \in {0, 1}
  BY PlayTypes DEF ServerSteps, client
<1>1. h' = h
  BY <1>0 DEF One, Handling
<1>2. InPlay = Len(up) + Len(q) + a + s + h
  BY DEF InPlay
<1>3. InPlay' = Len(up) + Len(q') + a' + s' + h
  BY <1>0, <1>1 DEF InPlay
<1>4. ASSUME UNCHANGED <<q, out>>, Answering' => Answering
      PROVE  InPlay' <= InPlay
  <2>1. a' = a
    BY <1>4
  <2>2. s' <= s /\ s' \in {0, 1}
    BY <1>4 DEF One
  <2> HIDE DEF a, s, h
  <2>3. QED
    BY <1>0, <1>2, <1>3, <1>4, <2>1, <2>2
<1>5. CASE RunReady \/ RunExit \/ RunClose \/ RunSetState \/ RunMark
             \/ RunSpawn \/ RunBranch \/ RunSend \/ RunWriteFails \/ RunSent
  BY <1>4, <1>5
     DEF RunReady, RunExit, RunClose, RunSetState, RunMark, RunSpawn,
         RunBranch, RunSend, RunWriteFails, AfterFailedSend, RunSent, Answering
<1>6. ASSUME NEW answer \in Values, NEW geq \in BOOLEAN, RunUpper(answer, geq)
      PROVE  InPlay' <= InPlay
  BY <1>4, <1>6 DEF RunUpper, Answering
\* The session takes the message it will answer or drop.
<1>7. CASE RunPopDuplicate \/ RunPop
  <2>1. Len(q') = Len(q) - 1
    <3>1. q \in Seq(Content) /\ q # <<>> /\ q' = Tail(q)
      BY <1>7, PlayTypes DEF RunPopDuplicate, RunPop, Pop, NTypeInv, TypeInv
    <3>2. QED
      BY <3>1, HeadTailProperties
  <2>2. a' = a
    BY <1>7 DEF RunPopDuplicate, RunPop, Pop
  <2>3. s = 0 /\ s' <= 1 /\ s' \in Nat
    BY <1>7 DEF RunPopDuplicate, RunPop, Pop, One, Answering
  <2> HIDE DEF a, s, h
  <2>4. QED
    BY <1>0, <1>2, <1>3, <2>1, <2>2, <2>3
\* Its answer leaves it.
<1>8. CASE RunWrite
  <2>1. q' = q
    BY <1>8 DEF RunWrite
  <2>2. a' <= a + 1 /\ a' \in Nat
    <3>1. reply \in Content /\ out \in Seq(Content) /\ out' = Append(out, reply)
      BY <1>8, PlayTypes DEF RunWrite, NTypeInv, TypeInv
    <3>2. Acting(out') = Acting(out) + One(NotWait(reply))
      BY <3>1, ActingAppend
    <3>3. One(NotWait(reply)) \in {0, 1}
      BY DEF One
    <3>4. QED
      BY <1>0, <3>2, <3>3
  <2>3. s = 1 /\ s' = 0
    BY <1>8 DEF RunWrite, One, Answering
  <2> HIDE DEF a, s, h
  <2>4. QED
    BY <1>0, <1>2, <1>3, <2>1, <2>2, <2>3
<1>9. CASE RunClear
  <2>1. Len(q') = 0 /\ a' = a /\ s = 0 /\ s' = 0
    BY <1>9 DEF RunClear, One, Answering
  <2> HIDE DEF a, s, h
  <2>2. QED
    BY <1>0, <1>2, <1>3, <2>1
\* A WAIT_MSG does not count.
<1>10. ASSUME NEW w \in Rounds, WaitThread(w)
       PROVE  InPlay' <= InPlay
  <2> DEFINE Wait == Plain("WAIT_MSG", "Waiting_time")
  <2>1. q' = q /\ pc' = pc /\ (out' = out \/ out' = Append(out, Wait))
    BY <1>10 DEF WaitThread, WaitWake, WaitSend, WaitWrite, WaitUnchanged
  <2>2. Wait \in Content /\ ~NotWait(Wait)
    <3>1. Wait \in Content
      BY PlainType DEF MSG_TYPE, option_type
    <3>2. ~NotWait(Wait)
      BY DEF NotWait, Plain, Objective
    <3>3. QED
      BY <3>1, <3>2
  <2> HIDE DEF Wait
  <2>3. Acting(Append(out, Wait)) = Acting(out)
    <3>1. Acting(Append(out, Wait)) = Acting(out) + One(NotWait(Wait))
      BY <2>2, PlayTypes, ActingAppend
    <3>2. One(NotWait(Wait)) = 0
      BY <2>2 DEF One
    <3>3. QED
      BY <1>0, <3>1, <3>2
  <2>4. a' = a
    BY <2>1, <2>3
  <2>5. s' = s
    BY <2>1 DEF One, Answering
  <2> HIDE DEF a, s, h
  <2>6. QED
    BY <1>0, <1>2, <1>3, <2>1, <2>4, <2>5
<1>11. ASSUME NEW e \in Rounds, EndThread(e)
       PROVE  InPlay' <= InPlay
  BY <1>4, <1>11
     DEF EndThread, EndWake, EndReset, EndFire, EndUnchanged, Answering
<1>12. CASE RunSleep
  BY <1>4, <1>12 DEF RunSleep, vars, Answering
<1>13. QED
  BY <1>5, <1>6, <1>7, <1>8, <1>9, <1>10, <1>11, <1>12
     DEF ServerSteps, SessionThread

\* The run loop carries a PDU over, or drops it.
LEMMA TurnDistribute ==
    ASSUME NTypeInv, Distribute
    PROVE  InPlay' <= InPlay
<1> DEFINE a == Acting(out)
           s == One(Answering)
           h == One(Handling)
<1>0. /\ Len(up) \in Nat /\ Len(q) \in Nat /\ a \in Nat
      /\ s \in {0, 1} /\ h \in {0, 1}
  BY PlayTypes
<1>1. InPlay = Len(up) + Len(q) + a + s + h
  BY DEF InPlay
<1>2. InPlay' = Len(up') + Len(q') + a' + s' + h'
  BY DEF InPlay
<1>3. h' = h
  BY DEF Distribute, client, One, Handling
<1>4. Len(up') = Len(up) - 1
  <2>1. up \in Seq(Content) /\ up # <<>> /\ up' = Tail(up)
    BY PlayTypes DEF Distribute
  <2>2. QED
    BY <2>1, HeadTailProperties
<1>5. CASE Construct(Head(up))
  <2>1. Len(q') = 1 /\ Len(q) = 0
    BY <1>5 DEF Construct, NTypeInv, TypeInv
  <2>2. a' = a /\ s' = s
    BY <1>5 DEF Construct, One, Answering
  <2> HIDE DEF a, s, h
  <2>3. QED
    BY <1>0, <1>1, <1>2, <1>3, <1>4, <2>1, <2>2
<1>6. CASE Push(Head(up))
  <2>1. Len(q') = Len(q) + 1
    <3>1. q \in Seq(Content) /\ q' = Append(q, Head(up))
      BY <1>6, PlayTypes DEF Push
    <3>2. QED
      BY <3>1
  <2>2. a' = a /\ s' = s
    BY <1>6 DEF Push, One, Answering
  <2> HIDE DEF a, s, h
  <2>3. QED
    BY <1>0, <1>1, <1>2, <1>3, <1>4, <2>1, <2>2
<1>7. CASE UNCHANGED vars
  <2>1. Len(q') = Len(q) /\ a' = a /\ s' = s
    BY <1>7 DEF vars, One, Answering
  <2> HIDE DEF a, s, h
  <2>2. QED
    BY <1>0, <1>1, <1>2, <1>3, <1>4, <2>1
<1>8. QED
  BY <1>5, <1>6, <1>7 DEF Distribute

\* The client passes the turn on, or keeps it by going away.
LEMMA TurnClient ==
    ASSUME NTypeInv, TurnInv, garbage' = 0, ClientSteps
    PROVE  TurnInv'
<1> DEFINE a == Acting(out)
           s == One(Answering)
           h == One(Handling)
<1>0. /\ Len(up) \in Nat /\ Len(q) \in Nat /\ a \in Nat
      /\ s \in {0, 1} /\ h \in {0, 1} /\ h' \in {0, 1}
      /\ s' = s /\ q' = q
  BY PlayTypes DEF ClientSteps, server, One, Answering
<1>1. InPlay = Len(up) + Len(q) + a + s + h
  BY DEF InPlay
<1>2. InPlay' = Len(up') + Len(q) + a' + s + h'
  BY <1>0 DEF InPlay
<1>3. cpc # "off" /\ cpc' \notin {"off", "request"}
  BY DEF ClientSteps, CN!ClientThread, CN!SendRequest, CN!Read, CN!Reading,
         CN!ReadTimesOut, CN!ReadEOF, CN!Unassigned, CN!ReadStale, CN!WritePDU,
         CN!AcceptProposal, CN!DeclineProposal, CN!CounterProposal,
         CN!HandleWait, CN!HandleEnd, CN!HandleOther, CN!Return
<1>4. garbage = 0
  BY ClientAssumption
     DEF NTypeInv, ClientInv, CN!ClientTypeOK,
         ClientSteps, CN!ClientThread, CN!SendRequest, CN!Read,
         CN!ReadTimesOut, CN!ReadEOF, CN!Unassigned, CN!ReadStale,
         CN!AcceptProposal, CN!DeclineProposal, CN!CounterProposal,
         CN!HandleWait, CN!HandleEnd, CN!HandleOther, CN!Return
<1>5. InPlay <= 1
  BY <1>4 DEF TurnInv, TakesTurns
<1>6. ASSUME InPlay' <= 1
      PROVE  TurnInv'
  BY <1>3, <1>6 DEF TurnInv, TakesTurns
\* Nothing is in play when the request is written.
<1>7. CASE CN!SendRequest
  <2>1. up = <<>> /\ out = <<>> /\ out' = out /\ pc = "new" /\ q = <<>>
    BY <1>7 DEF CN!SendRequest, TurnInv, Unborn, NTypeInv, TypeInv
  <2>2. a = 0 /\ a' = 0
    BY <2>1, ActingEmpty
  <2>3. s = 0 /\ h' = 0
    BY <1>7, <2>1 DEF CN!SendRequest, One, Answering, Handling
  <2>4. Len(up') \in {0, 1} /\ Len(q) = 0
    BY <1>7, <2>1 DEF CN!SendRequest
  <2> HIDE DEF a, s, h
  <2>5. InPlay' <= 1
    BY <1>2, <2>2, <2>3, <2>4
  <2>6. QED
    BY <1>6, <2>5
\* A PDU leaves the connection for the client's hand.
<1>8. CASE CN!Read
  <2>1. out \in Seq(Content) /\ out # <<>> /\ out' = Tail(out) /\ up' = up
    BY <1>8, PlayTypes DEF CN!Read
  <2>2. Acting(out) = Acting(out') + One(NotWait(Head(out)))
    BY <2>1, ActingTail
  <2>3. h = 0 /\ h' = One(NotWait(Head(out)))
    BY <1>8 DEF CN!Read, CN!Reading, One, Handling
  <2>4. out' \in Seq(Content) /\ a' \in Nat
    BY <2>1, HeadTailProperties, ActingFinite
  <2>5. InPlay' = InPlay
    <3>1. a = a' + h' /\ h = 0
      BY <2>2, <2>3
    <3>2. Len(up') = Len(up)
      BY <2>1
    <3> HIDE DEF a, s, h
    <3>3. InPlay' = Len(up) + Len(q) + a' + s + h'
      BY <1>2, <3>2
    <3>4. InPlay = Len(up) + Len(q) + (a' + h') + s
      BY <1>0, <1>1, <3>1
    <3>5. QED
      BY <1>0, <2>4, <3>3, <3>4
  <2>6. QED
    BY <1>5, <1>6, <2>5
\* The PDU in hand is replaced by the PDU written, or by none.
<1>9. ASSUME NEW m \in Content, cpc = "handle", msg.type = "NEGO_MSG",
             cpc' # "handle", out' = out, up' = up \/ up' = Append(up, m)
      PROVE  TurnInv'
  <2>1. Len(up') = Len(up) \/ Len(up') = Len(up) + 1
    BY <1>9, PlayTypes
  <2>2. h = 1 /\ h' = 0 /\ a' = a
    BY <1>9 DEF One, Handling, NotWait
  <2>3. InPlay' <= InPlay
    <3> HIDE DEF a, s, h
    <3>1. QED
      BY <1>0, <1>1, <1>2, <2>1, <2>2
  <2>4. InPlay \in Nat /\ InPlay' \in Nat
    <3> HIDE DEF a, s, h
    <3>1. QED
      BY <1>0, <1>1, <1>2, <2>1, <2>2
  <2>5. InPlay' <= 1
    BY <1>5, <2>3, <2>4
  <2>6. QED
    BY <1>6, <2>5
<1>10. CASE CN!AcceptProposal \/ CN!DeclineProposal
  <2>1. PICK opt \in {"Accept", "Decline"} :
          /\ cpc = "handle" /\ msg.type = "NEGO_MSG"
          /\ cpc' # "handle" /\ out' = out
          /\ up' = up \/ up' = Append(up, Plain("NEGO_END_MSG", opt))
    BY <1>10, SamePDUs DEF CN!AcceptProposal, CN!DeclineProposal, CN!WritePDU
  <2>2. Plain("NEGO_END_MSG", opt) \in Content
    BY PlainType DEF MSG_TYPE, option_type
  <2>3. QED
    BY <1>9, <2>1, <2>2
<1>11. ASSUME NEW answer \in Values, CN!CounterProposal(answer)
       PROVE  TurnInv'
  <2> DEFINE m == Objective("NEGO_MSG", "Negotiation", Decremented(msg.loop),
                            answer)
  <2>1. /\ cpc = "handle" /\ msg.type = "NEGO_MSG"
        /\ cpc' # "handle" /\ out' = out
        /\ up' = up \/ up' = Append(up, m)
    BY <1>11, SamePDUs DEF CN!CounterProposal, CN!WritePDU
  <2>2. m \in Content
    BY <1>11, CounterContent
  <2> HIDE DEF m
  <2>3. QED
    BY <1>9, <2>1, <2>2
\* The other steps write and read nothing, and none of them hands the client
\* a PDU.
<1>12. ASSUME UNCHANGED <<up, out>>, Handling' => Handling
       PROVE  TurnInv'
  <2>1. a' = a /\ h' <= h
    BY <1>12 DEF One
  <2>2. InPlay' <= InPlay /\ InPlay \in Nat /\ InPlay' \in Nat
    <3> HIDE DEF a, s, h
    <3>1. QED
      BY <1>0, <1>1, <1>2, <1>12, <2>1
  <2>3. InPlay' <= 1
    BY <1>5, <2>2
  <2>4. QED
    BY <1>6, <2>3
<1>13. CASE CN!ReadTimesOut \/ CN!ReadEOF
  <2>1. UNCHANGED <<up, out>> /\ cpc' # "handle"
    BY <1>4, <1>13 DEF CN!ReadTimesOut, CN!ReadEOF, CN!Unassigned
  <2>2. QED
    BY <1>12, <2>1 DEF Handling
<1>14. ASSUME NEW stale \in {msg, written}, CN!ReadStale(stale)
       PROVE  TurnInv'
  BY <1>4, <1>14 DEF CN!ReadStale
<1>15. CASE CN!HandleWait \/ CN!HandleEnd \/ CN!HandleOther \/ CN!Return
  <2>1. UNCHANGED <<up, out>> /\ cpc' # "handle"
    BY <1>15 DEF CN!HandleWait, CN!HandleEnd, CN!HandleOther, CN!Return
  <2>2. QED
    BY <1>12, <2>1 DEF Handling
<1>16. QED
  BY <1>7, <1>8, <1>10, <1>11, <1>13, <1>14, <1>15
     DEF ClientSteps, CN!ClientThread

LEMMA TurnInit == NInit => TurnInv
BY ActingEmpty
   DEF NInit, Init, CN!ClientInit, TurnInv, TakesTurns, InPlay, Unborn, One,
       Answering, Handling

\* Before the request is written the session does nothing.
LEMMA UnbornStep ==
    ASSUME NTypeInv, Unborn, ServerSteps \/ Distribute
    PROVE  Unborn'
<1> USE DEF Unborn
<1>1. CASE Distribute
  BY <1>1 DEF Distribute
<1>2. CASE RunSleep \/ SessionThread
  BY <1>2
     DEF RunSleep, SessionThread, RunReady, RunExit, RunPopDuplicate, RunPop,
         Pop, RunSetState, RunMark, RunSpawn, RunBranch, RunUpper, RunSend,
         RunWrite, RunWriteFails, RunSent, RunClose, RunClear
<1>3. ASSUME NEW r \in Rounds, WaitThread(r) \/ EndThread(r), ServerSteps
      PROVE  Unborn'
  BY <1>3
     DEF ServerSteps, WaitThread, WaitWake, WaitSend, WaitWrite, WaitUnchanged,
         Connected, EndThread, EndWake, EndReset, EndFire, EndUnchanged
<1>4. QED
  BY <1>1, <1>2, <1>3 DEF ServerSteps

LEMMA TurnStep == NTypeInv /\ NTypeInv' /\ TurnInv /\ [NNext]_nvars => TurnInv'
<1> SUFFICES ASSUME NTypeInv, NTypeInv', TurnInv, [NNext]_nvars
             PROVE  TurnInv'
  OBVIOUS
<1>1. CASE ClientSteps
  <2>1. CASE garbage' = 0
    BY <1>1, <2>1, TurnClient
  <2>2. CASE garbage' # 0
    <3>1. cpc' \notin {"off", "request"}
      BY <1>1
         DEF ClientSteps, CN!ClientThread, CN!SendRequest, CN!Read, CN!Reading,
             CN!ReadTimesOut, CN!ReadEOF, CN!Unassigned, CN!ReadStale,
             CN!WritePDU, CN!AcceptProposal, CN!DeclineProposal,
             CN!CounterProposal, CN!HandleWait, CN!HandleEnd, CN!HandleOther,
             CN!Return
    <3>2. QED
      BY <2>2, <3>1 DEF TurnInv, TakesTurns
  <2>3. QED
    BY <2>1, <2>2
<1>2. CASE Call
  <2>1. /\ UNCHANGED <<up, q, out, pc, garbage>>
        /\ cpc = "off" /\ cpc' = "request"
    BY <1>2 DEF Call, server, CN!negotiate, CN!synchronize, CN!Start
  <2>2. Unborn'
    BY <2>1 DEF TurnInv, Unborn
  <2>3. InPlay' = InPlay
    BY <2>1 DEF InPlay, One, Answering, Handling
  <2>4. QED
    BY <2>1, <2>2, <2>3 DEF TurnInv, TakesTurns
\* What the other processes do with what is in play.
<1>3. ASSUME UNCHANGED <<cpc, garbage>>, InPlay' <= InPlay, Unborn => Unborn'
      PROVE  TurnInv'
  <2>1. InPlay \in Nat
    BY PlayTypes DEF InPlay
  <2>2. InPlay' \in Nat
    <3>1. /\ out' \in Seq(Content) /\ Len(up') \in Nat /\ Len(q') \in Nat
      BY SameContent, LenProperties
         DEF NTypeInv, TypeInv, TypeOK, ClientInv, CN!ClientTypeOK
    <3>2. Acting(out') \in Nat
      BY <3>1, ActingFinite
    <3>3. One(Answering)' \in Nat /\ One(Handling)' \in Nat
      BY DEF One
    <3>4. QED
      BY <3>1, <3>2, <3>3 DEF InPlay
  <2>3. garbage = 0 => InPlay' <= 1
    BY <1>3, <2>1, <2>2 DEF TurnInv, TakesTurns
  <2>4. QED
    BY <1>3, <2>3 DEF TurnInv, TakesTurns
<1>4. CASE ServerSteps
  BY <1>3, <1>4, TurnServer, UnbornStep DEF ServerSteps, client
<1>5. CASE Distribute
  BY <1>3, <1>5, TurnDistribute, UnbornStep DEF Distribute, client
<1>6. CASE Quiet \/ UNCHANGED nvars
  <2>1. UNCHANGED nvars
    BY <1>6 DEF Quiet
  <2>2. InPlay' = InPlay
    BY <2>1 DEF nvars, vars, client, InPlay, One, Answering, Handling
  <2>3. QED
    BY <2>1, <2>2 DEF nvars, vars, client, TurnInv, TakesTurns, Unborn
<1>7. QED
  BY <1>1, <1>2, <1>4, <1>5, <1>6 DEF NNext

LEMMA TurnInvariant ==
    ASSUME AnyMessage
    PROVE  NSpec => []TurnInv
<1>1. NTypeInv /\ NTypeInv' /\ TurnInv /\ [NNext]_nvars => TurnInv'
  BY TurnStep
<1>2. QED
  BY <1>1, NTypeInvariant, TurnInit, PTL DEF NSpec

\* As long as the client has acted on no failed read, at most one PDU of the
\* negotiation is in play, whatever is lost, dropped, refused or late.
THEOREM TakesTurnsCorrect ==
    ASSUME AnyMessage
    PROVE  NSpec => []TakesTurns
<1>1. TurnInv => TakesTurns
  BY DEF TurnInv
<1>2. QED
  BY <1>1, TurnInvariant, PTL

-----------------------------------------------------------------------------
(* What the PDUs on their way say.                                         *)

LEMMA PDUsEmpty == PDUs(<<>>) = {}
BY DEF PDUs

LEMMA PDUsAppend ==
    ASSUME NEW s \in Seq(Content), NEW m \in Content
    PROVE  PDUs(Append(s, m)) = PDUs(s) \cup {m}
<1>1. /\ Len(s) \in Nat
      /\ DOMAIN s = 1 .. Len(s)
      /\ DOMAIN Append(s, m) = 1 .. Len(s) + 1
      /\ \A i \in 1 .. Len(s) : Append(s, m)[i] = s[i]
      /\ Append(s, m)[Len(s) + 1] = m
  BY AppendProperties, LenProperties
<1>2. ASSUME NEW p \in PDUs(Append(s, m))
      PROVE  p \in PDUs(s) \cup {m}
  <2>1. PICK i \in 1 .. Len(s) + 1 : p = Append(s, m)[i]
    BY <1>1 DEF PDUs
  <2>2. CASE i \in 1 .. Len(s)
    BY <1>1, <2>1, <2>2 DEF PDUs
  <2>3. CASE i = Len(s) + 1
    BY <1>1, <2>1, <2>3
  <2>4. QED
    BY <1>1, <2>2, <2>3
<1>3. ASSUME NEW p \in PDUs(s)
      PROVE  p \in PDUs(Append(s, m))
  <2>1. PICK i \in 1 .. Len(s) : p = s[i]
    BY <1>1 DEF PDUs
  <2>2. i \in 1 .. Len(s) + 1 /\ p = Append(s, m)[i]
    BY <1>1, <2>1
  <2>3. QED
    BY <1>1, <2>2 DEF PDUs
<1>4. m \in PDUs(Append(s, m))
  <2>1. Len(s) + 1 \in 1 .. Len(s) + 1
    BY <1>1
  <2>2. QED
    BY <1>1, <2>1 DEF PDUs
<1>5. QED
  BY <1>2, <1>3, <1>4

LEMMA PDUsTail ==
    ASSUME NEW s \in Seq(Content), s # <<>>
    PROVE  PDUs(s) = PDUs(Tail(s)) \cup {Head(s)}
<1>1. /\ Len(s) \in Nat \ {0}
      /\ DOMAIN s = 1 .. Len(s)
      /\ Head(s) = s[1]
      /\ DOMAIN Tail(s) = 1 .. Len(s) - 1
      /\ \A i \in 1 .. Len(s) - 1 : Tail(s)[i] = s[i + 1]
  BY HeadTailProperties, EmptySeq, LenProperties
<1>2. ASSUME NEW p \in PDUs(Tail(s))
      PROVE  p \in PDUs(s)
  <2>1. PICK i \in 1 .. Len(s) - 1 : p = Tail(s)[i]
    BY <1>1 DEF PDUs
  <2>2. i + 1 \in 1 .. Len(s) /\ p = s[i + 1]
    BY <1>1, <2>1
  <2>3. QED
    BY <1>1, <2>2 DEF PDUs
<1>3. ASSUME NEW p \in PDUs(s), p # Head(s)
      PROVE  p \in PDUs(Tail(s))
  <2>1. PICK i \in 1 .. Len(s) : p = s[i]
    BY <1>1 DEF PDUs
  <2>2. i # 1
    BY <1>1, <1>3, <2>1
  <2>3. i - 1 \in 1 .. Len(s) - 1 /\ p = Tail(s)[i - 1]
    BY <1>1, <2>1, <2>2
  <2>4. QED
    BY <1>1, <2>3 DEF PDUs
<1>4. Head(s) \in PDUs(s)
  <2>1. 1 \in 1 .. Len(s)
    BY <1>1
  <2>2. QED
    BY <1>1, <2>1 DEF PDUs
<1>5. QED
  BY <1>2, <1>3, <1>4

LEMMA SilentIfNoneActs ==
    ASSUME NTypeInv, Acting(out) = 0
    PROVE  Silent
<1>1. Cardinality(ActingAt(out)) = 0 /\ IsFiniteSet(ActingAt(out))
  BY PlayTypes, ActingFinite
<1>2. ActingAt(out) = {}
  BY <1>1, FS_EmptySet
<1>3. QED
  BY <1>2 DEF Silent, PDUs, ActingAt

\* The PDU in play is in one place.
LEMMA OnePlace ==
    ASSUME NTypeInv, TurnInv, garbage = 0
    PROVE  /\ up # <<>> => q = <<>> /\ Silent /\ ~Answering /\ ~Handling
           /\ q # <<>> => up = <<>> /\ Silent /\ ~Answering /\ ~Handling
           /\ Answering => up = <<>> /\ q = <<>> /\ Silent /\ ~Handling
           /\ Handling => up = <<>> /\ q = <<>> /\ Silent /\ ~Answering
<1> DEFINE a == Acting(out)
           s == One(Answering)
           h == One(Handling)
           u == Len(up)
           l == Len(q)
<1>1. u + l + a + s + h <= 1
  BY DEF TurnInv, TakesTurns, InPlay
<1>2. u \in Nat /\ l \in Nat /\ a \in Nat /\ s \in {0, 1} /\ h \in {0, 1}
  BY PlayTypes
<1>3. /\ (up = <<>>) <=> (u = 0)
      /\ (q = <<>>) <=> (l = 0)
  BY PlayTypes, EmptySeq
<1>4. a = 0 => Silent
  BY SilentIfNoneActs
<1>5. (Answering <=> s = 1) /\ (Handling <=> h = 1)
  BY DEF One
<1> HIDE DEF a, s, h, u, l
<1>6. /\ u # 0 => l = 0 /\ a = 0 /\ s = 0 /\ h = 0
      /\ l # 0 => u = 0 /\ a = 0 /\ s = 0 /\ h = 0
      /\ s = 1 => u = 0 /\ l = 0 /\ a = 0 /\ h = 0
      /\ h = 1 => u = 0 /\ l = 0 /\ a = 0 /\ s = 0
  BY <1>1, <1>2
<1>7. QED
  BY <1>3, <1>4, <1>5, <1>6

\* A proposal is about an objective; an answer without one carries no value.
Offers(m) == IsProposal(m) => m.opt \in {"Negotiation", "Synchronization"}

OfferInv ==
    /\ cpc = "request" => Offers(msg)
    /\ \A m \in PDUs(up) \cup PDUs(q) : Offers(m)
    /\ Answering => Offers(c)
    /\ pc \in {"upper", "send", "write"} => IsProposal(c)
    /\ reply.type = "NEGO_MSG" => reply.opt \notin {"Accept", "Decline"}
    /\ reply.opt \in {"Accept", "Decline"} => reply.value = NoValue

LEMMA OfferInit == NInit => OfferInv
BY PDUsEmpty
   DEF NInit, Init, CN!ClientInit, OfferInv, NoContent, Answering

\* Nothing new is said.
LEMMA OfferKept ==
    ASSUME OfferInv, UNCHANGED <<c, reply>>,
           PDUs(up') \subseteq PDUs(up) \cup PDUs(q),
           PDUs(q') \subseteq PDUs(up) \cup PDUs(q),
           Answering' => Answering,
           pc' \in {"upper", "send", "write"} =>
             pc \in {"upper", "send", "write"} \/ IsProposal(c),
           cpc' = "request" => cpc = "request" /\ msg' = msg
    PROVE  OfferInv'
BY DEF OfferInv, Offers, IsProposal

\* run() answers a proposal about an objective.
LEMMA ReplyOffers ==
    ASSUME NEW m \in Content, NEW answer \in Values, NEW geq \in BOOLEAN,
           m.opt \in {"Negotiation", "Synchronization"}
    PROVE  LET r == ReplyTo(m, answer, geq) IN
           /\ r.type = "NEGO_MSG" => r.opt \notin {"Accept", "Decline"}
           /\ r.opt \in {"Accept", "Decline"} => r.value = NoValue
BY DEF ReplyTo, Objective, Plain

LEMMA OfferServer ==
    ASSUME NTypeInv, OfferInv, ServerSteps
    PROVE  OfferInv'
<1>0. UNCHANGED <<cpc, msg, up>>
  BY DEF ServerSteps, client
<1>1. CASE RunReady \/ RunExit \/ RunClose \/ RunSetState \/ RunMark
             \/ RunSpawn \/ RunSent \/ RunSleep
  BY <1>0, <1>1, OfferKept
     DEF RunReady, RunExit, RunClose, RunSetState, RunMark, RunSpawn, RunSent,
         RunSleep, vars, Answering
\* Only a proposal is shown to the ASA.
<1>2. CASE RunBranch
  BY <1>0, <1>2, OfferKept DEF RunBranch, Answering, Request, IsProposal
<1>3. CASE RunPopDuplicate \/ RunPop
  <2>1. /\ PDUs(q') \subseteq PDUs(q) /\ c' \in PDUs(q)
        /\ reply' = reply /\ pc' \in {"poll", "set_state"}
    <3>1. q \in Seq(Content) /\ q # <<>>
      BY <1>3, PlayTypes DEF RunPopDuplicate, RunPop, Pop, NTypeInv, TypeInv
    <3>2. QED
      BY <1>3, <3>1, PDUsTail DEF RunPopDuplicate, RunPop, Pop
  <2>2. QED
    BY <1>0, <2>1 DEF OfferInv, Offers, IsProposal
<1>4. ASSUME NEW answer \in Values, NEW geq \in BOOLEAN, RunUpper(answer, geq)
      PROVE  OfferInv'
  <2>1. c \in Content /\ IsProposal(c) /\ Offers(c)
    BY <1>4 DEF RunUpper, NTypeInv, TypeInv, InHand, OfferInv, Answering
  <2>2. /\ UNCHANGED <<q, c>> /\ reply' = ReplyTo(c, answer, geq)
    BY <1>4 DEF RunUpper
  <2>3. /\ reply'.type = "NEGO_MSG" => reply'.opt \notin {"Accept", "Decline"}
        /\ reply'.opt \in {"Accept", "Decline"} => reply'.value = NoValue
    BY <2>1, <2>2, ReplyOffers DEF Offers
  <2>4. QED
    BY <1>0, <2>1, <2>2, <2>3 DEF OfferInv, Offers, IsProposal
<1>5. CASE RunSend \/ RunWrite \/ RunWriteFails
  BY <1>0, <1>5, OfferKept
     DEF RunSend, RunWrite, RunWriteFails, AfterFailedSend, Answering
<1>6. CASE RunClear
  BY <1>0, <1>6, OfferKept, PDUsEmpty DEF RunClear, Answering
<1>7. ASSUME NEW r \in Rounds, WaitThread(r) \/ EndThread(r)
      PROVE  OfferInv'
  BY <1>0, <1>7, OfferKept
     DEF WaitThread, WaitWake, WaitSend, WaitWrite, WaitUnchanged, EndThread,
         EndWake, EndReset, EndFire, EndUnchanged, Answering
<1>8. QED
  BY <1>1, <1>2, <1>3, <1>4, <1>5, <1>6, <1>7 DEF ServerSteps, SessionThread

\* The run loop moves a PDU from the connection to the queue.
LEMMA DistributeMoves ==
    ASSUME NTypeInv, Distribute
    PROVE  /\ UNCHANGED client /\ UNCHANGED <<out, c, reply>>
           /\ Answering' = Answering /\ up # <<>>
           /\ PDUs(up') \subseteq PDUs(up)
           /\ PDUs(q') \subseteq PDUs(up) \cup PDUs(q)
           /\ pc' \in {"upper", "send", "write"} => pc' = pc
<1> DEFINE m == Head(up)
<1>1. /\ up # <<>> /\ up' = Tail(up) /\ UNCHANGED client
      /\ Construct(m) \/ Push(m) \/ UNCHANGED vars
  BY DEF Distribute
<1>2. /\ PDUs(up') \subseteq PDUs(up) /\ m \in PDUs(up) /\ m \in Content
  BY <1>1, PlayTypes, PDUsTail, HeadTailProperties
<1> HIDE DEF m
<1>3. PDUs(q') \subseteq PDUs(up) \cup PDUs(q)
  <2>1. CASE Construct(m)
    <3>1. q' = Append(<<>>, m) /\ <<>> \in Seq(Content)
      BY <2>1 DEF Construct
    <3>2. PDUs(Append(<<>>, m)) = PDUs(<<>>) \cup {m}
      BY ONLY <1>2, <3>1, PDUsAppend
    <3>3. QED
      BY <1>2, <3>1, <3>2, PDUsEmpty
  <2>2. CASE Push(m)
    <3>1. q' = Append(q, m)
      BY <2>2 DEF Push
    <3>2. QED
      BY <1>2, <3>1, PDUsAppend, PlayTypes
  <2>3. CASE UNCHANGED vars
    BY <2>3 DEF vars
  <2>4. QED
    BY <1>1, <2>1, <2>2, <2>3
<1>4. /\ UNCHANGED <<out, c, reply>> /\ Answering' = Answering
      /\ pc' \in {"upper", "send", "write"} => pc' = pc
  BY <1>1 DEF Construct, Push, vars, Answering
<1>5. QED
  BY <1>1, <1>2, <1>3, <1>4

LEMMA OfferStep == NTypeInv /\ OfferInv /\ [NNext]_nvars => OfferInv'
<1> SUFFICES ASSUME NTypeInv, OfferInv, [NNext]_nvars
             PROVE  OfferInv'
  OBVIOUS
<1>1. CASE Call
  <2>1. Offers(msg') /\ UNCHANGED <<up, q, pc, c, reply>>
    BY <1>1, SamePDUs
       DEF Call, server, CN!negotiate, CN!synchronize, CN!Start, Objective,
           Offers
  <2>2. QED
    BY <2>1 DEF OfferInv, Offers, Answering, IsProposal
<1>2. CASE ServerSteps
  BY <1>2, OfferServer
<1>3. CASE Distribute
  BY <1>3, DistributeMoves, OfferKept DEF client
<1>4. CASE Quiet \/ UNCHANGED nvars
  BY <1>4, OfferKept DEF Quiet, nvars, vars, client, Answering
\* The client writes m, which is an objective or says nothing, or writes
\* nothing.
<1>5. ASSUME NEW m \in Content, Offers(m), UNCHANGED <<q, pc, c, reply>>,
             cpc' # "request", up' = up \/ up' = Append(up, m)
      PROVE  OfferInv'
  <2>1. PDUs(up') \subseteq PDUs(up) \cup {m}
    BY <1>5, PlayTypes, PDUsAppend
  <2>2. QED
    BY <1>5, <2>1 DEF OfferInv, Offers, Answering, IsProposal
<1>6. ASSUME UNCHANGED <<q, pc, c, reply, up>>, cpc' # "request"
      PROVE  OfferInv'
  BY <1>6, OfferKept DEF Answering
<1>7. CASE ClientSteps
  <2>0. UNCHANGED <<q, pc, c, reply>>
    BY <1>7 DEF ClientSteps, server
  <2>1. CASE CN!SendRequest
    <3>1. msg \in Content /\ Offers(msg)
      BY <2>1 DEF CN!SendRequest, NTypeInv, ClientInv, OfferInv
    <3>2. QED
      BY <1>5, <2>0, <2>1, <3>1 DEF CN!SendRequest
  <2>2. CASE CN!AcceptProposal \/ CN!DeclineProposal
    <3>1. PICK opt \in {"Accept", "Decline"} :
            /\ cpc' # "request"
            /\ up' = up \/ up' = Append(up, Plain("NEGO_END_MSG", opt))
      BY <2>2, SamePDUs DEF CN!AcceptProposal, CN!DeclineProposal, CN!WritePDU
    <3>2. Plain("NEGO_END_MSG", opt) \in Content
      BY PlainType DEF MSG_TYPE, option_type
    <3>3. Offers(Plain("NEGO_END_MSG", opt))
      BY DEF Offers, IsProposal, Plain, Objective
    <3>4. QED
      BY <1>5, <2>0, <3>1, <3>2, <3>3
  <2>3. ASSUME NEW answer \in Values, CN!CounterProposal(answer)
        PROVE  OfferInv'
    <3> DEFINE m == Objective("NEGO_MSG", "Negotiation",
                              Decremented(msg.loop), answer)
    <3>1. cpc' # "request" /\ (up' = up \/ up' = Append(up, m))
      BY <2>3, SamePDUs DEF CN!CounterProposal, CN!WritePDU
    <3>2. m \in Content
      BY <2>3, CounterContent
    <3>3. Offers(m)
      BY DEF Offers, Objective
    <3> HIDE DEF m
    <3>4. QED
      BY <1>5, <2>0, <3>1, <3>2, <3>3
  <2>4. CASE \/ CN!Read \/ CN!ReadTimesOut \/ CN!ReadEOF
             \/ \E stale \in {msg, written} : CN!ReadStale(stale)
             \/ CN!HandleWait \/ CN!HandleEnd \/ CN!HandleOther \/ CN!Return
    BY <1>6, <2>0, <2>4
       DEF CN!Read, CN!ReadTimesOut, CN!ReadEOF, CN!Unassigned, CN!ReadStale,
           CN!HandleWait, CN!HandleEnd, CN!HandleOther, CN!Return
  <2>5. QED
    BY <1>7, <2>1, <2>2, <2>3, <2>4 DEF ClientSteps, CN!ClientThread
<1>8. QED
  BY <1>1, <1>2, <1>3, <1>4, <1>7 DEF NNext

-----------------------------------------------------------------------------
(* Both sides have the same value.                                         *)

\* lastTopOptions holds the value of m, or what it held before the
\* negotiation when m is the request.
Remembers(m) == lastTopOptions \in {NoValue, m.value}

\* Before the client returns: what it has proposed last is what lastTopOptions
\* holds, on its way and in the session's hand; and the answer it meets is the
\* session's last, given to that proposal.
WaitInv ==
    /\ config = {} /\ rtnval = "SUCCESS"
    /\ \A m \in PDUs(up) \cup PDUs(q) : IsProposal(m) => Remembers(m)
    /\ Answering /\ IsProposal(c) => Remembers(c)
    /\ \A m \in PDUs(out) : NotWait(m) => m = reply /\ Remembers(c)
    /\ Handling => msg = reply /\ Remembers(c)

\* Once it has returned with a result: the result is the agreed value, and
\* nothing under way can make the session agree to another one.
SettledInv ==
    /\ config \subseteq {NoValue, AgreedValue}
    /\ rtnval = "SUCCESS" => msg.value \in {NoValue, AgreedValue}
    /\ \A m \in PDUs(up) \cup PDUs(q) : ~IsProposal(m)
    /\ Answering => ~IsProposal(c)
    /\ reply.opt \in {"Accept", "Decline"} =>
         up = <<>> /\ q = <<>> /\ ~Answering

Result == /\ call = "synchronize" => rtnval = "SUCCESS"
          /\ config # {} \/ rtnval = "SUCCESS"

AgreeInv ==
    garbage = 0 =>
      /\ cpc \in {"off", "request"} => lastTopOptions = NoValue
      /\ ~Returned => WaitInv
      /\ Returned /\ Result => SettledInv

LEMMA AgreeInit == NInit => AgreeInv
BY PDUsEmpty
   DEF NInit, Init, CN!ClientInit, AgreeInv, WaitInv, Returned, Answering,
       Handling

LEMMA AgreeImplies == AgreeInv => Agreement
BY DEF AgreeInv, Agreement, Believable, Returned, Result, WaitInv, SettledInv

\* A step of the session that sends nothing and takes nothing.
LEMMA AgreeKept ==
    ASSUME AgreeInv, UNCHANGED <<client, up, c, reply>>,
           PDUs(q') \subseteq PDUs(q), q = <<>> => q' = <<>>,
           Answering' => Answering,
           \A m \in PDUs(out') : NotWait(m) => m \in PDUs(out)
    PROVE  AgreeInv'
<1>1. /\ UNCHANGED <<call, cpc, msg, lastTopOptions, config, rtnval, garbage>>
      /\ UNCHANGED <<up, c, reply>>
  BY DEF client
<1>2. WaitInv => WaitInv'
  BY <1>1 DEF WaitInv, Remembers, Handling
<1>3. SettledInv => SettledInv'
  BY <1>1 DEF SettledInv, AgreedValue
<1>4. QED
  BY <1>1, <1>2, <1>3 DEF AgreeInv, Returned, Result

\* The session takes a message, answers it, and writes the answer.
LEMMA AgreePop ==
    ASSUME NTypeInv, TurnInv, AgreeInv, UNCHANGED <<client, up>>,
           RunPopDuplicate \/ RunPop
    PROVE  AgreeInv'
<1>1. /\ UNCHANGED <<call, cpc, msg, lastTopOptions, config, rtnval, garbage>>
      /\ UNCHANGED <<up, reply, out>>
  BY DEF client, RunPopDuplicate, RunPop, Pop
<1>2. q # <<>> /\ PDUs(q') \subseteq PDUs(q) /\ c' \in PDUs(q)
  <2>1. /\ q \in Seq(Content) /\ q # <<>>
        /\ q' = Tail(q) /\ c' = Head(q)
    BY PlayTypes DEF RunPopDuplicate, RunPop, Pop, NTypeInv, TypeInv
  <2>2. QED
    BY <2>1, PDUsTail
<1>3. SUFFICES ASSUME garbage = 0
               PROVE  AgreeInv'
  BY <1>1 DEF AgreeInv
<1>4. Silent /\ ~Handling
  BY <1>2, <1>3, OnePlace
<1>5. WaitInv => WaitInv'
  BY <1>1, <1>2, <1>4 DEF WaitInv, Remembers, Handling, Silent
<1>6. SettledInv => SettledInv'
  BY <1>1, <1>2 DEF SettledInv, AgreedValue
<1>7. QED
  BY <1>1, <1>5, <1>6 DEF AgreeInv, Returned, Result

LEMMA AgreeUpper ==
    ASSUME NTypeInv, TurnInv, OfferInv, AgreeInv, UNCHANGED <<client, up>>,
           NEW answer \in Values, NEW geq \in BOOLEAN, RunUpper(answer, geq)
    PROVE  AgreeInv'
<1>1. /\ UNCHANGED <<call, cpc, msg, lastTopOptions, config, rtnval, garbage>>
      /\ UNCHANGED <<up, q, c, out>>
  BY DEF client, RunUpper
<1>2. Answering /\ IsProposal(c) /\ Answering'
  BY DEF RunUpper, Answering, OfferInv
<1>3. SUFFICES ASSUME garbage = 0
               PROVE  AgreeInv'
  BY <1>1 DEF AgreeInv
<1>4. Silent /\ ~Handling
  BY <1>2, <1>3, OnePlace
<1>5. WaitInv => WaitInv'
  BY <1>1, <1>2, <1>4 DEF WaitInv, Remembers, Handling, Silent
<1>6. ~SettledInv
  BY <1>2 DEF SettledInv
<1>7. QED
  BY <1>1, <1>3, <1>5, <1>6 DEF AgreeInv, Returned, Result

LEMMA AgreeWrite ==
    ASSUME NTypeInv, TurnInv, OfferInv, AgreeInv, UNCHANGED <<client, up>>,
           RunWrite
    PROVE  AgreeInv'
<1>1. /\ UNCHANGED <<call, cpc, msg, lastTopOptions, config, rtnval, garbage>>
      /\ UNCHANGED <<up, q, c, reply>>
  BY DEF client, RunWrite
<1>2. Answering /\ IsProposal(c) /\ ~Answering'
  BY DEF RunWrite, Answering, OfferInv
<1>3. PDUs(out') = PDUs(out) \cup {reply}
  BY PlayTypes, PDUsAppend DEF RunWrite, NTypeInv, TypeInv
<1>4. SUFFICES ASSUME garbage = 0
               PROVE  AgreeInv'
  BY <1>1 DEF AgreeInv
<1>5. WaitInv => WaitInv'
  BY <1>1, <1>2, <1>3 DEF WaitInv, Remembers, Handling
<1>6. ~SettledInv
  BY <1>2 DEF SettledInv
<1>7. QED
  BY <1>1, <1>4, <1>5, <1>6 DEF AgreeInv, Returned, Result

LEMMA AgreeServer ==
    ASSUME NTypeInv, TurnInv, OfferInv, AgreeInv, ServerSteps
    PROVE  AgreeInv'
<1>0. UNCHANGED <<client, up>>
  BY DEF ServerSteps
<1>1. CASE RunReady \/ RunExit \/ RunClose \/ RunSetState \/ RunMark
             \/ RunSpawn \/ RunBranch \/ RunSent \/ RunSleep
  BY <1>0, <1>1, AgreeKept
     DEF RunReady, RunExit, RunClose, RunSetState, RunMark, RunSpawn,
         RunBranch, RunSent, RunSleep, vars, Answering
<1>2. CASE RunPopDuplicate \/ RunPop
  BY <1>0, <1>2, AgreePop
<1>3. ASSUME NEW answer \in Values, NEW geq \in BOOLEAN, RunUpper(answer, geq)
      PROVE  AgreeInv'
  BY <1>0, <1>3, AgreeUpper
<1>4. CASE RunSend \/ RunWriteFails
  BY <1>0, <1>4, AgreeKept
     DEF RunSend, RunWriteFails, AfterFailedSend, Answering
<1>5. CASE RunWrite
  BY <1>0, <1>5, AgreeWrite
<1>6. CASE RunClear
  BY <1>0, <1>6, AgreeKept, PDUsEmpty DEF RunClear, Answering
<1>7. ASSUME NEW w \in Rounds, WaitThread(w)
      PROVE  AgreeInv'
  <2> DEFINE Wait == Plain("WAIT_MSG", "Waiting_time")
  <2>1. /\ UNCHANGED <<q, pc, c, reply>>
        /\ out' = out \/ out' = Append(out, Wait)
    BY <1>7 DEF WaitThread, WaitWake, WaitSend, WaitWrite, WaitUnchanged
  <2>2. Wait \in Content
    BY PlainType DEF MSG_TYPE, option_type
  <2>3. ~NotWait(Wait)
    BY DEF NotWait, Plain, Objective
  <2> HIDE DEF Wait
  <2>4. PDUs(out') \subseteq PDUs(out) \cup {Wait}
    BY <2>1, <2>2, PlayTypes, PDUsAppend
  <2>5. QED
    BY <1>0, <2>1, <2>3, <2>4, AgreeKept DEF Answering
<1>8. ASSUME NEW e \in Rounds, EndThread(e)
      PROVE  AgreeInv'
  BY <1>0, <1>8, AgreeKept
     DEF EndThread, EndWake, EndReset, EndFire, EndUnchanged, Answering
<1>9. QED
  BY <1>1, <1>2, <1>3, <1>4, <1>5, <1>6, <1>7, <1>8
     DEF ServerSteps, SessionThread

LEMMA AgreeDistribute ==
    ASSUME NTypeInv, TurnInv, AgreeInv, Distribute
    PROVE  AgreeInv'
<1>1. /\ UNCHANGED <<call, cpc, msg, lastTopOptions, config, rtnval, garbage>>
      /\ UNCHANGED <<out, c, reply>>
      /\ Answering' = Answering /\ up # <<>>
      /\ PDUs(up') \subseteq PDUs(up)
      /\ PDUs(q') \subseteq PDUs(up) \cup PDUs(q)
  BY DistributeMoves DEF client
<1>2. WaitInv => WaitInv'
  BY <1>1 DEF WaitInv, Remembers, Handling
<1>3. SettledInv => SettledInv'
  BY <1>1 DEF SettledInv, AgreedValue
<1>4. QED
  BY <1>1, <1>2, <1>3 DEF AgreeInv, Returned, Result

\* The client's steps, by what they do to its turn.
LEMMA AgreeRequest ==
    ASSUME NTypeInv, AgreeInv, TurnInv, CN!SendRequest,
           UNCHANGED <<q, pc, c, reply>>
    PROVE  AgreeInv'
<1>1. /\ cpc = "request" /\ up = <<>> /\ msg \in Content /\ ~Returned
      /\ UNCHANGED <<call, msg, lastTopOptions, config, garbage, out>>
  BY DEF CN!SendRequest, TurnInv, Unborn, NTypeInv, ClientInv, Returned
<1>2. SUFFICES ASSUME garbage = 0
               PROVE  AgreeInv'
  BY <1>1 DEF AgreeInv
<1>3. lastTopOptions = NoValue /\ WaitInv
  BY <1>1, <1>2 DEF AgreeInv
<1>4. CASE up' = Append(up, msg) /\ cpc' = "read" /\ rtnval' = rtnval
  <2>1. PDUs(up') = PDUs(up) \cup {msg}
    BY <1>1, <1>4, PlayTypes, PDUsAppend
  <2>2. WaitInv'
    BY <1>1, <1>3, <1>4, <2>1
       DEF WaitInv, Remembers, Handling, Answering
  <2>3. QED
    BY <1>1, <1>4, <2>2 DEF AgreeInv, Returned
<1>5. CASE cpc' = "return" /\ rtnval' = "ERROR"
  BY <1>1, <1>3, <1>5 DEF AgreeInv, WaitInv, Returned, Result
<1>6. QED
  BY <1>4, <1>5 DEF CN!SendRequest

LEMMA AgreeRead ==
    ASSUME NTypeInv, AgreeInv, CN!Read, UNCHANGED <<q, pc, c, reply>>
    PROVE  AgreeInv'
<1>1. /\ UNCHANGED <<call, lastTopOptions, config, rtnval, garbage, up>>
      /\ cpc \in CN!Reading /\ cpc' = "handle" /\ msg' = Head(out)
      /\ out # <<>> /\ out' = Tail(out)
  BY DEF CN!Read
<1>2. PDUs(out') \subseteq PDUs(out) /\ msg' \in PDUs(out)
  BY <1>1, PlayTypes, PDUsTail
<1>3. ~Returned /\ ~Returned'
  BY <1>1 DEF CN!Reading, Returned
<1>4. WaitInv => WaitInv'
  BY <1>1, <1>2 DEF WaitInv, Remembers, Handling, Answering
<1>5. QED
  BY <1>1, <1>3, <1>4 DEF AgreeInv

\* The client gives up without a result, or goes on reading.
LEMMA AgreeNoResult ==
    ASSUME AgreeInv, cpc \notin {"off", "request"}, ~Returned,
           UNCHANGED <<call, lastTopOptions, config, garbage, up, out>>,
           UNCHANGED <<q, pc, c, reply>>,
           \/ cpc' \in CN!Reading /\ rtnval' = rtnval
           \/ cpc' = "return" /\ rtnval' = "ERROR"
    PROVE  AgreeInv'
<1>1. CASE cpc' \in CN!Reading /\ rtnval' = rtnval
  <2>1. ~Returned' /\ ~Handling' /\ cpc' \notin {"off", "request"}
    BY <1>1 DEF CN!Reading, Returned, Handling
  <2>2. WaitInv => WaitInv'
    BY <1>1, <2>1 DEF WaitInv, Remembers, Answering
  <2>3. QED
    BY <2>1, <2>2 DEF AgreeInv
<1>2. CASE cpc' = "return" /\ rtnval' = "ERROR"
  BY <1>2 DEF AgreeInv, WaitInv, Returned, Result
<1>3. QED
  BY <1>1, <1>2

\* The PDU in hand is the session's last, and nothing else is in play.
LEMMA InHandIsLast ==
    ASSUME NTypeInv, TurnInv, OfferInv, AgreeInv, garbage = 0,
           cpc = "handle", msg.type \in {"NEGO_MSG", "NEGO_END_MSG"}
    PROVE  /\ WaitInv /\ msg = reply /\ msg \in Content /\ Remembers(c)
           /\ up = <<>> /\ q = <<>> /\ Silent /\ ~Answering
           /\ config = {}
           /\ msg.type = "NEGO_MSG" => AgreedValue = msg.value
           /\ msg.value \in {NoValue, AgreedValue}
           /\ msg.opt = "Accept" => lastTopOptions \in {NoValue, AgreedValue}
<1>1. Handling /\ ~Returned
  BY DEF Handling, NotWait, Returned
<1>2. WaitInv
  BY <1>1 DEF AgreeInv
<1>3. msg = reply /\ Remembers(c) /\ config = {}
  BY <1>1, <1>2 DEF WaitInv
<1>4. up = <<>> /\ q = <<>> /\ Silent /\ ~Answering
  BY <1>1, OnePlace
<1>5. msg.type = "NEGO_MSG" => AgreedValue = msg.value
  BY <1>3 DEF OfferInv, AgreedValue
<1>6. msg.value \in {NoValue, AgreedValue}
  BY <1>3 DEF OfferInv, AgreedValue
<1>7. msg.opt = "Accept" => lastTopOptions \in {NoValue, AgreedValue}
  BY <1>3 DEF AgreedValue, Remembers
<1>8. msg \in Content
  BY DEF NTypeInv, ClientInv
<1>9. QED
  BY <1>2, <1>3, <1>4, <1>5, <1>6, <1>7, <1>8

\* The client's word ends the negotiation: it configures what it accepts.
LEMMA AgreeEnds ==
    ASSUME NTypeInv, TurnInv, OfferInv, AgreeInv, UNCHANGED <<q, pc, c, reply>>,
           CN!AcceptProposal \/ CN!DeclineProposal
    PROVE  AgreeInv'
<1>1. PICK opt \in {"Accept", "Decline"} :
        /\ cpc = "handle" /\ msg.type = "NEGO_MSG" /\ cpc' = "return"
        /\ up' = up \/ up' = Append(up, Plain("NEGO_END_MSG", opt))
        /\ config' = config \/ config' = config \cup {msg.value}
        /\ UNCHANGED <<call, msg, lastTopOptions, garbage, out>>
  BY SamePDUs DEF CN!AcceptProposal, CN!DeclineProposal, CN!WritePDU
<1>2. SUFFICES ASSUME garbage = 0
               PROVE  AgreeInv'
  BY <1>1 DEF AgreeInv
<1>3. /\ up = <<>> /\ q = <<>> /\ ~Answering /\ config = {}
      /\ msg = reply /\ AgreedValue = msg.value
  BY <1>1, <1>2, InHandIsLast
<1>4. AgreedValue' = AgreedValue /\ (~Answering)'
  BY <1>3 DEF AgreedValue, Answering
<1>5. reply.opt \notin {"Accept", "Decline"}
  BY <1>1, <1>3 DEF OfferInv
<1>6. \A m \in PDUs(up') \cup PDUs(q') : ~IsProposal(m)
  <2> DEFINE m == Plain("NEGO_END_MSG", opt)
  <2>1. m \in Content
    BY PlainType DEF MSG_TYPE, option_type
  <2>2. ~IsProposal(m)
    BY DEF IsProposal, Plain, Objective
  <2> HIDE DEF m
  <2>3. up \in Seq(Content) /\ (up' = up \/ up' = Append(up, m))
    BY <1>1, PlayTypes DEF m
  <2>4. PDUs(up') \subseteq PDUs(up) \cup {m}
    BY <2>1, <2>3, PDUsAppend
  <2>5. PDUs(up) = {} /\ PDUs(q') = {}
    BY <1>3, PDUsEmpty
  <2>6. QED
    BY <2>2, <2>4, <2>5
<1>7. SettledInv'
  BY <1>1, <1>3, <1>4, <1>5, <1>6 DEF SettledInv
<1>8. QED
  BY <1>1, <1>7 DEF AgreeInv, Returned

\* A counter-proposal, and the value stored with it.
LEMMA AgreeCounter ==
    ASSUME NTypeInv, TurnInv, OfferInv, AgreeInv, UNCHANGED <<q, pc, c, reply>>,
           NEW answer \in Values, CN!CounterProposal(answer)
    PROVE  AgreeInv'
<1> DEFINE m == Objective("NEGO_MSG", "Negotiation", Decremented(msg.loop),
                          answer)
<1>1. /\ cpc = "handle" /\ msg.type = "NEGO_MSG"
      /\ lastTopOptions' = answer
      /\ UNCHANGED <<call, msg, config, garbage, out>>
      /\ \/ up' = Append(up, m) /\ cpc' = "read" /\ rtnval' = "SUCCESS"
         \/ cpc' = "return" /\ rtnval' = "ERROR"
  BY SamePDUs DEF CN!CounterProposal, CN!WritePDU
<1>2. m \in Content
  BY CounterContent
<1>3. m.value = answer
  BY DEF Objective
<1> HIDE DEF m
<1>4. SUFFICES ASSUME garbage = 0
               PROVE  AgreeInv'
  BY <1>1 DEF AgreeInv
<1>5. /\ WaitInv /\ up = <<>> /\ q = <<>> /\ Silent /\ ~Answering
      /\ config = {}
  BY <1>1, <1>4, InHandIsLast
<1>6. CASE up' = Append(up, m) /\ cpc' = "read" /\ rtnval' = "SUCCESS"
  <2>1. PDUs(up') = {m} /\ PDUs(q') = {}
    <3>1. PDUs(up') = PDUs(up) \cup {m}
      BY <1>2, <1>6, PlayTypes, PDUsAppend
    <3>2. QED
      BY <1>5, <3>1, PDUsEmpty
  <2>2. ~Answering' /\ ~Handling' /\ Silent'
    BY <1>1, <1>5, <1>6 DEF Answering, Handling, Silent
  <2>3. WaitInv'
    BY <1>1, <1>3, <1>5, <1>6, <2>1, <2>2 DEF WaitInv, Remembers, Silent
  <2>4. QED
    BY <1>6, <2>3 DEF AgreeInv, Returned
<1>7. CASE cpc' = "return" /\ rtnval' = "ERROR"
  BY <1>1, <1>5, <1>7 DEF AgreeInv, Returned, Result
<1>8. QED
  BY <1>1, <1>6, <1>7

\* The session's word ends the negotiation.
LEMMA AgreeEnded ==
    ASSUME NTypeInv, TurnInv, OfferInv, AgreeInv, UNCHANGED <<q, pc, c, reply>>,
           CN!HandleEnd
    PROVE  AgreeInv'
<1>1. /\ cpc = "handle" /\ msg.type = "NEGO_END_MSG" /\ cpc' = "return"
      /\ config' = IF msg.opt = "Accept" THEN config \cup {lastTopOptions}
                                         ELSE config
      /\ UNCHANGED <<msg, garbage, up, out>>
  BY DEF CN!HandleEnd
<1>2. SUFFICES ASSUME garbage = 0
               PROVE  AgreeInv'
  BY <1>1 DEF AgreeInv
<1>3. /\ up = <<>> /\ q = <<>> /\ ~Answering /\ config = {}
      /\ msg.value \in {NoValue, AgreedValue}
      /\ msg.opt = "Accept" => lastTopOptions \in {NoValue, AgreedValue}
  BY <1>1, <1>2, InHandIsLast
<1>4. AgreedValue' = AgreedValue /\ (~Answering)'
  BY <1>3 DEF AgreedValue, Answering
<1>5. config' \subseteq {NoValue, AgreedValue}
  BY <1>1, <1>3
<1>6. up' = <<>> /\ q' = <<>> /\ PDUs(up') \cup PDUs(q') = {}
  BY <1>1, <1>3, PDUsEmpty
<1>7. SettledInv'
  BY <1>1, <1>3, <1>4, <1>5, <1>6 DEF SettledInv
<1>8. QED
  BY <1>1, <1>7 DEF AgreeInv, Returned

\* send_tcp returns, and synchronize() configures the buffer.
LEMMA AgreeReturn ==
    ASSUME AgreeInv, UNCHANGED <<q, pc, c, reply>>, CN!Return
    PROVE  AgreeInv'
<1>1. /\ cpc = "return" /\ cpc' = "done"
      /\ config' = IF call = "synchronize" THEN config \cup {msg.value}
                                           ELSE config
      /\ UNCHANGED <<call, msg, rtnval, garbage, up, out>>
  BY DEF CN!Return
<1>2. Returned /\ Returned' /\ (Result' => Result)
  BY <1>1 DEF Returned, Result
<1>3. SettledInv /\ Result => SettledInv'
  BY <1>1 DEF SettledInv, Result, AgreedValue, Answering
<1>4. QED
  BY <1>1, <1>2, <1>3 DEF AgreeInv

LEMMA AgreeClient ==
    ASSUME NTypeInv, TurnInv, OfferInv, AgreeInv, garbage' = 0, ClientSteps
    PROVE  AgreeInv'
<1>0. UNCHANGED <<q, pc, c, reply>>
  BY DEF ClientSteps, server
<1>1. garbage \in Nat
  BY ClientAssumption DEF NTypeInv, ClientInv, CN!ClientTypeOK
<1>2. CASE CN!ReadTimesOut \/ CN!ReadEOF
  <2>1. /\ cpc \in CN!Reading
        /\ UNCHANGED <<call, lastTopOptions, config, garbage, up, out>>
        /\ \/ cpc' = "reread" /\ rtnval' = rtnval
           \/ cpc' = "return" /\ rtnval' = "ERROR"
    BY <1>1, <1>2 DEF CN!ReadTimesOut, CN!ReadEOF, CN!Unassigned
  <2>2. cpc \notin {"off", "request"} /\ ~Returned
    BY <2>1 DEF CN!Reading, Returned
  <2>3. QED
    BY <1>0, <2>1, <2>2, AgreeNoResult DEF CN!Reading
<1>3. ASSUME NEW stale \in {msg, written}, CN!ReadStale(stale)
      PROVE  AgreeInv'
  BY <1>1, <1>3 DEF CN!ReadStale
<1>4. CASE CN!HandleWait \/ CN!HandleOther
  <2>1. /\ cpc = "handle"
        /\ UNCHANGED <<call, lastTopOptions, config, garbage, up, out>>
        /\ \/ cpc' = "wait_read" /\ rtnval' = rtnval
           \/ cpc' = "return" /\ rtnval' = "ERROR"
    BY <1>4 DEF CN!HandleWait, CN!HandleOther
  <2>2. QED
    BY <1>0, <2>1, AgreeNoResult DEF CN!Reading, Returned
<1>5. ASSUME NEW answer \in Values, CN!CounterProposal(answer)
      PROVE  AgreeInv'
  BY <1>0, <1>5, AgreeCounter
<1>6. QED
  BY <1>0, <1>2, <1>3, <1>4, <1>5, AgreeRequest, AgreeRead, AgreeEnds,
     AgreeEnded, AgreeReturn
     DEF ClientSteps, CN!ClientThread

LEMMA AgreeStep ==
    NTypeInv /\ TurnInv /\ OfferInv /\ AgreeInv /\ [NNext]_nvars => AgreeInv'
<1> SUFFICES ASSUME NTypeInv, TurnInv, OfferInv, AgreeInv, [NNext]_nvars
             PROVE  AgreeInv'
  OBVIOUS
<1>1. CASE ClientSteps
  <2>1. CASE garbage' = 0
    BY <1>1, <2>1, AgreeClient
  <2>2. CASE garbage' # 0
    BY <2>2 DEF AgreeInv
  <2>3. QED
    BY <2>1, <2>2
<1>2. CASE Call
  <2>1. /\ UNCHANGED <<lastTopOptions, config, rtnval, garbage, up, out>>
        /\ UNCHANGED <<q, pc, c, reply>>
        /\ cpc = "off" /\ cpc' = "request"
    BY <1>2 DEF Call, server, CN!negotiate, CN!synchronize, CN!Start
  <2>2. WaitInv => WaitInv'
    BY <2>1 DEF WaitInv, Remembers, Handling, Answering
  <2>3. QED
    BY <2>1, <2>2 DEF AgreeInv, Returned
<1>3. CASE Quiet \/ UNCHANGED nvars
  BY <1>3, AgreeKept DEF Quiet, nvars, vars, client, Answering
<1>4. QED
  BY <1>1, <1>2, <1>3, AgreeServer, AgreeDistribute DEF NNext

\* As long as the client has acted on no failed read, it configures no value
\* of the negotiation but the one the session has agreed to.
THEOREM AgreementCorrect ==
    ASSUME AnyMessage
    PROVE  NSpec => []Agreement
<1>1. OfferInv /\ NTypeInv /\ [NNext]_nvars => OfferInv'
  BY OfferStep
<1>2. NSpec => []OfferInv
  BY <1>1, NTypeInvariant, OfferInit, PTL DEF NSpec
<1>3. NTypeInv /\ TurnInv /\ OfferInv /\ AgreeInv /\ [NNext]_nvars => AgreeInv'
  BY AgreeStep
<1>4. NSpec => []AgreeInv
  BY <1>2, <1>3, NTypeInvariant, TurnInvariant, AgreeInit, PTL DEF NSpec
<1>5. QED
  BY <1>4, AgreeImplies, PTL

=============================================================================
