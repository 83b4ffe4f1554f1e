------------------------ MODULE ClientDiscoveryProofs ------------------------
(***************************************************************************)
(* Theorems about ClientDiscovery, for every set of answers, every bound   *)
(* and every number of tries.                                              *)
(*                                                                         *)
(* TriesCounted and BetweenCalls are proved together from DiscoveryInv,    *)
(* which says in which state of the client discover() is where.            *)
(*                                                                         *)
(* That the client implements Discovery needs Provenance besides: whatever *)
(* is on its way answers a request that has reached a server.              *)
(***************************************************************************)
EXTENDS ClientDiscovery, TLAPS

\* Where the thread is, and what cur_states says.
StateAtPC ==
    /\ pc = "send" => cur_states = "OFF" /\ sent = 0 /\ try_times = 0
    /\ pc = "recv" => cur_states = "WAIT_RESPONSE"
    /\ pc = "recv_wait" => cur_states = "WAIT"
    /\ pc = "return" /\ rtnval # "SUCCESS" => cur_states \in {"WAIT", "END"}

DiscoveryInv == DTypeOK /\ TriesCounted /\ BetweenCalls /\ StateAtPC

LEMMA DiscoveryInit == DInit => DiscoveryInv
BY DiscoveryAssumption
   DEF DInit, DiscoveryInv, DTypeOK, TriesCounted, BetweenCalls, StateAtPC,
       client_states, Ids, NoKind, Kinds, option_type

\* What receiving a datagram leaves of the invariant's types.
LEMMA ReceiveType ==
    ASSUME DTypeOK, NEW d \in net, Receive(d)
    PROVE  net' \subseteq net /\ got' \in Kinds
BY DEF DTypeOK, Receive

LEMMA DiscoveryStep == DiscoveryInv /\ [DNext]_dvars => DiscoveryInv'
<1> SUFFICES ASSUME DiscoveryInv, [DNext]_dvars
             PROVE  DiscoveryInv'
  OBVIOUS
<1> USE DiscoveryAssumption
    DEF DiscoveryInv, DTypeOK, TriesCounted, BetweenCalls, StateAtPC,
        client_states, Ids
\* A new call starts with all its tries, because the last one returned them.
<1>1. CASE discover \/ discoverRefused
  <2>1. NewCall /\ pc = "idle"
    BY <1>1 DEF discover, discoverRefused, NewCall
  <2>2. /\ calls' \in 0 .. MaxCalls
        /\ session_id' \in 0 .. MaxCalls
    BY <2>1 DEF NewCall
  <2>3. /\ asked' \subseteq 0 .. MaxCalls
        /\ net' \subseteq [id : 0 .. MaxCalls, kind : Kinds]
    BY <2>1 DEF NewCall
  <2>4. /\ UNCHANGED <<cur_states, try_times, negoAddr, got, rtnval, replies>>
        /\ sent' = 0
        /\ try_times = 0
    BY <2>1 DEF NewCall
  <2>5. \/ cur_states = "OFF" /\ pc' = "send" /\ result' = result
        \/ result' = "ERROR" /\ pc' = pc
    BY <1>1 DEF discover, discoverRefused
  <2> QED BY <2>1, <2>2, <2>3, <2>4, <2>5
<1>2. CASE send
  BY <1>2 DEF send, Multicast
<1>3. CASE sendFails
  BY <1>3 DEF sendFails, network
<1>4. ASSUME NEW d \in net, recv_in_WAIT_RESPONSE(d) \/ recv_in_WAIT(d)
      PROVE  DiscoveryInv'
  <2>1. /\ Receive(d)
        /\ net' \subseteq net /\ got' \in Kinds
    BY <1>4, ReceiveType DEF recv_in_WAIT_RESPONSE, recv_in_WAIT
  <2>2. CASE AnswerStates
    BY <1>4, <2>1, <2>2
       DEF AnswerStates, Receive, recv_in_WAIT_RESPONSE, recv_in_WAIT
  <2>3. CASE ~AnswerStates
    BY <1>4, <2>1, <2>3 DEF Receive, recv_in_WAIT_RESPONSE, recv_in_WAIT
  <2>4. QED
    BY <2>2, <2>3
\* sent and try_times move together.
<1>5. CASE Resend
  BY <1>5 DEF Resend, Multicast
<1>6. CASE GiveUp
  BY <1>6 DEF GiveUp, network
\* Only a successful recv() can have left INFORMED, and OFF replaces it.
<1>7. CASE return
  BY <1>7 DEF return, network
<1>8. ASSUME NEW id \in asked, NEW kind \in Replies, Answer(id, kind)
      PROVE  DiscoveryInv'
  <2>1. [id |-> id, kind |-> kind] \in [id : Ids, kind : Kinds]
    OBVIOUS
  <2>2. QED
    BY <1>8, <2>1 DEF Answer, client
<1>9. CASE Over \/ UNCHANGED dvars
  BY <1>9 DEF Over, dvars, client, network
<1>10. QED
  BY <1>1, <1>2, <1>3, <1>4, <1>5, <1>6, <1>7, <1>8, <1>9 DEF DNext, Timeouts

LEMMA DiscoveryInvariant == DSpec => []DiscoveryInv
BY DiscoveryInit, DiscoveryStep, PTL DEF DSpec

\* discover() keeps its types; try_times never exceeds MAX_TRY_TIMES.
THEOREM DTypeCorrect == DSpec => []DTypeOK
<1>1. DiscoveryInv => DTypeOK
  BY DEF DiscoveryInv
<1>2. QED
  BY <1>1, DiscoveryInvariant, PTL

\* Every call asks 1 + MAX_TRY_TIMES times before it gives up.
THEOREM TriesCountedCorrect == DSpec => []TriesCounted
<1>1. DiscoveryInv => TriesCounted
  BY DEF DiscoveryInv
<1>2. QED
  BY <1>1, DiscoveryInvariant, PTL

\* Between calls the client is in OFF, WAIT or END and has all its tries.
THEOREM BetweenCallsCorrect == DSpec => []BetweenCalls
<1>1. DiscoveryInv => BetweenCalls
  BY DEF DiscoveryInv
<1>2. QED
  BY <1>1, DiscoveryInvariant, PTL

-----------------------------------------------------------------------------
(* ClientDiscovery implements Discovery.                                   *)

\* A datagram answers a request that a server has heard, and ids are taken in
\* their order: a new one has not been asked with.
Provenance ==
    /\ \A d \in net : d.id \in asked
    /\ asked \subseteq 0 .. calls
    /\ session_id <= calls

LEMMA ProvenanceStep ==
    ASSUME DiscoveryInv, Provenance, [DNext]_dvars
    PROVE  Provenance'
<1> USE DEF Provenance
<1>0. /\ calls \in Nat /\ session_id \in Nat
  BY DiscoveryAssumption DEF DiscoveryInv, DTypeOK, Ids
<1>1. CASE discover \/ discoverRefused
  <2>1. NewCall
    BY <1>1 DEF discover, discoverRefused
  <2>2. /\ calls' = calls + 1
        /\ session_id' \in {session_id, calls + 1}
        /\ UNCHANGED <<asked, net>> \/ (asked' = {} /\ net' = {})
    BY <2>1 DEF NewCall
  <2>3. 0 .. calls \subseteq 0 .. calls' /\ session_id' <= calls'
    BY <1>0, <2>2
  <2>4. QED
    BY <2>2, <2>3
<1>2. CASE send \/ Resend
  <2>1. /\ asked' \in {asked, asked \cup {session_id}}
        /\ UNCHANGED <<net, calls, session_id>>
    BY <1>2 DEF send, Resend, Multicast
  <2>2. session_id \in 0 .. calls
    BY <1>0
  <2>3. QED
    BY <2>1, <2>2
<1>3. ASSUME NEW d \in net, recv_in_WAIT_RESPONSE(d) \/ recv_in_WAIT(d)
      PROVE  Provenance'
  BY <1>3 DEF recv_in_WAIT_RESPONSE, recv_in_WAIT, Receive
<1>4. CASE sendFails \/ GiveUp \/ return
  BY <1>4 DEF sendFails, GiveUp, return, network
<1>5. ASSUME NEW id \in asked, NEW kind \in Replies, Answer(id, kind)
      PROVE  Provenance'
  BY <1>5 DEF Answer, client
<1>6. CASE Over \/ UNCHANGED dvars
  BY <1>6 DEF Over, dvars, client, network
<1>7. QED
  BY <1>1, <1>2, <1>3, <1>4, <1>5, <1>6 DEF DNext, Timeouts

LEMMA ProvenanceInvariant == DSpec => []Provenance
<1>1. DInit => Provenance
  BY DEF DInit, Provenance
<1>2. QED
  BY <1>1, ProvenanceStep, DiscoveryInvariant, PTL DEF DSpec

\* The initial states of the client are those of Discovery.
LEMMA DiscoversInit == DInit => DS!AInit
BY DEF DInit, DS!AInit, Stage

\* What a receive leaves when an answer ends it.
LEMMA AnswerHeard ==
    ASSUME DiscoveryInv, Provenance, NEW d \in net,
           pc \in {"recv", "recv_wait"}, Receive(d), OfType(d, Ending),
           AnswerStates
    PROVE  DS!Hear("answered")
<1>1. session_id \in asked
  BY DEF Provenance, OfType
<1>2. Stage \in {"asking", "waiting"} /\ Stage' = "answered"
  BY DEF Stage, AnswerStates
<1>3. QED
  BY <1>1, <1>2 DEF DS!Hear, Receive

\* Every step of the client is a step of Discovery or none.
LEMMA DiscoversStep ==
    ASSUME DiscoveryInv, Provenance, [DNext]_dvars
    PROVE  [DS!ANext]_(DS!avars)
<1> USE DEF DS!ANext, DS!avars
<1>0. /\ sent \in Nat /\ try_times \in Nat /\ MAX_TRY_TIMES \in Nat
      /\ try_times <= MAX_TRY_TIMES /\ calls \in Nat
      /\ StateAtPC /\ TriesCounted
  BY DiscoveryAssumption DEF DiscoveryInv, DTypeOK, Ids
\* A new id has not been asked with; the old one may have been.
<1>1. CASE discover \/ discoverRefused
  <2>1. NewCall
    BY <1>1 DEF discover, discoverRefused
  <2>2. /\ Stage \in {"ready", "failed"}
        /\ Stage' = Stage
    BY <1>1 DEF NewCall, discover, discoverRefused, Stage
  <2>3. (session_id \in asked)' \in {(session_id \in asked), FALSE}
    <3>1. calls + 1 \notin asked
      BY <1>0 DEF Provenance
    <3>2. CASE session_id' = session_id /\ asked' = asked
      BY <3>2
    <3>3. CASE session_id' \notin asked'
      <4>1. (session_id \in asked)' = FALSE
        BY <3>3
      <4>2. QED
        BY <4>1
    <3>4. QED
      BY <2>1, <3>1, <3>2, <3>3 DEF NewCall
  <2>4. DS!Call
    BY <2>1, <2>2, <2>3 DEF DS!Call, NewCall
  <2>5. QED
    BY <2>4
<1>2. CASE send
  <2>1. /\ Stage = "ready" /\ Stage' = "asking"
        /\ sent' = 1
    BY <1>0, <1>2 DEF send, Multicast, Stage, StateAtPC
  <2>2. (session_id \in asked)' \in {(session_id \in asked), TRUE}
    BY <1>2 DEF send, Multicast
  <2>3. DS!Ask
    BY <1>2, <2>1, <2>2 DEF DS!Ask, send
  <2>4. QED
    BY <2>3
\* TriesCounted says how often this call has asked when it asks again.
<1>3. CASE Resend
  <2>1. /\ Stage = "asking" /\ Stage' = "asking"
    BY <1>3 DEF Resend, Stage
  <2>2. sent <= MAX_TRY_TIMES /\ sent' = sent + 1
    BY <1>0, <1>3 DEF Resend, Multicast, TriesCounted
  <2>3. (session_id \in asked)' \in {(session_id \in asked), TRUE}
    BY <1>3 DEF Resend, Multicast
  <2>4. DS!Ask
    BY <1>3, <2>1, <2>2, <2>3 DEF DS!Ask, Resend
  <2>5. QED
    BY <2>4
<1>4. CASE sendFails
  BY <1>0, <1>4 DEF sendFails, network, Stage, StateAtPC
\* In WAIT_RESPONSE anything but an answer or a WAIT_MSG changes nothing.
<1>5. ASSUME NEW d \in net, recv_in_WAIT_RESPONSE(d)
      PROVE  [DS!ANext]_(DS!avars)
  <2>1. pc = "recv" /\ Receive(d)
    BY <1>5 DEF recv_in_WAIT_RESPONSE
  <2>2. CASE OfType(d, Ending) /\ AnswerStates
    BY <2>1, <2>2, AnswerHeard
  <2>3. CASE OfType(d, {"WAIT_MSG"}) /\ pc' = "recv_wait"
    <3>1. session_id \in asked
      BY <2>3 DEF Provenance, OfType
    <3>2. Stage = "asking" /\ Stage' = "waiting"
      BY <2>1, <2>3 DEF Stage
    <3>3. DS!Hear("waiting")
      BY <2>1, <3>1, <3>2 DEF DS!Hear, Receive
    <3>4. QED
      BY <3>3
  <2>4. CASE UNCHANGED <<cur_states, rtnval, pc>>
    BY <2>1, <2>4 DEF Receive, Stage
  <2>5. QED
    BY <1>5, <2>2, <2>3, <2>4 DEF recv_in_WAIT_RESPONSE
\* In WAIT it is an error, which ends the call.
<1>6. ASSUME NEW d \in net, recv_in_WAIT(d)
      PROVE  [DS!ANext]_(DS!avars)
  <2>1. pc = "recv_wait" /\ Receive(d)
    BY <1>6 DEF recv_in_WAIT
  <2>2. CASE OfType(d, Ending) /\ AnswerStates
    BY <2>1, <2>2, AnswerHeard
  <2>3. CASE rtnval' = "ERROR" /\ pc' = "return"
    <3>1. Stage = "waiting" /\ Stage' = "failed"
      BY <2>1, <2>3 DEF Stage
    <3>2. DS!GiveUp
      BY <2>1, <3>1 DEF DS!GiveUp, Receive
    <3>3. QED
      BY <3>2
  <2>4. CASE UNCHANGED <<cur_states, rtnval, pc>>
    BY <2>1, <2>4 DEF Receive, Stage
  <2>5. QED
    BY <1>6, <2>2, <2>3, <2>4 DEF recv_in_WAIT
\* With no try left the call has asked 1 + MAX_TRY_TIMES times.
<1>7. CASE GiveUp
  <2>1. Stage' = "failed"
    BY <1>7 DEF GiveUp, Stage
  <2>2. \/ Stage = "asking" /\ sent = MAX_TRY_TIMES + 1
        \/ Stage = "waiting"
    BY <1>0, <1>7 DEF GiveUp, Stage, TriesCounted
  <2>3. DS!GiveUp
    BY <1>7, <2>1, <2>2 DEF DS!GiveUp, GiveUp, network
  <2>4. QED
    BY <2>3
\* A failed recv() leaves WAIT or END, where the client stays.
<1>8. CASE return
  <2>1. CASE rtnval = "SUCCESS"
    <3>1. Stage = "answered" /\ Stage' = "ready"
      BY <1>8, <2>1 DEF return, Stage
    <3>2. (negoAddr = "server")' \in {(negoAddr = "server"), TRUE}
      BY <1>8 DEF return
    <3>3. DS!Return
      BY <1>8, <3>1, <3>2 DEF DS!Return, return, network
    <3>4. QED
      BY <3>3
  <2>2. CASE rtnval # "SUCCESS"
    <3>1. Stage = "failed" /\ Stage' = "failed"
      BY <1>0, <1>8, <2>2 DEF return, Stage, StateAtPC
    <3>2. QED
      BY <1>8, <2>2, <3>1 DEF return, network
  <2>3. QED
    BY <2>1, <2>2
<1>9. ASSUME NEW id \in asked, NEW kind \in Replies, Answer(id, kind)
      PROVE  [DS!ANext]_(DS!avars)
  BY <1>9 DEF Answer, client, Stage
<1>10. CASE Over \/ UNCHANGED dvars
  BY <1>10 DEF Over, dvars, client, network, Stage
<1>11. QED
  BY <1>1, <1>2, <1>3, <1>4, <1>5, <1>6, <1>7, <1>8, <1>9, <1>10
     DEF DNext, Timeouts

\* The calls of discover() implement Discovery: a call gives up only after all
\* its tries, waits or ends only at the word of a server it has asked, and a
\* call that has given up is the last that asks, whatever the network does.
THEOREM DiscoversAsSpecifiedCorrect == DSpec => DiscoversAsSpecified
BY DiscoversInit, DiscoversStep, DiscoveryInvariant, ProvenanceInvariant, PTL
   DEF DSpec, DiscoversAsSpecified, DS!ASpec

=============================================================================
