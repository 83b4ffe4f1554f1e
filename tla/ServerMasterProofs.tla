-------------------------- MODULE ServerMasterProofs --------------------------
(***************************************************************************)
(* Theorems about ServerMaster, for any number of clients, ids, PDUs and   *)
(* datagrams and any size of the connection table.                         *)
(*                                                                         *)
(*   MTypeInv    types, with the bounds that keep the table's index inside *)
(*               it, and tcp_sock a descriptor while a PDU is in hand;     *)
(*   FlaggedInv  what select said of a connection stays true until it is   *)
(*               read;                                                     *)
(*   ErasedInv   is EntriesErased, which is inductive given the types;     *)
(*   KnownInv, WaitingInv, NewestInv, SeparateInv                          *)
(*               who has which connection, from the client that waits to   *)
(*               the session that has closed it.                           *)
(***************************************************************************)
EXTENDS ServerMaster, SequenceTheorems, TLAPS

SessionType == [id : Ids, fd : Fds \cup {-1}, conn : Conns \cup {0},
                live : BOOLEAN, mapped : BOOLEAN, queue : SUBSET PduTypes]

ThreadType == [pc : ThreadPCs, ss : Nat, victim : Nat, i : Nat, seen : Int]

ConnType == [id : Ids, sent : 0 .. MaxPdus, in : Seq(PduTypes),
             eof : BOOLEAN, up : BOOLEAN]

LoopType == [pc : LoopPCs, slot : Int,
             pdu : [type : PduTypes \cup {"none"}, id : Ids],
             target : Nat, stale : 0 .. MaxStale]

MTypeInv ==
    /\ MTypeOK
    /\ loop.pc \in {"accept", "wait"} => tcp_accepted < MAX_CLIENTS_NUM
    /\ loop.pc \in {"add", "entry", "count"} => loop.slot < MAX_CLIENTS_NUM
    /\ loop.pc \in {"read", "find", "push"} => tcp_sock \in Fds
    /\ loop.pc \in {"find", "push"} => loop.pdu.type \in PduTypes
    /\ \A t \in DOMAIN thread : thread[t].seen <= MAX_CLIENTS_NUM

\* Ready, for the descriptor of a connection that is open.
FdReady(d) == conn[desc[d]].in # <<>> \/ conn[desc[d]].eof

FlaggedInv ==
    /\ loop.pc = "test" =>
         \A d \in Fds : d \in read_flags /\ desc[d] # 0 => FdReady(d)
    /\ loop.pc = "read" => (desc[tcp_sock] # 0 => FdReady(tcp_sock))

\* A session whose thread has closed its connection, and one whose thread has
\* erased its entry.
Closed(s) ==
    \E t \in DOMAIN thread : thread[t].ss = s /\ thread[t].pc \notin {"start", "run", "close"}

Cleared(s) ==
    \E t \in DOMAIN thread : thread[t].ss = s /\ thread[t].pc \in {"check", "drop", "done"}

AtEnd(k) == conn[k].eof /\ conn[k].in = <<>>

\* What holds of sessions and connections however threads are confused.
KnownInv ==
    /\ \A t \in DOMAIN thread :
         /\ thread[t].pc = "start" => thread[t].ss = 0
         /\ thread[t].pc # "start" => thread[t].ss \in DOMAIN sess
         /\ parm \in DOMAIN sess
    /\ \A s, r \in DOMAIN sess :
         sess[s].mapped /\ sess[r].mapped /\ sess[s].id = sess[r].id => s = r
    /\ \A f \in Fds : desc[f] # 0 => conn[desc[f]].up
    /\ \A s \in DOMAIN sess : sess[s].conn # 0 => conn[sess[s].conn].up

WaitingInv ==
    \A i \in DOMAIN backlog :
      /\ conn[backlog[i]].up
      /\ \A f \in Fds : desc[f] # backlog[i]
      /\ \A s \in DOMAIN sess : sess[s].conn # backlog[i]
      /\ \A j \in DOMAIN backlog : backlog[i] = backlog[j] => i = j

NewestInv ==
    \A k \in Conns :
      Newest(k) =>
        /\ LoopAt("find") => loop.pdu.id = conn[k].id \/ AtEnd(k)
        /\ \A s \in DOMAIN sess :
             sess[s].conn = k =>
               sess[s].id = loop.pdu.id /\ (sess[s].id = conn[k].id \/ AtEnd(k))

SeparateInv ==
    Separate =>
      /\ \A s \in DOMAIN sess :
           /\ sess[s].fd \in Fds
           /\ ~Closed(s) => desc[sess[s].fd] = sess[s].conn
           /\ ~Cleared(s) => sess[s].mapped
      /\ \A s, r \in DOMAIN sess :
           ~Closed(s) /\ ~Closed(r) /\ sess[s].conn = sess[r].conn => s = r
      /\ \A t \in DOMAIN thread : thread[t].pc = "erase" => thread[t].victim = thread[t].ss

OwnInv == KnownInv /\ WaitingInv /\ NewestInv /\ SeparateInv

-----------------------------------------------------------------------------
(* Facts about sequences and descriptors.                                  *)

\* Overwriting an element of a sequence, or none, leaves a sequence as long.
LEMMA Overwritten ==
    ASSUME NEW S, NEW s \in Seq(S), NEW i, NEW e, i \in DOMAIN s => e \in S
    PROVE  /\ [s EXCEPT ![i] = e] \in Seq(S)
           /\ DOMAIN [s EXCEPT ![i] = e] = DOMAIN s
<1>1. CASE i \in DOMAIN s
  <2>1. i \in 1 .. Len(s) /\ e \in S
    BY <1>1
  <2>2. QED
    BY <2>1, ExceptSeq
<1>2. CASE i \notin DOMAIN s
  <2>1. [s EXCEPT ![i] = e] = s
    BY <1>2
  <2>2. QED
    BY <2>1
<1>3. QED
  BY <1>1, <1>2

\* The descriptors of connections are neither of the two sockets.
LEMMA SocketsApart == Udp \notin Fds /\ Listen \notin Fds /\ -1 \notin Fds /\ 0 \notin Fds
BY MasterAssumption DEF Udp, Listen, Fds

-----------------------------------------------------------------------------
(* Types.                                                                  *)

LEMMA MTypeInit == MInit => MTypeInv
<1> SUFFICES ASSUME MInit
             PROVE  MTypeInv
  OBVIOUS
<1>1. SomeId \in Ids
  BY MasterAssumption DEF SomeId
<1>2. MTypeOK
  BY <1>1, MasterAssumption
     DEF MInit, MTypeOK, LoopPCs, Slots, PduTypes, Conns, Fds
<1>3. QED
  BY <1>2 DEF MInit, MTypeInv

\* What a step of a session thread changes of the thread keeps its type.
LEMMA ThreadStepType ==
    ASSUME MTypeInv, NEW t, NEW from, NEW to, ThreadStep(t, from, to),
           t \in DOMAIN thread /\ thread[t] \in ThreadType =>
             to \in ThreadType /\ to.seen <= MAX_CLIENTS_NUM
    PROVE  /\ thread' \in Seq(ThreadType)
           /\ \A u \in DOMAIN thread' : thread'[u].seen <= MAX_CLIENTS_NUM
<1>1. thread \in Seq(ThreadType)
  BY DEF MTypeInv, MTypeOK, ThreadType
<1>2. t \in DOMAIN thread /\ thread[t] \in ThreadType
  BY <1>1, ElementOfSeq DEF ThreadStep
<1>3. thread' \in Seq(ThreadType) /\ DOMAIN thread' = DOMAIN thread
  BY <1>1, <1>2, Overwritten DEF ThreadStep
<1>4. ASSUME NEW u \in DOMAIN thread'
      PROVE  thread'[u].seen <= MAX_CLIENTS_NUM
  BY <1>2, <1>3, <1>4 DEF ThreadStep, MTypeInv
<1>5. QED
  BY <1>3, <1>4

\* The table's entries are descriptors, those of accept that failed, or not
\* written.
LEMMA InTableType ==
    ASSUME MTypeOK
    PROVE  InTable \subseteq Fds \cup {-1, 0}
<1>1. \A i \in 0 .. (tcp_accepted - 1) : i \in Slots
  BY MasterAssumption DEF MTypeOK, Slots
<1>2. tcp_fd_set \in [Slots -> Fds \cup {-1, 0}]
  BY DEF MTypeOK
<1>3. QED
  BY <1>1, <1>2 DEF InTable

LEMMA MTypeRun == MTypeInv /\ Run => MTypeInv'
<1> SUFFICES ASSUME MTypeInv, Run
             PROVE  MTypeInv'
  OBVIOUS
<1> USE MasterAssumption DEF MTypeInv, MTypeOK, LoopAt, LoopGoto, LoopPCs, table,
        sessions, kernel, select_vars
<1>1. CASE RunLock
  <2>1. read_flags' \subseteq {Udp, Listen} \cup InTable
    BY <1>1 DEF RunLock
  <2>2. read_flags' \subseteq Fds \cup {Udp, Listen, -1, 0}
    BY <2>1, InTableType
  <2>3. QED
    BY <1>1, <2>2 DEF RunLock
<1>2. CASE RunSelect
  <2>1. read_flags' \subseteq read_flags \cup {0} \cup Fds
    <3>1. \A stray \in Strays : stray \subseteq {0} \cup Fds
      BY DEF Strays
    <3>2. QED
      BY <1>2, <3>1 DEF RunSelect
  <2>2. fdset_lock' = "free" /\ loop' = [loop EXCEPT !.pc = loop'.pc]
        /\ loop'.pc \in {"top", "test"}
    BY <1>2 DEF RunSelect
  <2>3. UNCHANGED <<listen_sock, tcp_sock, table, app, sessions, kernel>>
    BY <1>2 DEF RunSelect
  <2>4. QED
    BY <2>1, <2>2, <2>3
<1>3. CASE RunTestUdp
  BY <1>3 DEF RunTestUdp, RunTest
<1>4. CASE RunTestListen
  BY <1>4 DEF RunTestListen, RunTest
<1>5. CASE RunTestTcp
  BY <1>5 DEF RunTestTcp, RunTest
<1>6. CASE RunTestNone
  BY <1>6 DEF RunTestNone
<1>7. CASE RunUdp
  <2>1. udp' \in [sent : 0 .. MaxDatagrams, received : 0 .. MaxDatagrams]
    <3>1. CASE udp.received < udp.sent
      <4>1. udp.received + 1 \in 0 .. MaxDatagrams
        BY <3>1
      <4>2. udp' = [udp EXCEPT !.received = udp.received + 1]
        BY <1>7, <3>1 DEF RunUdp
      <4>3. QED
        BY <4>1, <4>2
    <3>2. CASE ~(udp.received < udp.sent)
      BY <1>7, <3>2 DEF RunUdp
    <3>3. QED
      BY <3>1, <3>2
  <2>2. QED
    BY <1>7, <2>1 DEF RunUdp
<1>8. CASE RunAccept
  <2>1. Head(backlog) \in Conns /\ Tail(backlog) \in Seq(Conns)
    BY <1>8, HeadTailProperties DEF RunAccept
  <2>2. tcp_sock' \in Fds /\ desc' \in [Fds -> Conns \cup {0}]
    <3>1. PICK f \in Fds : tcp_sock' = f /\ desc' = [desc EXCEPT ![f] = Head(backlog)]
      BY <1>8 DEF RunAccept
    <3>2. QED
      BY <2>1, <3>1
  <2>3. loop'.pc = "add" /\ loop'.slot = tcp_accepted
    BY <1>8 DEF RunAccept
  <2>4. QED
    BY <1>8, <2>1, <2>2, <2>3 DEF RunAccept
<1>9. CASE RunAcceptWaits
  BY <1>9 DEF RunAcceptWaits
<1>10. CASE RunAcceptFails
  BY <1>10 DEF RunAcceptFails
<1>11. CASE RunAddEntry \/ RunAddCount
  <2>1. /\ loop'.pc \in {"entry", "count", "top"} /\ loop.slot < MAX_CLIENTS_NUM
        /\ loop'.pc # "top" => loop'.slot < MAX_CLIENTS_NUM
        /\ loop' \in LoopType
    <3>1. loop \in LoopType
      BY DEF LoopType
    <3>2. loop.pc \in {"add", "entry", "count"}
      BY <1>11 DEF RunAddEntry, RunAddCount
    <3>3. \/ loop' = [loop EXCEPT !.pc = "count"]
          \/ loop' = [loop EXCEPT !.pc = "entry"]
          \/ loop' = [loop EXCEPT !.pc = "top", !.slot = 0]
      BY <1>11 DEF RunAddEntry, RunAddCount
    <3>4. loop'.pc \in {"entry", "count", "top"} /\ loop' \in LoopType
      <4>1. CASE loop' = [loop EXCEPT !.pc = "count"]
        BY ONLY <3>1, <4>1 DEF LoopType, LoopPCs
      <4>2. CASE loop' = [loop EXCEPT !.pc = "entry"]
        BY ONLY <3>1, <4>2 DEF LoopType, LoopPCs
      <4>3. CASE loop' = [loop EXCEPT !.pc = "top", !.slot = 0]
        <5>1. [loop EXCEPT !.slot = 0] \in LoopType
          BY ONLY <3>1 DEF LoopType
        <5>2. loop' = [[loop EXCEPT !.slot = 0] EXCEPT !.pc = "top"]
          BY ONLY <3>1, <4>3 DEF LoopType
        <5>3. QED
          BY ONLY <5>1, <5>2 DEF LoopType, LoopPCs
      <4>4. QED
        BY ONLY <3>3, <4>1, <4>2, <4>3
    <3>5. loop'.pc # "top" => loop'.slot = loop.slot
      BY ONLY <3>1, <3>3 DEF LoopType
    <3>6. QED
      BY <3>2, <3>4, <3>5
  <2>2. tcp_fd_set' \in [Slots -> Fds \cup {-1, 0}]
    <3>1. \/ UNCHANGED tcp_fd_set
          \/ tcp_fd_set' = [i \in Slots |-> IF i = loop.slot THEN tcp_sock ELSE tcp_fd_set[i]]
      BY <1>11 DEF RunAddEntry, RunAddCount
    <3>2. tcp_fd_set \in [Slots -> Fds \cup {-1, 0}] /\ tcp_sock \in Fds \cup {-1}
      OBVIOUS
    <3>3. QED
      BY ONLY <3>1, <3>2
  <2>3. tcp_accepted' \in Int /\ tcp_accepted' <= MAX_CLIENTS_NUM
    <3>1. tcp_accepted' \in {tcp_accepted, loop.slot + 1}
      BY <1>11 DEF RunAddEntry, RunAddCount
    <3>2. /\ loop.slot \in Int /\ MAX_CLIENTS_NUM \in Nat
          /\ tcp_accepted \in Int /\ tcp_accepted <= MAX_CLIENTS_NUM
      OBVIOUS
    <3>3. QED
      BY ONLY <2>1, <3>1, <3>2
  <2>4. UNCHANGED <<listen_sock, tcp_sock, select_vars, app, sessions, kernel>>
    BY <1>11 DEF RunAddEntry, RunAddCount
  <2>5. QED
    BY <2>1, <2>2, <2>3, <2>4 DEF LoopType
<1>12. CASE RunRead
  <2> DEFINE k == desc[tcp_sock]
  <2>1. k \in Conns /\ conn[k] \in ConnType /\ conn[k].in # <<>>
    BY <1>12 DEF RunRead, ConnType
  <2>2. Head(conn[k].in) \in PduTypes /\ Tail(conn[k].in) \in Seq(PduTypes)
    BY <2>1, HeadTailProperties DEF ConnType
  <2>3. conn' \in [Conns -> ConnType]
    BY <1>12, <2>1, <2>2 DEF RunRead, ConnType
  <2>4. /\ loop'.pc = "find"
        /\ loop'.pdu = [type |-> Head(conn[k].in), id |-> conn[k].id]
        /\ loop' = [loop EXCEPT !.pc = loop'.pc, !.pdu = loop'.pdu]
    BY <1>12 DEF RunRead
  <2>5. QED
    BY <1>12, <2>1, <2>2, <2>3, <2>4 DEF RunRead, ConnType
<1>13. CASE RunReadFails
  BY <1>13 DEF RunReadFails
<1>14. CASE RunReadStale
  <2>1. PICK again \in 0 .. MaxStale : loop' = [loop EXCEPT !.pc = "find", !.stale = again]
    <3> DEFINE again == loop.stale + (IF loop.pdu.type = "REQUEST_MSG" THEN 1 ELSE 0)
    <3>1. again <= MaxStale /\ loop' = [loop EXCEPT !.pc = "find", !.stale = again]
      BY <1>14 DEF RunReadStale
    <3>2. loop.stale \in Nat /\ MaxStale \in Nat
      OBVIOUS
    <3>3. again \in 0 .. MaxStale
      BY ONLY <3>1, <3>2
    <3>4. QED
      BY ONLY <3>1, <3>3
  <2>2. QED
    BY <1>14, <2>1 DEF RunReadStale
<1>15. CASE RunDrop
  BY <1>15 DEF RunDrop
<1>16. CASE RunFind
  <2>1. PICK s \in Found(loop.pdu.id) :
          loop' = [loop EXCEPT !.pc = "push", !.target = s]
    BY <1>16 DEF RunFind
  <2>2. s \in Nat
    BY <2>1 DEF Found
  <2>3. QED
    BY <1>16, <2>1, <2>2 DEF RunFind
<1>17. CASE RunPush
  <2> DEFINE s == loop.target
             e == [sess[s] EXCEPT !.queue = @ \cup {loop.pdu.type}]
  <2>1. sess \in Seq(SessionType) /\ loop.pdu.type \in PduTypes
    BY <1>17 DEF RunPush, SessionType
  <2>2. s \in DOMAIN sess => e \in SessionType
    <3>1. SUFFICES ASSUME s \in DOMAIN sess
                   PROVE  e \in SessionType
      OBVIOUS
    <3>2. sess[s] \in SessionType
      BY <2>1, <3>1, ElementOfSeq
    <3>3. sess[s].queue \cup {loop.pdu.type} \in SUBSET PduTypes
      BY <2>1, <3>2 DEF SessionType
    <3>4. QED
      BY <3>2, <3>3 DEF SessionType
  <2>3. sess' = [sess EXCEPT ![s] = e]
    BY <1>17 DEF RunPush
  <2> HIDE DEF e
  <2>4. sess' \in Seq(SessionType)
    BY <2>1, <2>2, <2>3, Overwritten
  <2>5. QED
    BY <1>17, <2>4 DEF RunPush, SessionType
<1>18. CASE RunCreate
  <2> DEFINE s == [id |-> loop.pdu.id, fd |-> tcp_sock, conn |-> desc[tcp_sock],
                   live |-> TRUE, mapped |-> TRUE, queue |-> {"REQUEST_MSG"}]
             u == [pc |-> "start", ss |-> 0, victim |-> 0, i |-> 0, seen |-> 0]
  <2>1. s \in SessionType /\ u \in ThreadType
    <3>1. loop.pdu.id \in Ids /\ tcp_sock \in Fds /\ desc[tcp_sock] \in Conns \cup {0}
      BY <1>18 DEF RunCreate
    <3>2. s \in SessionType
      BY ONLY <3>1 DEF SessionType, PduTypes
    <3>3. u \in ThreadType
      BY ONLY DEF ThreadType, ThreadPCs
    <3>4. QED
      BY ONLY <3>2, <3>3
  <2>2. sess' = Append(sess, s) /\ thread' = Append(thread, u)
    BY <1>18 DEF RunCreate
  <2>3. sess \in Seq(SessionType) /\ thread \in Seq(ThreadType)
    BY DEF SessionType, ThreadType
  <2> HIDE DEF s
  <2>4. sess' \in Seq(SessionType) /\ thread' \in Seq(ThreadType)
    BY <2>1, <2>2, <2>3, AppendProperties
  <2>5. \A t \in DOMAIN thread' : thread'[t].seen <= MAX_CLIENTS_NUM
    <3>1. /\ DOMAIN thread' = 1 .. (Len(thread) + 1)
          /\ \A t \in 1 .. Len(thread) : thread'[t] = thread[t]
          /\ thread'[Len(thread) + 1] = u
      BY <2>2, <2>3, <2>1, AppendProperties, LenProperties
    <3>2. u.seen <= MAX_CLIENTS_NUM /\ Len(thread) \in Nat
      BY <2>3, LenProperties
    <3>3. QED
      <4>1. SUFFICES ASSUME NEW t \in DOMAIN thread'
                     PROVE  thread'[t].seen <= MAX_CLIENTS_NUM
        OBVIOUS
      <4>2. CASE t = Len(thread) + 1
        BY <4>2, <3>1, <3>2
      <4>3. CASE t # Len(thread) + 1
        <5>1. t \in 1 .. Len(thread) /\ t \in DOMAIN thread
          <6>1. DOMAIN thread = 1 .. Len(thread)
            BY <2>3, LenProperties
          <6>2. t \in 1 .. (Len(thread) + 1)
            BY <4>1, <3>1
          <6>3. QED
            BY <6>1, <6>2, <4>3, <3>2
        <5>2. QED
          BY <5>1, <3>1
      <4>4. QED
        BY <4>2, <4>3
  <2>6. parm' \in Nat
    BY <1>18, <2>3, LenProperties DEF RunCreate
  <2>7. QED
    BY <1>18, <2>4, <2>5, <2>6 DEF RunCreate, SessionType, ThreadType
<1>19. QED
  BY <1>1, <1>2, <1>3, <1>4, <1>5, <1>6, <1>7, <1>8, <1>9, <1>10, <1>11, <1>12,
     <1>13, <1>14, <1>15, <1>16, <1>17, <1>18 DEF Run

LEMMA MTypeApplication == MTypeInv /\ (Listening \/ StopTcp \/ StopListen) => MTypeInv'
<1> SUFFICES ASSUME MTypeInv, Listening \/ StopTcp \/ StopListen
             PROVE  MTypeInv'
  OBVIOUS
<1> USE MasterAssumption DEF MTypeInv, MTypeOK, table, sessions, kernel, select_vars
<1>1. CASE ListenSocket
  BY <1>1 DEF ListenSocket
<1>2. CASE ListenBind
  BY <1>2 DEF ListenBind
<1>3. CASE ListenFlag
  BY <1>3 DEF ListenFlag
<1>4. CASE StopTcp
  BY <1>4 DEF StopTcp
<1>5. CASE StopListen
  <2>1. backlog' \in Seq(Conns)
    BY <1>5, EmptySeq DEF StopListen
  <2>2. QED
    BY <1>5, <2>1 DEF StopListen
<1>6. QED
  BY <1>1, <1>2, <1>3, <1>4, <1>5 DEF Listening

LEMMA MTypeClients == MTypeInv /\ Clients => MTypeInv'
<1> SUFFICES ASSUME MTypeInv, Clients
             PROVE  MTypeInv'
  OBVIOUS
<1> DEFINE UdpType == [sent : 0 .. MaxDatagrams, received : 0 .. MaxDatagrams]
<1>1. /\ conn \in [Conns -> ConnType] /\ backlog \in Seq(Conns) /\ udp \in UdpType
      /\ MaxPdus \in Nat /\ MaxDatagrams \in Nat
  BY MasterAssumption DEF MTypeInv, MTypeOK, ConnType
\* Clients change nothing else.
<1>2. ASSUME conn' \in [Conns -> ConnType], backlog' \in Seq(Conns), udp' \in UdpType,
             UNCHANGED <<listen_sock, tcp_sock, select_vars, loop, table, app,
                         sessions, desc>>
      PROVE  MTypeInv'
  BY <1>2 DEF MTypeInv, MTypeOK, ConnType, select_vars, table, sessions
<1>3. ASSUME NEW k \in Conns, NEW id \in Ids, Connect(k, id)
      PROVE  MTypeInv'
  <2>1. backlog' \in Seq(Conns)
    BY <1>1, <1>3, AppendProperties DEF Connect
  <2>2. [conn[k] EXCEPT !.up = TRUE, !.id = id] \in ConnType
    BY <1>1 DEF ConnType
  <2>3. conn' = [conn EXCEPT ![k] = [conn[k] EXCEPT !.up = TRUE, !.id = id]]
    BY <1>3 DEF Connect
  <2>4. conn' \in [Conns -> ConnType]
    BY ONLY <1>1, <2>2, <2>3
  <2>5. QED
    BY <1>1, <1>2, <1>3, <2>1, <2>4 DEF Connect
<1>4. ASSUME NEW k \in Conns, ClientSends(k)
      PROVE  MTypeInv'
  <2>1. conn[k].sent + 1 \in 0 .. MaxPdus
    <3>1. conn[k].sent \in 0 .. MaxPdus
      BY <1>1 DEF ConnType
    <3>2. conn[k].sent < MaxPdus
      BY <1>4 DEF ClientSends
    <3>3. QED
      BY ONLY <1>1, <3>1, <3>2
  <2>2. PICK type \in PduTypes :
          conn' = [conn EXCEPT ![k].sent = conn[k].sent + 1,
                               ![k].in = Append(conn[k].in, type)]
    BY <1>4 DEF ClientSends, PduTypes
  <2>3. Append(conn[k].in, type) \in Seq(PduTypes)
    BY <1>1, AppendProperties DEF ConnType
  <2>4. conn' \in [Conns -> ConnType]
    <3> DEFINE e == [conn[k] EXCEPT !.sent = conn[k].sent + 1,
                                    !.in = Append(conn[k].in, type)]
    <3>1. conn[k] \in ConnType
      BY <1>1
    <3>2. e \in ConnType
      BY ONLY <2>1, <2>3, <3>1 DEF ConnType
    <3>3. conn' = [conn EXCEPT ![k] = e]
      BY <2>2
    <3> HIDE DEF e
    <3>4. QED
      BY ONLY <1>1, <3>2, <3>3
  <2>5. QED
    BY <1>1, <1>2, <1>4, <2>4 DEF ClientSends
<1>5. ASSUME NEW k \in Conns, ClientCloses(k)
      PROVE  MTypeInv'
  <2>1. [conn[k] EXCEPT !.eof = TRUE] \in ConnType
    BY <1>1 DEF ConnType
  <2>2. conn' = [conn EXCEPT ![k] = [conn[k] EXCEPT !.eof = TRUE]]
    BY <1>5 DEF ClientCloses
  <2>3. conn' \in [Conns -> ConnType]
    BY ONLY <1>1, <2>1, <2>2
  <2>4. QED
    BY <1>1, <1>2, <1>5, <2>3 DEF ClientCloses
<1>6. CASE Datagram
  <2>1. udp.sent < MaxDatagrams /\ udp' = [udp EXCEPT !.sent = udp.sent + 1]
    BY <1>6 DEF Datagram
  <2>2. udp' \in UdpType
    BY ONLY <1>1, <2>1
  <2>3. QED
    BY <1>1, <1>2, <1>6, <2>2 DEF Datagram
<1>7. QED
  BY <1>3, <1>4, <1>5, <1>6 DEF Clients

\* Moving entries down writes only entries of the table.
LEMMA ShiftedType ==
    ASSUME MTypeOK, NEW i
    PROVE  Shifted(i) \in [Slots -> Fds \cup {-1, 0}]
<1>1. \A j \in Slots : j < tcp_accepted - 1 => j + 1 \in Slots
  BY MasterAssumption DEF MTypeOK, Slots
<1>2. tcp_fd_set \in [Slots -> Fds \cup {-1, 0}]
  BY DEF MTypeOK
<1>3. QED
  BY <1>1, <1>2 DEF Shifted

\* One turn of the loop that clears the table.
LEMMA TurnType ==
    ASSUME NEW u \in ThreadType, NEW pc \in ThreadPCs, NEW i \in Nat, NEW seen \in Int
    PROVE  [u EXCEPT !.pc = pc, !.i = i, !.seen = seen] \in ThreadType
BY DEF ThreadType

LEMMA MTypeThreads ==
    ASSUME MTypeInv, NEW t, ThreadStart(t) \/ ThreadEnd(t) \/ Clearing(t)
    PROVE  MTypeInv'
<1> USE MasterAssumption DEF table, sessions, kernel, select_vars
<1>1. thread \in Seq(ThreadType) /\ sess \in Seq(SessionType) /\ parm \in Nat
  BY DEF MTypeInv, MTypeOK, ThreadType, SessionType
\* What is left to show once the types of what a thread changes are known.
<1>2. ASSUME thread' \in Seq(ThreadType),
             \A u \in DOMAIN thread' : thread'[u].seen <= MAX_CLIENTS_NUM,
             sess' \in Seq(SessionType),
             tcp_fd_set' \in [Slots -> Fds \cup {-1, 0}],
             tcp_accepted' \in Int, tcp_accepted' <= MAX_CLIENTS_NUM,
             loop.pc \in {"accept", "wait"} => tcp_accepted' < MAX_CLIENTS_NUM,
             desc' \in [Fds -> Conns \cup {0}],
             UNCHANGED <<listen_sock, tcp_sock, select_vars, loop, parm, app,
                         conn, backlog, udp>>
      PROVE  MTypeInv'
  BY <1>2 DEF MTypeInv, MTypeOK, ThreadType, SessionType
<1>3. CASE ThreadStart(t)
  <2>1. thread' \in Seq(ThreadType)
        /\ \A u \in DOMAIN thread' : thread'[u].seen <= MAX_CLIENTS_NUM
    BY <1>1, <1>3, ThreadStepType DEF ThreadStart, ThreadType, ThreadPCs, MTypeInv
  <2>2. QED
    BY <1>1, <1>2, <1>3, <2>1 DEF ThreadStart, ThreadStep, MTypeInv, MTypeOK
<1>4. CASE ThreadEnd(t)
  <2>1. thread' \in Seq(ThreadType)
        /\ \A u \in DOMAIN thread' : thread'[u].seen <= MAX_CLIENTS_NUM
    BY <1>1, <1>4, ThreadStepType DEF ThreadEnd, To, ThreadType, ThreadPCs, MTypeInv
  <2>2. QED
    BY <1>1, <1>2, <1>4, <2>1 DEF ThreadEnd, ThreadStep, MTypeInv, MTypeOK
<1>5. CASE ThreadClose(t)
  <2>1. thread' \in Seq(ThreadType)
        /\ \A u \in DOMAIN thread' : thread'[u].seen <= MAX_CLIENTS_NUM
    BY <1>1, <1>5, ThreadStepType DEF ThreadClose, To, ThreadType, ThreadPCs, MTypeInv
  <2>2. desc' \in [Fds -> Conns \cup {0}]
    BY <1>5 DEF ThreadClose, MTypeInv, MTypeOK
  <2>3. QED
    BY <1>1, <1>2, <1>5, <2>1, <2>2 DEF ThreadClose, ThreadStep, MTypeInv, MTypeOK
<1>6. CASE ThreadDelete(t)
  <2>1. PICK s \in Found(Self(t).id) :
          /\ ThreadStep(t, "delete", [thread[t] EXCEPT !.pc = "erase", !.victim = s])
          /\ sess' = [sess EXCEPT ![s].live = FALSE]
    BY <1>6 DEF ThreadDelete
  <2>2. s \in DOMAIN sess /\ s \in Nat /\ sess[s] \in SessionType
    BY <1>1, <2>1, ElementOfSeq DEF Found
  <2>3. thread' \in Seq(ThreadType)
        /\ \A u \in DOMAIN thread' : thread'[u].seen <= MAX_CLIENTS_NUM
    BY <1>1, <2>1, <2>2, ThreadStepType DEF ThreadType, ThreadPCs, MTypeInv
  <2>4. [sess[s] EXCEPT !.live = FALSE] \in SessionType
    BY <2>2 DEF SessionType
  <2>5. sess' \in Seq(SessionType)
    BY <1>1, <2>1, <2>4, Overwritten
  <2>6. QED
    BY <1>2, <1>6, <2>1, <2>3, <2>5 DEF ThreadDelete, ThreadStep, MTypeInv, MTypeOK
<1>7. CASE ThreadFindsNone(t)
  <2>1. thread' \in Seq(ThreadType)
        /\ \A u \in DOMAIN thread' : thread'[u].seen <= MAX_CLIENTS_NUM
    BY <1>1, <1>7, ThreadStepType DEF ThreadFindsNone, To, ThreadType, ThreadPCs, MTypeInv
  <2>2. QED
    BY <1>1, <1>2, <1>7, <2>1 DEF ThreadFindsNone, ThreadStep, MTypeInv, MTypeOK
<1>8. CASE ThreadErase(t)
  <2> DEFINE v == thread[t].victim
             e == [sess[v] EXCEPT !.mapped = FALSE]
  <2>1. thread' \in Seq(ThreadType)
        /\ \A u \in DOMAIN thread' : thread'[u].seen <= MAX_CLIENTS_NUM
    BY <1>1, <1>8, ThreadStepType DEF ThreadErase, ThreadType, ThreadPCs, MTypeInv
  <2>2. v \in DOMAIN sess => e \in SessionType
    <3>1. v \in DOMAIN sess => sess[v] \in SessionType
      BY <1>1, ElementOfSeq
    <3>2. QED
      BY <3>1 DEF SessionType
  <2>3. sess' = [sess EXCEPT ![v] = e]
    BY <1>8 DEF ThreadErase
  <2> HIDE DEF e
  <2>4. sess' \in Seq(SessionType)
    BY <1>1, <2>2, <2>3, Overwritten
  <2>5. QED
    BY <1>2, <1>8, <2>1, <2>4 DEF ThreadErase, ThreadStep, MTypeInv, MTypeOK
<1>9. CASE ThreadCheck(t)
  <2>1. thread' \in Seq(ThreadType)
        /\ \A u \in DOMAIN thread' : thread'[u].seen <= MAX_CLIENTS_NUM
    BY <1>1, <1>9, ThreadStepType
       DEF ThreadCheck, ThreadType, ThreadPCs, MTypeInv, MTypeOK
  <2>2. QED
    BY <1>1, <1>2, <1>9, <2>1 DEF ThreadCheck, ThreadStep, MTypeInv, MTypeOK
<1>10. CASE ThreadDrop(t)
  <2>1. t \in DOMAIN thread /\ thread[t] \in ThreadType
    BY <1>1, <1>10, ElementOfSeq DEF ThreadDrop, ThreadStep
  <2>11. thread[t].i + 1 \in Nat /\ "check" \in ThreadPCs /\ 0 \in Int
    BY <2>1 DEF ThreadType, ThreadPCs
  <2>2. [thread[t] EXCEPT !.pc = "check", !.i = thread[t].i + 1, !.seen = 0] \in ThreadType
    BY ONLY <2>1, <2>11, TurnType
  <2>3. thread' \in Seq(ThreadType)
        /\ \A u \in DOMAIN thread' : thread'[u].seen <= MAX_CLIENTS_NUM
    <3> DEFINE to == [thread[t] EXCEPT !.pc = "check", !.i = thread[t].i + 1, !.seen = 0]
    <3>1. ThreadStep(t, "drop", to)
      BY <1>10 DEF ThreadDrop
    <3>2. to.seen = 0
      BY <2>1 DEF ThreadType
    <3>3. to.seen <= MAX_CLIENTS_NUM
      BY <3>2, MasterAssumption
    <3> HIDE DEF to
    <3>4. QED
      BY <2>2, <3>1, <3>3, ThreadStepType DEF to
  <2>4. tcp_fd_set' \in [Slots -> Fds \cup {-1, 0}]
    <3>1. tcp_fd_set' \in {Shifted(thread[t].i), tcp_fd_set}
      BY <1>10 DEF ThreadDrop
    <3>2. QED
      BY <3>1, ShiftedType DEF MTypeInv, MTypeOK
  <2>5. tcp_accepted' \in Int /\ tcp_accepted' < MAX_CLIENTS_NUM
    <3>1. tcp_accepted' \in {tcp_accepted - 1, thread[t].seen - 1}
      BY <1>10 DEF ThreadDrop
    <3>2. tcp_accepted \in Int /\ tcp_accepted <= MAX_CLIENTS_NUM
      BY DEF MTypeInv, MTypeOK
    <3>3. thread[t].seen \in Int /\ thread[t].seen <= MAX_CLIENTS_NUM
      BY <2>1 DEF MTypeInv, ThreadType
    <3>4. QED
      BY ONLY <3>1, <3>2, <3>3, MasterAssumption
  <2>6. QED
    <3>1. /\ UNCHANGED <<sess, desc, listen_sock, tcp_sock, select_vars, loop,
                         parm, app, conn, backlog, udp>>
          /\ desc \in [Fds -> Conns \cup {0}]
      BY <1>10 DEF ThreadDrop, ThreadStep, MTypeInv, MTypeOK
    <3>2. tcp_accepted' <= MAX_CLIENTS_NUM
      BY <2>5, MasterAssumption
    <3>3. QED
      BY <1>1, <1>2, <2>3, <2>4, <2>5, <3>1, <3>2
<1>11. QED
  BY <1>3, <1>4, <1>5, <1>6, <1>7, <1>8, <1>9, <1>10 DEF Clearing

LEMMA MTypeStep == MTypeInv /\ [MNext]_mvars => MTypeInv'
<1> SUFFICES ASSUME MTypeInv, [MNext]_mvars
             PROVE  MTypeInv'
  OBVIOUS
<1>1. CASE UNCHANGED mvars
  BY <1>1 DEF mvars, MTypeInv, MTypeOK
<1>2. QED
  BY <1>1, MTypeRun, MTypeApplication, MTypeThreads, MTypeClients DEF MNext

\* The types of the master, for any number of clients and any table size: no
\* interleaving of run loop and session threads makes tcp_accepted exceed the
\* table (Server.cpp:293-298, 448-460).
THEOREM MTypeCorrect == MSpec => []MTypeOK
<1>1. MSpec => []MTypeInv
  BY MTypeInit, MTypeStep, PTL DEF MSpec
<1>2. MTypeInv => MTypeOK
  BY DEF MTypeInv
<1>3. QED
  BY <1>1, <1>2, PTL

-----------------------------------------------------------------------------
(* What select said stays true.                                            *)

\* As long as the loop's thread does not move, connections only get closed or
\* get more to read.
LEMMA FlaggedKept ==
    ASSUME MTypeInv, FlaggedInv,
           UNCHANGED <<loop, tcp_sock>>,
           \A d \in Fds : d \in read_flags' => d \in read_flags,
           \A d \in Fds : desc'[d] \in {0, desc[d]},
           \A k \in Conns :
             /\ conn[k].in # <<>> => conn'[k].in # <<>>
             /\ conn[k].eof => conn'[k].eof
    PROVE  FlaggedInv'
<1>1. ASSUME NEW d \in Fds, desc[d] # 0 => FdReady(d)
      PROVE  desc'[d] # 0 => FdReady(d)'
  <2>1. SUFFICES ASSUME desc'[d] # 0
                 PROVE  FdReady(d)'
    OBVIOUS
  <2>2. desc'[d] = desc[d] /\ desc[d] \in Conns
    BY <2>1 DEF MTypeInv, MTypeOK
  <2>3. FdReady(d)
    BY <1>1, <2>1, <2>2
  <2>4. QED
    BY <2>2, <2>3 DEF FdReady
<1>2. ASSUME loop.pc = "test"
      PROVE  \A d \in Fds : d \in read_flags' /\ desc'[d] # 0 => FdReady(d)'
  BY <1>1, <1>2 DEF FlaggedInv
<1>3. ASSUME loop.pc = "read"
      PROVE  desc'[tcp_sock] # 0 => FdReady(tcp_sock)'
  BY <1>1, <1>3 DEF FlaggedInv, MTypeInv
<1>4. QED
  BY <1>2, <1>3 DEF FlaggedInv, FdReady

LEMMA FlaggedRun ==
    ASSUME MTypeInv, FlaggedInv, Run
    PROVE  FlaggedInv'
<1>1. ASSUME loop'.pc \notin {"test", "read"}
      PROVE  FlaggedInv'
  BY <1>1 DEF FlaggedInv
<1>2. CASE RunSelect
  <2>1. ASSUME NEW d \in Fds, d \in read_flags', desc[d] # 0
        PROVE  FdReady(d)
    <3>1. Ready(d)
      <4>1. \A stray \in Strays : d \in stray => Ready(d)
        BY SocketsApart DEF Strays
      <4>2. QED
        BY <1>2, <2>1, <4>1 DEF RunSelect
    <3>2. QED
      BY <3>1, SocketsApart DEF Ready, FdReady
  <2>2. loop'.pc \in {"top", "test"}
    BY <1>2 DEF RunSelect, LoopGoto, MTypeInv, MTypeOK
  <2>3. UNCHANGED <<desc, conn, tcp_sock>>
    BY <1>2 DEF RunSelect, kernel
  <2>4. QED
    BY <2>1, <2>2, <2>3 DEF FlaggedInv, FdReady
<1>3. CASE RunTestTcp
  <2>1. /\ loop.pc = "test" /\ loop'.pc = "read"
        /\ tcp_sock \in read_flags /\ tcp_sock \in Fds
        /\ UNCHANGED <<desc, conn, tcp_sock>>
    BY <1>3 DEF RunTestTcp, RunTest, LoopAt, LoopGoto, kernel, MTypeInv, MTypeOK
  <2>2. desc[tcp_sock] # 0 => FdReady(tcp_sock)
    BY <2>1 DEF FlaggedInv
  <2>3. QED
    BY <2>1, <2>2 DEF FlaggedInv, FdReady
<1>4. ASSUME \/ RunLock
             \/ RunTestUdp \/ RunTestListen \/ RunTestNone
             \/ RunUdp \/ RunAccept \/ RunAcceptWaits \/ RunAcceptFails
             \/ RunAddEntry \/ RunAddCount
             \/ RunRead \/ RunReadFails \/ RunReadStale
             \/ RunDrop \/ RunFind \/ RunPush \/ RunCreate
      PROVE  loop'.pc \notin {"test", "read"}
  <2>1. loop \in LoopType
    BY DEF MTypeInv, MTypeOK, LoopType
  <2>2. CASE RunLock \/ RunTestUdp \/ RunTestListen \/ RunTestNone
    BY <2>1, <2>2 DEF RunLock, RunTestUdp, RunTestListen, RunTestNone, RunTest,
       LoopGoto, LoopType
  <2>3. CASE RunUdp \/ RunAccept \/ RunAcceptWaits \/ RunAcceptFails
                    \/ RunAddEntry \/ RunAddCount
    BY <2>1, <2>3 DEF RunUdp, RunAccept, RunAcceptWaits, RunAcceptFails, RunAddEntry, RunAddCount,
       LoopGoto, LoopType
  <2>4. CASE RunRead \/ RunReadFails \/ RunReadStale
    BY <2>1, <2>4 DEF RunRead, RunReadFails, RunReadStale, LoopGoto, LoopType
  <2>5. CASE RunDrop \/ RunFind \/ RunPush \/ RunCreate
    BY <2>1, <2>5 DEF RunDrop, RunFind, RunPush, RunCreate, LoopGoto, LoopType
  <2>6. QED
    BY <1>4, <2>2, <2>3, <2>4, <2>5
<1>5. QED
  BY <1>1, <1>2, <1>3, <1>4 DEF Run

LEMMA FlaggedStep ==
    ASSUME MTypeInv, FlaggedInv, [MNext]_mvars
    PROVE  FlaggedInv'
<1> USE DEF table, sessions, kernel, select_vars
<1>1. CASE Run
  BY <1>1, FlaggedRun
<1>2. CASE Listening \/ StopTcp \/ StopListen
  <2>1. CASE Listening
    <3>1. \A d \in Fds : d \in read_flags' => d \in read_flags
      BY <2>1, SocketsApart DEF Listening, ListenSocket, ListenBind, ListenFlag
    <3>2. UNCHANGED <<loop, tcp_sock, desc, conn>>
      BY <2>1 DEF Listening, ListenSocket, ListenBind, ListenFlag
    <3>3. QED
      BY <3>1, <3>2, FlaggedKept
  <2>2. CASE StopTcp
    <3>1. \A d \in Fds : desc'[d] \in {0, desc[d]}
      BY <2>2 DEF StopTcp
    <3>2. QED
      BY <2>2, <3>1, FlaggedKept DEF StopTcp
  <2>3. CASE StopListen
    BY <2>3, FlaggedKept DEF StopListen
  <2>4. QED
    BY <1>2, <2>1, <2>2, <2>3
<1>3. ASSUME NEW t \in Sessions, ThreadStart(t) \/ ThreadEnd(t) \/ Clearing(t)
      PROVE  FlaggedInv'
  <2>1. UNCHANGED <<loop, tcp_sock, read_flags, conn>>
    BY <1>3 DEF ThreadStart, ThreadEnd, Clearing, ThreadClose, ThreadDelete,
       ThreadFindsNone, ThreadErase, ThreadCheck, ThreadDrop, ThreadStep
  <2>2. CASE ThreadClose(t)
    <3>1. desc' = [desc EXCEPT ![Self(t).fd] = 0] /\ desc \in [Fds -> Conns \cup {0}]
      BY <2>2 DEF ThreadClose, MTypeInv, MTypeOK
    <3>2. \A d \in Fds : desc'[d] \in {0, desc[d]}
      BY <3>1
    <3>3. QED
      BY <2>1, <3>2, FlaggedKept
  <2>3. CASE ~ThreadClose(t)
    <3>1. UNCHANGED desc
      BY <1>3, <2>3 DEF ThreadStart, ThreadEnd, Clearing, ThreadDelete,
         ThreadFindsNone, ThreadErase, ThreadCheck, ThreadDrop
    <3>2. QED
      BY <2>1, <3>1, FlaggedKept
  <2>4. QED
    BY <2>2, <2>3
<1>4. CASE Clients
  <2>1. UNCHANGED <<loop, tcp_sock, read_flags, desc>>
    BY <1>4 DEF Clients, Connect, ClientSends, ClientCloses, Datagram
  <2>2. conn \in [Conns -> ConnType]
    BY DEF MTypeInv, MTypeOK, ConnType
  <2>3. ASSUME NEW j \in Conns
        PROVE  /\ conn[j].in # <<>> => conn'[j].in # <<>>
               /\ conn[j].eof => conn'[j].eof
    <3>1. ASSUME NEW k \in Conns, NEW id \in Ids, Connect(k, id)
          PROVE  conn'[j].in = conn[j].in /\ conn'[j].eof = conn[j].eof
      BY <2>2, <3>1 DEF Connect, ConnType
    <3>2. ASSUME NEW k \in Conns, ClientSends(k)
          PROVE  /\ conn[j].in # <<>> => conn'[j].in # <<>>
                 /\ conn[j].eof => conn'[j].eof
      <4>1. CASE j # k
        BY <3>2, <4>1, <2>2 DEF ClientSends
      <4>2. CASE j = k
        <5>1. PICK type \in PduTypes :
                conn' = [conn EXCEPT ![k].sent = conn[k].sent + 1,
                                     ![k].in = Append(conn[k].in, type)]
          BY <3>2 DEF ClientSends, PduTypes
        <5>2. conn[k] \in ConnType
          BY <2>2
        <5>3. conn'[k].in = Append(conn[k].in, type) /\ conn'[k].eof = conn[k].eof
          BY <2>2, <5>1, <5>2 DEF ConnType
        <5>4. Append(conn[k].in, type) # <<>>
          BY <5>2, AppendProperties DEF ConnType
        <5>5. QED
          BY <4>2, <5>3, <5>4
      <4>3. QED
        BY <4>1, <4>2
    <3>3. ASSUME NEW k \in Conns, ClientCloses(k)
          PROVE  conn'[j].in = conn[j].in /\ (conn[j].eof => conn'[j].eof)
      BY <2>2, <3>3 DEF ClientCloses, ConnType
    <3>4. Datagram => UNCHANGED conn
      BY DEF Datagram
    <3>5. QED
      BY <1>4, <3>1, <3>2, <3>3, <3>4 DEF Clients
  <2>4. QED
    BY <2>1, <2>3, FlaggedKept
<1>5. CASE UNCHANGED mvars
  BY <1>5, FlaggedKept DEF mvars
<1>6. QED
  BY <1>1, <1>2, <1>3, <1>4, <1>5 DEF MNext

\* The loop never blocks in read, whichever sessions close which connections,
\* and whenever the application stops the server, between select and read: only
\* an accept opens a descriptor again, and that is the loop's own step
\* (Server.cpp:289-310).
THEOREM ReadsDoNotBlockCorrect == MSpec => []ReadsDoNotBlock
<1>1. MInit => FlaggedInv
  BY DEF MInit, FlaggedInv
<1>2. MSpec => [](MTypeInv /\ FlaggedInv)
  BY <1>1, MTypeInit, MTypeStep, FlaggedStep, PTL DEF MSpec
<1>3. MTypeInv /\ FlaggedInv => ReadsDoNotBlock
  BY DEF MTypeInv, FlaggedInv, ReadsDoNotBlock, LoopAt, Ready, FdReady
<1>4. QED
  BY <1>2, <1>3, PTL

-----------------------------------------------------------------------------
(* Deleted sessions leave ss_map.                                          *)

\* Some thread is about to erase the entry of s.
Erasing(s) == \E u \in DOMAIN thread : thread[u].pc = "erase" /\ thread[u].victim = s

\* A thread that moves stops only its own erasure.
LEMMA ErasingKept ==
    ASSUME MTypeInv, NEW s, Erasing(s), NEW t, NEW from, NEW to,
           ThreadStep(t, from, to), from # "erase"
    PROVE  Erasing(s)'
<1>1. PICK u \in DOMAIN thread : thread[u].pc = "erase" /\ thread[u].victim = s
  BY DEF Erasing
<1>2. u # t
  BY <1>1 DEF ThreadStep
<1>3. u \in DOMAIN thread' /\ thread'[u] = thread[u]
  BY <1>2 DEF ThreadStep
<1>4. QED
  BY <1>1, <1>3 DEF Erasing

\* Steps that leave the threads alone and delete and map nothing.
LEMMA ErasedKept ==
    ASSUME EntriesErased, UNCHANGED thread, DOMAIN sess' = DOMAIN sess,
           \A s \in DOMAIN sess :
             /\ sess'[s].mapped => sess[s].mapped
             /\ sess[s].live => sess'[s].live
    PROVE  EntriesErased'
<1>1. SUFFICES ASSUME NEW s \in DOMAIN sess', sess'[s].mapped, ~sess'[s].live
               PROVE  Erasing(s)'
  BY DEF EntriesErased, Erasing
<1>2. s \in DOMAIN sess
  BY <1>1
<1>3. sess[s].mapped /\ ~sess[s].live
  BY <1>1, <1>2
<1>4. Erasing(s)
  BY <1>2, <1>3 DEF EntriesErased, Erasing
<1>5. QED
  BY <1>4 DEF Erasing

LEMMA ErasedRun ==
    ASSUME MTypeInv, EntriesErased, Run
    PROVE  EntriesErased'
<1>1. sess \in Seq(SessionType) /\ thread \in Seq(ThreadType)
  BY DEF MTypeInv, MTypeOK, SessionType, ThreadType
<1>2. CASE RunPush
  <2>1. UNCHANGED thread /\ DOMAIN sess' = DOMAIN sess
    BY <1>2 DEF RunPush
  <2>2. ASSUME NEW s \in DOMAIN sess
        PROVE  sess'[s].mapped = sess[s].mapped /\ sess'[s].live = sess[s].live
    <3>1. sess[s] \in SessionType
      BY <1>1, ElementOfSeq
    <3>2. QED
      BY <1>2, <3>1 DEF RunPush, SessionType
  <2>3. QED
    BY <2>1, <2>2, ErasedKept
<1>3. CASE RunCreate
  <2>1. PICK s, u : s.live /\ sess' = Append(sess, s) /\ thread' = Append(thread, u)
    BY <1>3 DEF RunCreate
  <2>2. /\ DOMAIN sess' = 1 .. (Len(sess) + 1)
        /\ \A x \in DOMAIN sess : sess'[x] = sess[x]
        /\ sess'[Len(sess) + 1] = s
        /\ DOMAIN sess = 1 .. Len(sess)
    BY <1>1, <2>1
  <2>3. /\ DOMAIN thread \subseteq DOMAIN thread'
        /\ \A x \in DOMAIN thread : thread'[x] = thread[x]
    BY <1>1, <2>1
  <2>4. SUFFICES ASSUME NEW x \in DOMAIN sess', sess'[x].mapped, ~sess'[x].live
                 PROVE  Erasing(x)'
    BY DEF EntriesErased, Erasing
  <2>5. x # Len(sess) + 1
    BY <2>1, <2>2, <2>4
  <2>6. x \in DOMAIN sess
    BY <1>1, <2>2, <2>4, <2>5
  <2>7. Erasing(x)
    BY <2>2, <2>4, <2>6 DEF EntriesErased, Erasing
  <2>8. QED
    BY <2>3, <2>7 DEF Erasing
<1>4. ASSUME \/ RunLock \/ RunSelect
             \/ RunTestUdp \/ RunTestListen \/ RunTestTcp \/ RunTestNone
             \/ RunUdp \/ RunAccept \/ RunAcceptWaits \/ RunAcceptFails
             \/ RunAddEntry \/ RunAddCount
             \/ RunRead \/ RunReadFails \/ RunReadStale
             \/ RunDrop \/ RunFind
      PROVE  UNCHANGED <<sess, thread>>
  BY <1>4 DEF RunLock, RunSelect, RunTestUdp, RunTestListen, RunTestTcp, RunTestNone,
     RunTest, RunUdp, RunAccept, RunAcceptWaits, RunAcceptFails, RunAddEntry, RunAddCount, RunRead,
     RunReadFails, RunReadStale, RunDrop, RunFind, sessions
<1>5. QED
  BY <1>2, <1>3, <1>4, ErasedKept DEF Run

LEMMA ErasedThreads ==
    ASSUME MTypeInv, EntriesErased, NEW t,
           ThreadStart(t) \/ ThreadEnd(t) \/ Clearing(t)
    PROVE  EntriesErased'
<1>1. sess \in Seq(SessionType) /\ thread \in Seq(ThreadType)
  BY DEF MTypeInv, MTypeOK, SessionType, ThreadType
<1>2. ASSUME NEW from, NEW to, ThreadStep(t, from, to), from # "erase", UNCHANGED sess
      PROVE  EntriesErased'
  BY <1>2, ErasingKept DEF EntriesErased, Erasing
<1>3. CASE ThreadDelete(t)
  <2>1. PICK s \in Found(Self(t).id) :
          /\ ThreadStep(t, "delete", [thread[t] EXCEPT !.pc = "erase", !.victim = s])
          /\ sess' = [sess EXCEPT ![s].live = FALSE]
    BY <1>3 DEF ThreadDelete
  <2>2. SUFFICES ASSUME NEW x \in DOMAIN sess', sess'[x].mapped, ~sess'[x].live
                 PROVE  Erasing(x)'
    BY DEF EntriesErased, Erasing
  <2>3. CASE x = s
    <3>1. t \in DOMAIN thread /\ thread[t] \in ThreadType
      BY <1>1, <2>1, ElementOfSeq DEF ThreadStep
    <3>2. thread'[t].pc = "erase" /\ thread'[t].victim = s /\ t \in DOMAIN thread'
      BY <2>1, <3>1 DEF ThreadStep, ThreadType
    <3>3. QED
      BY <2>3, <3>2 DEF Erasing
  <2>4. CASE x # s
    <3>1. x \in DOMAIN sess /\ sess'[x] = sess[x]
      BY <2>1, <2>2, <2>4
    <3>2. Erasing(x)
      BY <2>2, <3>1 DEF EntriesErased, Erasing
    <3>3. QED
      BY <2>1, <3>2, ErasingKept
  <2>5. QED
    BY <2>3, <2>4
<1>4. CASE ThreadErase(t)
  <2> DEFINE v == thread[t].victim
  <2>1. /\ ThreadStep(t, "erase", [thread[t] EXCEPT !.pc = "check", !.victim = 0])
        /\ sess' = [sess EXCEPT ![v].mapped = FALSE]
    BY <1>4 DEF ThreadErase
  <2>2. SUFFICES ASSUME NEW x \in DOMAIN sess', sess'[x].mapped, ~sess'[x].live
                 PROVE  Erasing(x)'
    BY DEF EntriesErased, Erasing
  <2>3. x \in DOMAIN sess /\ sess[x] \in SessionType
    BY <1>1, <2>1, <2>2, ElementOfSeq
  <2>4. x # v /\ sess'[x] = sess[x]
    BY <2>1, <2>2, <2>3 DEF SessionType
  <2>5. PICK u \in DOMAIN thread : thread[u].pc = "erase" /\ thread[u].victim = x
    BY <2>2, <2>3, <2>4 DEF EntriesErased
  <2>6. u # t
    BY <2>4, <2>5
  <2>7. u \in DOMAIN thread' /\ thread'[u] = thread[u]
    BY <2>1, <2>6 DEF ThreadStep
  <2>8. QED
    BY <2>5, <2>7 DEF Erasing
<1>5. CASE ThreadStart(t) \/ ThreadEnd(t)
  BY <1>2, <1>5 DEF ThreadStart, ThreadEnd
<1>6. CASE ThreadClose(t) \/ ThreadFindsNone(t)
  BY <1>2, <1>6 DEF ThreadClose, ThreadFindsNone
<1>7. CASE ThreadCheck(t) \/ ThreadDrop(t)
  BY <1>2, <1>7 DEF ThreadCheck, ThreadDrop
<1>8. QED
  BY <1>3, <1>4, <1>5, <1>6, <1>7 DEF Clearing

LEMMA ErasedStep ==
    ASSUME MTypeInv, EntriesErased, [MNext]_mvars
    PROVE  EntriesErased'
<1>1. CASE Listening \/ StopTcp \/ StopListen \/ Clients
  <2>1. UNCHANGED <<sess, thread>>
    BY <1>1 DEF Listening, ListenSocket, ListenBind, ListenFlag, StopTcp, StopListen,
       Clients, Connect, ClientSends, ClientCloses, Datagram, sessions
  <2>2. QED
    BY <2>1, ErasedKept
<1>2. CASE UNCHANGED mvars
  BY <1>2, ErasedKept DEF mvars
<1>3. QED
  BY <1>1, <1>2, ErasedRun, ErasedThreads DEF MNext

\* A pointer to a deleted session stays in ss_map only as long as some thread is
\* about to erase it, however many threads clear sessions at once, whichever
\* session each of them got to run, and although no lock protects the map
\* (Server.cpp:434-446).
THEOREM EntriesErasedCorrect == MSpec => []EntriesErased
<1>1. MInit => EntriesErased
  BY DEF MInit, EntriesErased
<1>2. MSpec => [](MTypeInv /\ EntriesErased)
  BY <1>1, MTypeInit, MTypeStep, ErasedStep, PTL DEF MSpec
<1>3. QED
  BY <1>2, PTL

-----------------------------------------------------------------------------
(* Sessions and their connections: what the steps change.                  *)

\* Four actions of the loop apart, only a second decoding finds a PDU.
LEMMA RunKeeps ==
    ASSUME MTypeInv, Run, ~RunAccept, ~RunRead, ~RunPush, ~RunCreate
    PROVE  /\ UNCHANGED <<sess, thread, parm, app, desc, conn, backlog>>
           /\ loop'.pdu = loop.pdu
           /\ tcp_sock' \in {tcp_sock, -1}
           /\ loop'.pc = "find" => AtEof /\ tcp_sock' = tcp_sock
<1> USE DEF LoopGoto, LoopType, select_vars, table, sessions, kernel
<1>1. loop \in LoopType
  BY DEF MTypeInv, MTypeOK
<1>2. CASE RunLock \/ RunSelect
  BY <1>1, <1>2 DEF RunLock, RunSelect
<1>3. CASE RunTestUdp \/ RunTestListen \/ RunTestTcp \/ RunTestNone
  BY <1>1, <1>3 DEF RunTestUdp, RunTestListen, RunTestTcp, RunTestNone, RunTest
<1>4. CASE RunUdp \/ RunAcceptWaits \/ RunAcceptFails
  BY <1>1, <1>4 DEF RunUdp, RunAcceptWaits, RunAcceptFails
<1>5. CASE RunAddEntry \/ RunAddCount
  BY <1>1, <1>5 DEF RunAddEntry, RunAddCount
<1>6. CASE RunReadFails \/ RunReadStale
  BY <1>1, <1>6 DEF RunReadFails, RunReadStale
<1>7. CASE RunDrop \/ RunFind
  BY <1>1, <1>7 DEF RunDrop, RunFind
<1>8. QED
  BY <1>2, <1>3, <1>4, <1>5, <1>6, <1>7 DEF Run

\* The steps of the application and of the clients leave the sessions alone.
LEMMA OutsideKeeps ==
    ASSUME Listening \/ StopTcp \/ StopListen \/ Clients
    PROVE  UNCHANGED <<sess, thread, parm, loop, tcp_sock>>
BY DEF Listening, ListenSocket, ListenBind, ListenFlag, StopTcp, StopListen, Clients,
   Connect, ClientSends, ClientCloses, Datagram, sessions

\* The steps of a session's thread: what all of them leave alone.
LEMMA ThreadKeeps ==
    ASSUME NEW t, ThreadStart(t) \/ ThreadEnd(t) \/ Clearing(t)
    PROVE  /\ UNCHANGED <<loop, tcp_sock, parm, app, conn, backlog>>
           /\ t \in DOMAIN thread /\ DOMAIN thread' = DOMAIN thread
           /\ \A u \in DOMAIN thread : u # t => thread'[u] = thread[u]
BY DEF ThreadStart, ThreadEnd, Clearing, ThreadClose, ThreadDelete, ThreadFindsNone,
   ThreadErase, ThreadCheck, ThreadDrop, ThreadStep

\* What becomes of the thread that moves.
LEMMA ThreadMoves ==
    ASSUME MTypeInv, NEW t, ThreadStart(t) \/ ThreadEnd(t) \/ Clearing(t)
    PROVE  /\ thread'[t].pc # "start"
           /\ ThreadStart(t) => thread[t].pc = "start" /\ thread'[t].ss = parm
           /\ ~ThreadStart(t) => thread[t].pc # "start" /\ thread'[t].ss = thread[t].ss
           /\ thread[t].pc \notin {"start", "run", "close"} =>
                thread'[t].pc \notin {"start", "run", "close"}
           /\ thread[t].pc \in {"check", "drop", "done"} =>
                thread'[t].pc \in {"check", "drop", "done"}
           /\ thread'[t].pc = "erase" => ThreadDelete(t)
<1>1. t \in DOMAIN thread
  BY ThreadKeeps
<1>2. thread[t] \in ThreadType
  <2>1. thread \in Seq(ThreadType)
    BY DEF MTypeInv, MTypeOK, ThreadType
  <2>2. QED
    BY ONLY <1>1, <2>1, ElementOfSeq
<1> USE DEF ThreadStep, ThreadType, To
<1>3. CASE ThreadStart(t)
  BY <1>1, <1>2, <1>3 DEF ThreadStart
<1>4. CASE ThreadEnd(t) \/ ThreadClose(t)
  BY <1>1, <1>2, <1>4 DEF ThreadEnd, ThreadClose, ThreadStart
<1>5. CASE ThreadDelete(t)
  <2>1. PICK s : /\ thread[t].pc = "delete"
                 /\ thread' = [thread EXCEPT ![t] = [thread[t] EXCEPT !.pc = "erase", !.victim = s]]
    BY <1>5 DEF ThreadDelete
  <2>2. thread'[t].pc = "erase" /\ thread'[t].ss = thread[t].ss
    BY ONLY <1>1, <1>2, <2>1 DEF ThreadType
  <2>3. QED
    BY <1>5, <2>1, <2>2 DEF ThreadStart
<1>6. CASE ThreadFindsNone(t) \/ ThreadErase(t)
  BY <1>1, <1>2, <1>6 DEF ThreadFindsNone, ThreadErase, ThreadStart
<1>7. CASE ThreadCheck(t)
  BY <1>1, <1>2, <1>7 DEF ThreadCheck, ThreadStart
<1>8. CASE ThreadDrop(t)
  <2>1. thread'[t].pc = "check" /\ thread'[t].ss = thread[t].ss /\ thread[t].pc = "drop"
    BY <1>1, <1>2, <1>8 DEF ThreadDrop
  <2>2. QED
    BY <2>1 DEF ThreadStart
<1>9. QED
  BY <1>3, <1>4, <1>5, <1>6, <1>7, <1>8 DEF Clearing

\* A session that distribute() makes, and its thread.
LEMMA Created ==
    ASSUME MTypeInv, RunCreate
    PROVE  /\ UNCHANGED <<tcp_sock, app, desc, conn, backlog>>
           /\ loop.pc = "find" /\ loop'.pc = "top" /\ loop'.pdu = loop.pdu
           /\ tcp_sock \in Fds /\ Found(loop.pdu.id) = {}
           /\ parm' = Len(sess) + 1
           /\ parm' \notin DOMAIN sess /\ DOMAIN sess' = DOMAIN sess \cup {parm'}
           /\ \A s \in DOMAIN sess : sess'[s] = sess[s]
           /\ sess'[parm'].id = loop.pdu.id /\ sess'[parm'].mapped
           /\ sess'[parm'].fd = tcp_sock /\ sess'[parm'].conn = desc[tcp_sock]
           /\ \E m : /\ m \notin DOMAIN thread /\ DOMAIN thread' = DOMAIN thread \cup {m}
                     /\ \A t \in DOMAIN thread : thread'[t] = thread[t]
                     /\ thread'[m].pc = "start" /\ thread'[m].ss = 0
<1> DEFINE s == [id |-> loop.pdu.id, fd |-> tcp_sock, conn |-> desc[tcp_sock],
                 live |-> TRUE, mapped |-> TRUE, queue |-> {"REQUEST_MSG"}]
           u == [pc |-> "start", ss |-> 0, victim |-> 0, i |-> 0, seen |-> 0]
<1>1. sess' = Append(sess, s) /\ thread' = Append(thread, u) /\ parm' = Len(sess) + 1
  BY DEF RunCreate
<1>2. sess \in Seq(SessionType) /\ thread \in Seq(ThreadType) /\ loop \in LoopType
  BY DEF MTypeInv, MTypeOK, SessionType, ThreadType, LoopType
<1>3. /\ s.id = loop.pdu.id /\ s.mapped /\ s.fd = tcp_sock /\ s.conn = desc[tcp_sock]
      /\ u.pc = "start" /\ u.ss = 0
  OBVIOUS
<1>4. /\ UNCHANGED <<tcp_sock, app, desc, conn, backlog>>
      /\ loop.pc = "find" /\ loop'.pc = "top" /\ loop'.pdu = loop.pdu
      /\ tcp_sock \in Fds /\ Found(loop.pdu.id) = {}
  BY <1>2 DEF RunCreate, LoopAt, LoopGoto, LoopType, MTypeInv, kernel
<1> HIDE DEF s, u
<1>5. ASSUME NEW S, NEW q \in Seq(S), NEW e
      PROVE  /\ Len(q) + 1 \notin DOMAIN q
             /\ DOMAIN Append(q, e) = DOMAIN q \cup {Len(q) + 1}
             /\ \A i \in DOMAIN q : Append(q, e)[i] = q[i]
             /\ Append(q, e)[Len(q) + 1] = e
  OBVIOUS
<1>6. /\ parm' \notin DOMAIN sess /\ DOMAIN sess' = DOMAIN sess \cup {parm'}
      /\ \A x \in DOMAIN sess : sess'[x] = sess[x]
      /\ sess'[parm'] = s
  BY ONLY <1>1, <1>2, <1>5
<1>7. \E m : /\ m \notin DOMAIN thread /\ DOMAIN thread' = DOMAIN thread \cup {m}
             /\ \A t \in DOMAIN thread : thread'[t] = thread[t]
             /\ thread'[m] = u
  BY ONLY <1>1, <1>2, <1>5
<1>8. QED
  BY <1>1, <1>3, <1>4, <1>6, <1>7

\* Sessions keep their id, their descriptor and their connection; a mapped one
\* stays mapped unless a thread erases its entry.
LEMMA SessionKept ==
    ASSUME MTypeInv, [MNext]_mvars, NEW s \in DOMAIN sess
    PROVE  /\ s \in DOMAIN sess'
           /\ sess'[s].id = sess[s].id /\ sess'[s].fd = sess[s].fd
           /\ sess'[s].conn = sess[s].conn
           /\ sess'[s].mapped => sess[s].mapped
           /\ sess[s].mapped =>
                \/ sess'[s].mapped
                \/ \E t \in Sessions : ThreadErase(t) /\ thread[t].victim = s
<1>1. sess \in Seq(SessionType) /\ sess[s] \in SessionType
  <2>1. sess \in Seq(SessionType)
    BY DEF MTypeInv, MTypeOK, SessionType
  <2>2. QED
    BY ONLY <2>1, s \in DOMAIN sess, ElementOfSeq
<1>2. CASE UNCHANGED sess
  BY <1>2
<1>3. CASE RunCreate
  BY <1>3, Created
<1>4. CASE RunPush
  BY <1>1, <1>4 DEF RunPush, SessionType
<1>5. ASSUME NEW t \in Sessions, ThreadStart(t) \/ ThreadEnd(t) \/ Clearing(t)
      PROVE  /\ s \in DOMAIN sess'
             /\ sess'[s].id = sess[s].id /\ sess'[s].fd = sess[s].fd
             /\ sess'[s].conn = sess[s].conn
             /\ sess'[s].mapped => sess[s].mapped
             /\ sess[s].mapped =>
                  sess'[s].mapped \/ (ThreadErase(t) /\ thread[t].victim = s)
  <2>1. CASE ThreadDelete(t)
    BY <1>1, <2>1 DEF ThreadDelete, SessionType
  <2>2. CASE ThreadErase(t)
    <3>1. sess' = [sess EXCEPT ![thread[t].victim].mapped = FALSE]
      BY <2>2 DEF ThreadErase
    <3>2. CASE s = thread[t].victim
      BY <1>1, <2>2, <3>1, <3>2 DEF SessionType
    <3>3. CASE s # thread[t].victim
      BY <3>1, <3>3
    <3>4. QED
      BY <3>2, <3>3
  <2>3. CASE ~ThreadDelete(t) /\ ~ThreadErase(t)
    BY <1>5, <2>3 DEF ThreadStart, ThreadEnd, Clearing, ThreadClose, ThreadFindsNone,
       ThreadCheck, ThreadDrop
  <2>4. QED
    BY <2>1, <2>2, <2>3
<1>6. CASE Run
  <2>1. CASE RunAccept \/ RunRead
    BY <1>2, <2>1 DEF RunAccept, RunRead, sessions
  <2>2. CASE ~RunAccept /\ ~RunRead /\ ~RunPush /\ ~RunCreate
    BY <1>2, <1>6, <2>2, RunKeeps
  <2>3. QED
    BY <1>3, <1>4, <2>1, <2>2
<1>7. CASE Listening \/ StopTcp \/ StopListen \/ Clients
  BY <1>2, <1>7, OutsideKeeps
<1>8. CASE UNCHANGED mvars
  BY <1>2, <1>8 DEF mvars
<1>9. QED
  BY <1>5, <1>6, <1>7, <1>8 DEF MNext

\* Only distribute() makes sessions and their threads.
LEMMA SessionsSame ==
    ASSUME MTypeInv, [MNext]_mvars, ~RunCreate
    PROVE  DOMAIN sess' = DOMAIN sess /\ DOMAIN thread' = DOMAIN thread /\ parm' = parm
<1>1. CASE UNCHANGED <<sess, thread, parm>>
  BY <1>1
<1>2. CASE RunPush
  BY <1>2 DEF RunPush
<1>3. ASSUME NEW t \in Sessions, ThreadStart(t) \/ ThreadEnd(t) \/ Clearing(t)
      PROVE  DOMAIN sess' = DOMAIN sess /\ DOMAIN thread' = DOMAIN thread /\ parm' = parm
  <2>1. DOMAIN sess' = DOMAIN sess
    BY <1>3 DEF ThreadStart, ThreadEnd, Clearing, ThreadClose, ThreadDelete,
       ThreadFindsNone, ThreadErase, ThreadCheck, ThreadDrop
  <2>2. QED
    BY <1>3, <2>1, ThreadKeeps
<1>4. CASE Run
  <2>1. CASE RunAccept \/ RunRead
    BY <1>1, <2>1 DEF RunAccept, RunRead, sessions
  <2>2. CASE ~RunAccept /\ ~RunRead /\ ~RunPush
    BY <1>1, <1>4, <2>2, RunKeeps
  <2>3. QED
    BY <1>2, <2>1, <2>2
<1>5. CASE Listening \/ StopTcp \/ StopListen \/ Clients
  BY <1>1, <1>5, OutsideKeeps
<1>6. CASE UNCHANGED mvars
  BY <1>1, <1>6 DEF mvars
<1>7. QED
  BY <1>3, <1>4, <1>5, <1>6 DEF MNext

\* Threads go on, and keep the session they were given.
LEMMA ThreadKept ==
    ASSUME MTypeInv, KnownInv, [MNext]_mvars, NEW t \in DOMAIN thread
    PROVE  /\ t \in DOMAIN thread'
           /\ thread[t].ss # 0 => thread'[t].ss = thread[t].ss
           /\ thread[t].pc \notin {"start", "run", "close"} =>
                thread'[t].pc \notin {"start", "run", "close"}
           /\ thread[t].pc \in {"check", "drop", "done"} =>
                thread'[t].pc \in {"check", "drop", "done"}
<1>1. CASE UNCHANGED thread
  BY <1>1
<1>2. CASE RunCreate
  BY <1>2, Created
<1>3. ASSUME NEW u \in Sessions, ThreadStart(u) \/ ThreadEnd(u) \/ Clearing(u)
      PROVE  /\ t \in DOMAIN thread'
             /\ thread[t].ss # 0 => thread'[t].ss = thread[t].ss
             /\ thread[t].pc \notin {"start", "run", "close"} =>
                  thread'[t].pc \notin {"start", "run", "close"}
             /\ thread[t].pc \in {"check", "drop", "done"} =>
                  thread'[t].pc \in {"check", "drop", "done"}
  <2>1. CASE t = u
    BY <1>3, <2>1, ThreadKeeps, ThreadMoves DEF KnownInv
  <2>2. CASE t # u
    BY <1>3, <2>2, ThreadKeeps
  <2>3. QED
    BY <2>1, <2>2
<1>4. CASE Run
  <2>1. CASE RunAccept \/ RunRead \/ RunPush
    BY <1>1, <2>1 DEF RunAccept, RunRead, RunPush, sessions
  <2>2. CASE ~RunAccept /\ ~RunRead /\ ~RunPush /\ ~RunCreate
    BY <1>1, <1>4, <2>2, RunKeeps
  <2>3. QED
    BY <1>2, <2>1, <2>2
<1>5. CASE Listening \/ StopTcp \/ StopListen \/ Clients
  BY <1>1, <1>5, OutsideKeeps
<1>6. CASE UNCHANGED mvars
  BY <1>1, <1>6 DEF mvars
<1>7. QED
  BY <1>3, <1>4, <1>5, <1>6 DEF MNext

-----------------------------------------------------------------------------
(* Sessions and their connections: the invariants.                         *)

\* A connection that was made keeps its id, and nothing comes after its end.
LEMMA ConnKept ==
    ASSUME MTypeInv, [MNext]_mvars, NEW k \in Conns, conn[k].up
    PROVE  conn'[k].up /\ conn'[k].id = conn[k].id /\ (AtEnd(k) => AtEnd(k)')
<1>1. conn \in [Conns -> ConnType]
  BY DEF MTypeInv, MTypeOK, ConnType
<1>2. CASE UNCHANGED conn
  BY <1>2 DEF AtEnd
<1>3. CASE RunRead
  <2>1. PICK j : /\ conn[j].in # <<>>
                 /\ conn' = [conn EXCEPT ![j].in = Tail(conn[j].in)]
    BY <1>3 DEF RunRead
  <2>2. CASE k = j
    BY <1>1, <2>1, <2>2 DEF AtEnd, ConnType
  <2>3. CASE k # j
    BY <1>1, <2>1, <2>3 DEF AtEnd, ConnType
  <2>4. QED
    BY <2>2, <2>3
<1>4. ASSUME NEW j \in Conns, NEW id \in Ids, Connect(j, id)
      PROVE  conn'[k] = conn[k]
  BY <1>1, <1>4 DEF Connect
<1>5. ASSUME NEW j \in Conns, ClientSends(j)
      PROVE  conn'[k].up /\ conn'[k].id = conn[k].id /\ (AtEnd(k) => conn'[k] = conn[k])
  <2>1. CASE k = j
    <3>1. PICK n, in : conn' = [conn EXCEPT ![j].sent = n, ![j].in = in]
      BY <1>5 DEF ClientSends
    <3>2. conn'[k].up = conn[k].up /\ conn'[k].id = conn[k].id
      BY <1>1, <2>1, <3>1 DEF ConnType
    <3>3. ~AtEnd(k)
      BY <1>5, <2>1 DEF ClientSends, AtEnd
    <3>4. QED
      BY <3>2, <3>3
  <2>2. CASE k # j
    BY <1>1, <1>5, <2>2 DEF ClientSends
  <2>3. QED
    BY <2>1, <2>2
<1>6. ASSUME NEW j \in Conns, ClientCloses(j)
      PROVE  conn'[k].up /\ conn'[k].id = conn[k].id /\ (AtEnd(k) => AtEnd(k)')
  BY <1>1, <1>6 DEF ClientCloses, AtEnd, ConnType
<1>7. Datagram \/ Listening \/ StopTcp \/ StopListen => UNCHANGED conn
  BY DEF Datagram, Listening, ListenSocket, ListenBind, ListenFlag, StopTcp, StopListen,
     kernel
<1>8. Clients => conn'[k].up /\ conn'[k].id = conn[k].id /\ (AtEnd(k) => AtEnd(k)')
  BY <1>2, <1>4, <1>5, <1>6, <1>7 DEF Clients, AtEnd
<1>9. CASE Run
  <2>1. RunAccept \/ RunPush \/ RunCreate => UNCHANGED conn
    BY DEF RunAccept, RunPush, RunCreate, kernel
  <2>2. QED
    BY <1>2, <1>3, <1>9, <2>1, RunKeeps
<1>10. CASE UNCHANGED mvars
  BY <1>2, <1>10 DEF mvars
<1>11. QED
  BY <1>2, <1>7, <1>8, <1>9, <1>10, ThreadKeeps DEF MNext

\* Only accept opens a descriptor, and makes another connection the newest.
LEMMA DescKept ==
    ASSUME MTypeInv, [MNext]_mvars, ~RunAccept
    PROVE  /\ \A f \in Fds : desc'[f] \in {0, desc[f]}
           /\ tcp_sock' \in {tcp_sock, -1}
<1>1. CASE UNCHANGED desc /\ tcp_sock' \in {tcp_sock, -1}
  BY <1>1
<1>2. desc \in [Fds -> Conns \cup {0}]
  BY DEF MTypeInv, MTypeOK
<1>3. CASE StopTcp
  BY <1>3 DEF StopTcp
<1>4. ASSUME NEW t, ThreadStart(t) \/ ThreadEnd(t) \/ Clearing(t)
      PROVE  \A f \in Fds : desc'[f] \in {0, desc[f]}
  <2>1. CASE ThreadClose(t)
    BY <1>2, <2>1 DEF ThreadClose
  <2>2. CASE ~ThreadClose(t)
    BY <1>4, <2>2 DEF ThreadStart, ThreadEnd, Clearing, ThreadDelete, ThreadFindsNone,
       ThreadErase, ThreadCheck, ThreadDrop
  <2>3. QED
    BY <2>1, <2>2
<1>5. CASE Run
  <2>1. RunRead \/ RunPush \/ RunCreate => UNCHANGED <<desc, tcp_sock>>
    BY DEF RunRead, RunPush, RunCreate, kernel
  <2>2. QED
    BY <1>1, <1>5, <2>1, RunKeeps
<1>6. CASE Listening \/ StopListen \/ Clients
  BY <1>1, <1>6 DEF Listening, ListenSocket, ListenBind, ListenFlag, StopListen, Clients,
     Connect, ClientSends, ClientCloses, Datagram, kernel
<1>7. CASE UNCHANGED mvars
  BY <1>1, <1>7 DEF mvars
<1>8. QED
  BY <1>3, <1>4, <1>5, <1>6, <1>7, ThreadKeeps DEF MNext

\* What accept does.
LEMMA Accepted ==
    ASSUME MTypeInv, RunAccept
    PROVE  /\ UNCHANGED <<sess, thread, parm, app, conn>>
           /\ loop'.pc = "add" /\ loop'.pdu = loop.pdu
           /\ backlog # <<>> /\ backlog' = Tail(backlog)
           /\ tcp_sock' \in Fds
           /\ desc[tcp_sock'] = 0 /\ desc'[tcp_sock'] = Head(backlog)
           /\ \A f \in Fds : f # tcp_sock' => desc'[f] = desc[f]
<1>1. loop \in LoopType /\ desc \in [Fds -> Conns \cup {0}]
  BY DEF MTypeInv, MTypeOK, LoopType
<1>2. loop' = [loop EXCEPT !.pc = "add", !.slot = tcp_accepted]
  BY DEF RunAccept
<1>3. loop'.pc = "add" /\ loop'.pdu = loop.pdu
  BY ONLY <1>1, <1>2 DEF LoopType
<1>4. PICK f \in Fds : /\ desc[f] = 0 /\ tcp_sock' = f
                       /\ desc' = [desc EXCEPT ![f] = Head(backlog)]
  BY DEF RunAccept, LowestFree
<1>5. QED
  BY <1>1, <1>3, <1>4 DEF RunAccept, sessions

LEMMA KnownStep ==
    ASSUME MTypeInv, KnownInv, WaitingInv, [MNext]_mvars
    PROVE  KnownInv'
<1>1. /\ sess \in Seq(SessionType) /\ desc \in [Fds -> Conns \cup {0}]
      /\ backlog \in Seq(Conns)
  BY DEF MTypeInv, MTypeOK, SessionType
<1>2. ASSUME NEW s \in DOMAIN sess
      PROVE  sess[s].conn \in Conns \cup {0}
  <2>1. sess[s] \in SessionType
    BY ONLY <1>1, <1>2, ElementOfSeq
  <2>2. QED
    BY ONLY <2>1 DEF SessionType
<1>3. ASSUME NEW t \in DOMAIN thread'
      PROVE  /\ thread'[t].pc = "start" => thread'[t].ss = 0
             /\ thread'[t].pc # "start" => thread'[t].ss \in DOMAIN sess'
             /\ parm' \in DOMAIN sess'
  <2>1. CASE RunCreate
    <3>1. PICK m : /\ DOMAIN thread' = DOMAIN thread \cup {m}
                   /\ \A u \in DOMAIN thread : thread'[u] = thread[u]
                   /\ thread'[m].pc = "start" /\ thread'[m].ss = 0
      BY <2>1, Created
    <3>2. DOMAIN sess' = DOMAIN sess \cup {parm'}
      BY <2>1, Created
    <3>3. QED
      BY <1>3, <3>1, <3>2 DEF KnownInv
  <2>2. CASE ~RunCreate
    <3>1. t \in DOMAIN thread /\ DOMAIN sess' = DOMAIN sess /\ parm' = parm
      BY <1>3, <2>2, SessionsSame
    <3>2. CASE thread'[t] = thread[t]
      BY <3>1, <3>2 DEF KnownInv
    <3>3. ASSUME NEW u \in Sessions, ThreadStart(u) \/ ThreadEnd(u) \/ Clearing(u)
          PROVE  \/ thread'[t] = thread[t]
                 \/ thread'[t].pc # "start" /\ thread'[t].ss \in DOMAIN sess
      <4>1. CASE t = u
        BY <3>1, <3>3, <4>1, ThreadMoves DEF KnownInv
      <4>2. CASE t # u
        BY <3>1, <3>3, <4>2, ThreadKeeps
      <4>3. QED
        BY <4>1, <4>2
    <3>4. CASE Run \/ Listening \/ StopTcp \/ StopListen \/ Clients \/ UNCHANGED mvars
      <4>1. RunAccept \/ RunRead \/ RunPush => UNCHANGED thread
        BY DEF RunAccept, RunRead, RunPush, sessions
      <4>2. UNCHANGED thread
        BY <2>2, <3>4, <4>1, RunKeeps, OutsideKeeps DEF mvars
      <4>3. QED
        BY <3>2, <4>2
    <3>5. QED
      BY <3>1, <3>2, <3>3, <3>4 DEF MNext, KnownInv
  <2>3. QED
    BY <2>1, <2>2
<1>4. ASSUME NEW s \in DOMAIN sess', NEW r \in DOMAIN sess',
             sess'[s].mapped, sess'[r].mapped, sess'[s].id = sess'[r].id
      PROVE  s = r
  <2>1. CASE s \in DOMAIN sess /\ r \in DOMAIN sess
    BY <1>4, <2>1, SessionKept DEF KnownInv
  <2>2. CASE ~(s \in DOMAIN sess /\ r \in DOMAIN sess)
    <3>1. RunCreate
      BY <1>4, <2>2, SessionsSame
    <3>2. \A x \in DOMAIN sess : sess[x].mapped => sess[x].id # loop.pdu.id
      BY <3>1, Created DEF Found
    <3>3. QED
      BY <1>4, <2>2, <3>1, <3>2, Created
  <2>3. QED
    BY <2>1, <2>2
<1>5. ASSUME NEW f \in Fds, desc'[f] # 0
      PROVE  conn'[desc'[f]].up
  <2>1. CASE RunAccept /\ f = tcp_sock'
    <3>1. backlog[1] = Head(backlog) /\ 1 \in DOMAIN backlog /\ Head(backlog) \in Conns
      BY <1>1, <2>1, Accepted, HeadTailProperties
    <3>2. QED
      BY <2>1, <3>1, Accepted, ConnKept DEF WaitingInv
  <2>2. CASE ~(RunAccept /\ f = tcp_sock')
    <3>1. desc'[f] = desc[f] /\ desc[f] \in Conns
      BY <1>1, <1>5, <2>2, Accepted, DescKept
    <3>2. QED
      BY <1>5, <3>1, ConnKept DEF KnownInv
  <2>3. QED
    BY <2>1, <2>2
<1>6. ASSUME NEW s \in DOMAIN sess', sess'[s].conn # 0
      PROVE  conn'[sess'[s].conn].up
  <2>1. CASE s \in DOMAIN sess
    BY <1>2, <1>6, <2>1, SessionKept, ConnKept DEF KnownInv
  <2>2. CASE s \notin DOMAIN sess
    <3>1. RunCreate
      BY <1>6, <2>2, SessionsSame
    <3>2. sess'[s].conn = desc[tcp_sock] /\ tcp_sock \in Fds
      BY <1>6, <2>2, <3>1, Created
    <3>3. QED
      BY <1>1, <1>6, <3>2, ConnKept DEF KnownInv
  <2>3. QED
    BY <2>1, <2>2
<1>7. QED
  BY <1>3, <1>4, <1>5, <1>6 DEF KnownInv

LEMMA WaitingStep ==
    ASSUME MTypeInv, KnownInv, WaitingInv, [MNext]_mvars
    PROVE  WaitingInv'
<1>1. /\ sess \in Seq(SessionType) /\ desc \in [Fds -> Conns \cup {0}]
      /\ backlog \in Seq(Conns) /\ 0 \notin Conns
  BY DEF MTypeInv, MTypeOK, SessionType, Conns
<1> DEFINE Fresh(k) == /\ conn[k].up
                       /\ \A f \in Fds : desc[f] # k
                       /\ \A s \in DOMAIN sess : sess[s].conn # k
\* Nothing but accept makes use of a connection that waits.
<1>2. ASSUME NEW k \in Conns, Fresh(k), ~RunAccept
      PROVE  Fresh(k)'
  <2>1. conn'[k].up
    BY <1>2, ConnKept
  <2>2. \A f \in Fds : desc'[f] # k
    BY <1>1, <1>2, DescKept
  <2>3. ASSUME NEW s \in DOMAIN sess'
        PROVE  sess'[s].conn # k
    <3>1. CASE s \in DOMAIN sess
      BY <1>2, <3>1, SessionKept
    <3>2. CASE s \notin DOMAIN sess
      BY <1>2, <2>3, <3>2, SessionsSame, Created
    <3>3. QED
      BY <3>1, <3>2
  <2>4. QED
    BY <2>1, <2>2, <2>3
<1>3. \A i \in DOMAIN backlog : backlog[i] \in Conns /\ Fresh(backlog[i])
  <2>1. \A i \in DOMAIN backlog : backlog[i] \in Conns
    BY ONLY <1>1, ElementOfSeq
  <2>2. QED
    BY <2>1 DEF WaitingInv
<1>4. \A i, j \in DOMAIN backlog : backlog[i] = backlog[j] => i = j
  BY DEF WaitingInv
\* What is left to show of the new backlog.
<1>5. ASSUME \A i \in DOMAIN backlog' : Fresh(backlog[i])',
             \A i, j \in DOMAIN backlog' : backlog'[i] = backlog'[j] => i = j
      PROVE  WaitingInv'
  BY <1>5 DEF WaitingInv
<1>6. CASE UNCHANGED backlog /\ ~RunAccept
  BY <1>2, <1>3, <1>4, <1>5, <1>6
<1>7. CASE RunAccept
  <2>1. /\ backlog' = Tail(backlog) /\ backlog # <<>>
        /\ UNCHANGED <<sess, conn>> /\ tcp_sock' \in Fds
        /\ desc'[tcp_sock'] = Head(backlog)
        /\ \A f \in Fds : f # tcp_sock' => desc'[f] = desc[f]
    BY <1>7, Accepted
  <2>2. /\ 1 \in DOMAIN backlog /\ backlog[1] = Head(backlog)
        /\ \A i \in DOMAIN backlog' : /\ i + 1 \in DOMAIN backlog /\ i + 1 # 1
                                      /\ backlog'[i] = backlog[i + 1]
        /\ \A i \in DOMAIN backlog' : i \in Nat
    BY ONLY <1>1, <2>1, HeadTailProperties
  <2>3. ASSUME NEW i \in DOMAIN backlog'
        PROVE  Fresh(backlog[i])'
    <3>1. /\ Fresh(backlog[i + 1]) /\ backlog[i + 1] # Head(backlog)
          /\ backlog'[i] = backlog[i + 1]
      BY <1>3, <1>4, <2>2
    <3>2. QED
      BY <2>1, <3>1
  <2>4. ASSUME NEW i \in DOMAIN backlog', NEW j \in DOMAIN backlog',
               backlog'[i] = backlog'[j]
        PROVE  i = j
    <3>1. i + 1 = j + 1
      BY <1>4, <2>2, <2>4
    <3>2. QED
      BY <2>2, <3>1
  <2>5. QED
    BY <1>5, <2>3, <2>4
<1>8. ASSUME NEW k \in Conns, NEW id \in Ids, Connect(k, id)
      PROVE  WaitingInv'
  <2>1. /\ ~conn[k].up /\ conn' = [conn EXCEPT ![k].up = TRUE, ![k].id = id]
        /\ backlog' = Append(backlog, k) /\ UNCHANGED <<sess, desc>>
    BY <1>8 DEF Connect, sessions
  <2>2. Fresh(k)'
    <3>1. conn'[k].up
      <4>1. conn \in [Conns -> ConnType]
        BY DEF MTypeInv, MTypeOK, ConnType
      <4>2. QED
        BY <2>1, <4>1 DEF ConnType
    <3>2. \A f \in Fds : desc[f] # k
      BY <1>1, <2>1 DEF KnownInv
    <3>3. \A s \in DOMAIN sess : sess[s].conn # k
      BY <1>1, <2>1 DEF KnownInv
    <3>4. QED
      BY <2>1, <3>1, <3>2, <3>3
  <2>3. ~RunAccept
    BY <1>8 DEF Connect, RunAccept, LoopAt, MTypeInv, MTypeOK
  <2>4. ASSUME NEW i \in DOMAIN backlog'
        PROVE  \/ i \in DOMAIN backlog /\ backlog'[i] = backlog[i]
               \/ i = Len(backlog) + 1 /\ backlog'[i] = k
    BY ONLY <1>1, <2>1, <2>4
  <2>5. \A i \in DOMAIN backlog : backlog[i] # k
    BY <1>3, <2>1
  <2>6. \A i \in DOMAIN backlog' : Fresh(backlog[i])'
    BY <1>2, <1>3, <2>2, <2>3, <2>4
  <2>7. \A i, j \in DOMAIN backlog' : backlog'[i] = backlog'[j] => i = j
    BY <1>4, <2>4, <2>5
  <2>8. QED
    BY <1>5, <2>6, <2>7
<1>9. CASE StopListen
  <2>1. backlog' = <<>>
    BY <1>9 DEF StopListen
  <2>2. DOMAIN backlog' = {}
    BY <2>1
  <2>3. QED
    BY <1>5, <2>2
<1>10. CASE Run
  <2>1. RunRead \/ RunPush \/ RunCreate => UNCHANGED backlog
    BY DEF RunRead, RunPush, RunCreate, kernel
  <2>2. QED
    BY <1>6, <1>7, <1>10, <2>1, RunKeeps
<1>11. ASSUME ~Run,
              \/ Listening \/ StopTcp \/ Datagram \/ UNCHANGED mvars
              \/ \E k \in Conns : ClientSends(k) \/ ClientCloses(k)
              \/ \E t \in Sessions : ThreadStart(t) \/ ThreadEnd(t) \/ Clearing(t)
       PROVE  WaitingInv'
  <2>1. UNCHANGED backlog
    BY <1>11, ThreadKeeps DEF Listening, ListenSocket, ListenBind, ListenFlag, StopTcp,
       ClientSends, ClientCloses, Datagram, kernel, mvars
  <2>2. QED
    BY <1>6, <1>11, <2>1 DEF Run
<1>12. QED
  BY <1>8, <1>9, <1>10, <1>11 DEF MNext, Clients

LEMMA NewestStep ==
    ASSUME MTypeInv, KnownInv, WaitingInv, NewestInv, [MNext]_mvars
    PROVE  NewestInv'
<1>1. /\ sess \in Seq(SessionType) /\ desc \in [Fds -> Conns \cup {0}]
      /\ backlog \in Seq(Conns) /\ 0 \notin Conns /\ -1 \notin Fds
  BY SocketsApart DEF MTypeInv, MTypeOK, SessionType, Conns
<1>2. SUFFICES ASSUME NEW k \in Conns, Newest(k)'
               PROVE  /\ LoopAt("find")' => loop'.pdu.id = conn'[k].id \/ AtEnd(k)'
                      /\ \A s \in DOMAIN sess' :
                           sess'[s].conn = k =>
                             /\ sess'[s].id = loop'.pdu.id
                             /\ sess'[s].id = conn'[k].id \/ AtEnd(k)'
  BY DEF NewestInv
<1>3. CASE RunAccept
  <2>1. /\ loop'.pc = "add" /\ UNCHANGED sess /\ backlog # <<>> /\ k = Head(backlog)
    BY <1>2, <1>3, Accepted DEF Newest
  <2>2. 1 \in DOMAIN backlog /\ backlog[1] = k
    BY ONLY <1>1, <2>1, HeadTailProperties
  <2>3. \A s \in DOMAIN sess' : sess'[s].conn # k
    BY <2>1, <2>2 DEF WaitingInv
  <2>4. QED
    BY <2>1, <2>3 DEF LoopAt
<1>4. CASE ~RunAccept
  <2>1. Newest(k) /\ tcp_sock' = tcp_sock
    BY <1>1, <1>2, <1>4, DescKept DEF Newest
  <2>2. conn[k].up
    BY <1>1, <2>1 DEF Newest, KnownInv
  <2>3. conn'[k].id = conn[k].id /\ (AtEnd(k) => AtEnd(k)')
    BY <2>2, ConnKept
  <2>4. \A s \in DOMAIN sess :
          sess[s].conn = k => sess[s].id = loop.pdu.id /\ (sess[s].id = conn[k].id \/ AtEnd(k))
    BY <2>1 DEF NewestInv
  <2>5. LoopAt("find") => loop.pdu.id = conn[k].id \/ AtEnd(k)
    BY <2>1 DEF NewestInv
  <2>6. CASE RunCreate
    <3>1. ASSUME NEW s \in DOMAIN sess', sess'[s].conn = k
          PROVE  sess'[s].id = loop.pdu.id /\ (sess'[s].id = conn[k].id \/ AtEnd(k))
      <4>1. CASE s \in DOMAIN sess
        BY <2>4, <2>6, <3>1, <4>1, Created
      <4>2. CASE s \notin DOMAIN sess
        BY <2>5, <2>6, <3>1, <4>2, Created DEF LoopAt
      <4>3. QED
        BY <4>1, <4>2
    <3>2. QED
      BY <2>3, <2>6, <3>1, Created DEF LoopAt
  <2>7. ASSUME ~RunCreate, loop'.pdu = loop.pdu,
               loop'.pc = "find" => LoopAt("find") \/ AtEnd(k)
        PROVE  /\ LoopAt("find")' => loop'.pdu.id = conn'[k].id \/ AtEnd(k)'
               /\ \A s \in DOMAIN sess' :
                    sess'[s].conn = k =>
                      /\ sess'[s].id = loop'.pdu.id
                      /\ sess'[s].id = conn'[k].id \/ AtEnd(k)'
    <3>1. LoopAt("find")' => loop'.pdu.id = conn'[k].id \/ AtEnd(k)'
      BY <2>3, <2>5, <2>7 DEF LoopAt
    <3>2. ASSUME NEW s \in DOMAIN sess', sess'[s].conn = k
          PROVE  sess'[s].id = loop'.pdu.id /\ (sess'[s].id = conn'[k].id \/ AtEnd(k)')
      <4>1. s \in DOMAIN sess
        BY <2>7, <3>2, SessionsSame
      <4>2. QED
        BY <2>3, <2>4, <2>7, <3>2, <4>1, SessionKept
    <3>3. QED
      BY <3>1, <3>2
  <2>8. CASE RunRead
    <3>1. /\ loop'.pdu.id = conn[k].id /\ UNCHANGED sess /\ conn[k].in # <<>>
      <4>1. loop \in LoopType
        BY DEF MTypeInv, MTypeOK, LoopType
      <4>2. QED
        BY <2>1, <2>8, <4>1 DEF RunRead, Newest, LoopType, sessions
    <3>2. ~AtEnd(k)
      BY <3>1 DEF AtEnd
    <3>3. QED
      BY <2>3, <2>4, <3>1, <3>2
  <2>9. CASE Run /\ ~RunCreate /\ ~RunRead
    <3>1. CASE RunPush
      <4>1. loop \in LoopType
        BY DEF MTypeInv, MTypeOK, LoopType
      <4>2. loop'.pdu = loop.pdu /\ loop'.pc = "top"
        BY <3>1, <4>1 DEF RunPush, LoopType
      <4>3. QED
        BY <2>7, <2>9, <4>2
    <3>2. CASE ~RunPush
      <4>1. loop'.pdu = loop.pdu /\ (loop'.pc = "find" => AtEof)
        BY <1>4, <2>9, <3>2, RunKeeps
      <4>2. AtEof => AtEnd(k)
        BY <2>1 DEF AtEof, AtEnd, Newest
      <4>3. QED
        BY <2>7, <2>9, <4>1, <4>2
    <3>3. QED
      BY <3>1, <3>2
  <2>10. CASE UNCHANGED loop /\ ~RunCreate
    BY <2>7, <2>10 DEF LoopAt
  <2>11. ASSUME ~Run
         PROVE  UNCHANGED loop /\ ~RunCreate
    BY <2>11, OutsideKeeps, ThreadKeeps DEF MNext, mvars, Run
  <2>12. QED
    BY <2>6, <2>8, <2>9, <2>10, <2>11
<1>5. QED
  BY <1>3, <1>4

\* What was confused stays so.
LEMMA SeparateBefore ==
    ASSUME MTypeInv, KnownInv, [MNext]_mvars, Separate'
    PROVE  Separate
<1>1. app \notin {"stop", "stopped"}
  <2>1. app' \in {"stop", "stopped"} \/ app' = app \/ app \notin {"stop", "stopped"}
    <3>1. CASE Run
      <4>1. RunAccept \/ RunRead \/ RunPush \/ RunCreate => UNCHANGED app
        BY DEF RunAccept, RunRead, RunPush, RunCreate
      <4>2. QED
        BY <3>1, <4>1, RunKeeps
    <3>2. CASE Listening \/ StopTcp \/ StopListen \/ Clients
      BY <3>2 DEF Listening, ListenSocket, ListenBind, ListenFlag, StopTcp, StopListen,
         Clients, Connect, ClientSends, ClientCloses, Datagram
    <3>3. CASE UNCHANGED mvars
      BY <3>3 DEF mvars
    <3>4. QED
      BY <3>1, <3>2, <3>3, ThreadKeeps DEF MNext
  <2>2. QED
    BY <2>1 DEF Separate
<1>2. \A s \in DOMAIN sess : sess[s].conn # 0
  BY SessionKept DEF Separate
<1>3. ASSUME NEW t \in DOMAIN thread, NEW u \in DOMAIN thread, t # u, thread[t].ss # 0
      PROVE  thread[t].ss # thread[u].ss
  <2>1. thread'[t].ss = thread[t].ss /\ t \in DOMAIN thread' /\ u \in DOMAIN thread'
    BY <1>3, ThreadKept
  <2>2. thread[u].ss = 0 \/ thread'[u].ss = thread[u].ss
    BY ThreadKept
  <2>3. QED
    BY <1>3, <2>1, <2>2 DEF Separate
<1>4. QED
  BY <1>1, <1>2, <1>3 DEF Separate

\* A thread before close() is the only one of its session, which is intact.
LEMMA Intact ==
    ASSUME KnownInv, Separate, NEW t \in DOMAIN thread, 0 \notin DOMAIN sess
    PROVE  /\ thread[t].pc \in {"run", "close"} => thread[t].ss \in DOMAIN sess /\ ~Closed(thread[t].ss)
           /\ thread[t].pc = "delete" => thread[t].ss \in DOMAIN sess /\ ~Cleared(thread[t].ss)
<1>1. ASSUME thread[t].pc # "start", NEW u \in DOMAIN thread, thread[u].ss = thread[t].ss
      PROVE  u = t
  BY <1>1 DEF KnownInv, Separate
<1>2. thread[t].pc # "start" => thread[t].ss \in DOMAIN sess
  BY DEF KnownInv
<1>3. QED
  BY <1>1, <1>2 DEF Closed, Cleared

LEMMA SeparateStep ==
    ASSUME MTypeInv, OwnInv, [MNext]_mvars
    PROVE  SeparateInv'
<1>1. SUFFICES ASSUME Separate'
               PROVE  /\ \A s \in DOMAIN sess' :
                           /\ sess'[s].fd \in Fds
                           /\ ~Closed(s)' => desc'[sess'[s].fd] = sess'[s].conn
                           /\ ~Cleared(s)' => sess'[s].mapped
                      /\ \A s, r \in DOMAIN sess' :
                           ~Closed(s)' /\ ~Closed(r)' /\ sess'[s].conn = sess'[r].conn => s = r
                      /\ \A t \in DOMAIN thread' :
                           thread'[t].pc = "erase" => thread'[t].victim = thread'[t].ss
  BY DEF SeparateInv
<1>2. KnownInv /\ NewestInv /\ Separate
  BY <1>1, SeparateBefore DEF OwnInv
<1>3. /\ \A s \in DOMAIN sess :
           /\ sess[s].fd \in Fds
           /\ ~Closed(s) => desc[sess[s].fd] = sess[s].conn
           /\ ~Cleared(s) => sess[s].mapped
      /\ \A s, r \in DOMAIN sess :
           ~Closed(s) /\ ~Closed(r) /\ sess[s].conn = sess[r].conn => s = r
      /\ \A t \in DOMAIN thread : thread[t].pc = "erase" => thread[t].victim = thread[t].ss
  BY <1>2 DEF OwnInv, SeparateInv
<1>4. sess \in Seq(SessionType) /\ desc \in [Fds -> Conns \cup {0}] /\ 0 \notin Conns
  BY DEF MTypeInv, MTypeOK, SessionType, Conns
<1>5. 0 \notin DOMAIN sess
  BY ONLY <1>4
<1>6. \A s \in DOMAIN sess : sess[s].conn # 0
  BY <1>2 DEF Separate
\* Sessions are closed and cleared for good.
<1>7. ASSUME NEW s \in DOMAIN sess
      PROVE  (Closed(s) => Closed(s)') /\ (Cleared(s) => Cleared(s)')
  <2>1. \A t \in DOMAIN thread :
          thread[t].ss = s => t \in DOMAIN thread' /\ thread'[t].ss = s
    BY <1>2, <1>5, ThreadKept
  <2>2. QED
    BY <1>2, <2>1, ThreadKept DEF Closed, Cleared
\* A session that has not closed its connection has the only one on it.
<1>8. ASSUME NEW s \in DOMAIN sess, ~Closed(s), RunCreate
      PROVE  sess[s].conn # desc[tcp_sock]
  <2>1. SUFFICES ASSUME sess[s].conn = desc[tcp_sock]
                 PROVE  FALSE
    OBVIOUS
  <2>2. tcp_sock \in Fds /\ Found(loop.pdu.id) = {}
    BY <1>8, Created
  <2>3. Newest(desc[tcp_sock]) /\ desc[tcp_sock] \in Conns
    BY <1>4, <1>6, <2>1, <2>2 DEF Newest
  <2>4. sess[s].id = loop.pdu.id
    BY <1>2, <2>1, <2>3 DEF NewestInv
  <2>5. sess[s].mapped
    BY <1>3, <1>8 DEF Closed, Cleared
  <2>6. QED
    BY <2>2, <2>4, <2>5 DEF Found
<1>9. ASSUME NEW s \in DOMAIN sess'
      PROVE  sess'[s].fd \in Fds
  BY <1>3, <1>9, SessionKept, SessionsSame, Created
<1>10. ASSUME NEW s \in DOMAIN sess', ~Closed(s)'
       PROVE  desc'[sess'[s].fd] = sess'[s].conn
  <2>1. CASE s \notin DOMAIN sess
    BY <1>10, <2>1, SessionsSame, Created
  <2>2. CASE s \in DOMAIN sess
    <3>1. /\ sess'[s].fd = sess[s].fd /\ sess'[s].conn = sess[s].conn
          /\ sess[s].fd \in Fds /\ desc[sess[s].fd] = sess[s].conn /\ ~Closed(s)
      BY <1>3, <1>7, <1>10, <2>2, SessionKept
    <3>2. CASE RunAccept
      BY <1>6, <2>2, <3>1, <3>2, Accepted
    <3>3. ASSUME NEW t \in Sessions, ThreadClose(t)
          PROVE  desc'[sess[s].fd] = desc[sess[s].fd]
      <4> DEFINE r == thread[t].ss
      <4>1. /\ t \in DOMAIN thread /\ thread[t].pc = "close"
            /\ thread' = [thread EXCEPT ![t] = To(t, "delete")]
            /\ desc' = [desc EXCEPT ![sess[r].fd] = 0]
        BY <3>3 DEF ThreadClose, ThreadStep, Self
      <4>2. r \in DOMAIN sess /\ ~Closed(r)
        BY <1>2, <1>5, <4>1, Intact
      <4>3. thread[t] \in ThreadType
        <5>1. thread \in Seq(ThreadType)
          BY DEF MTypeInv, MTypeOK, ThreadType
        <5>2. QED
          BY ONLY <4>1, <5>1, ElementOfSeq
      <4>4. s # r
        <5>1. SUFFICES ASSUME s = thread[t].ss
                       PROVE  Closed(s)'
          BY <1>10
        <5>2. thread'[t].ss = s /\ thread'[t].pc = "delete" /\ t \in DOMAIN thread'
          BY <4>1, <4>3, <5>1 DEF To, ThreadType
        <5>3. QED
          BY <5>2 DEF Closed
      <4>5. sess[r].fd # sess[s].fd
        BY <1>3, <2>2, <3>1, <4>2, <4>4
      <4> HIDE DEF r
      <4>6. QED
        BY <4>1, <4>5
    <3>4. CASE UNCHANGED desc
      BY <3>1, <3>4
    <3>5. ASSUME NEW t \in Sessions, ThreadStart(t) \/ ThreadEnd(t) \/ Clearing(t),
                 ~ThreadClose(t)
          PROVE  UNCHANGED desc
      BY <3>5 DEF ThreadStart, ThreadEnd, Clearing, ThreadDelete, ThreadFindsNone,
         ThreadErase, ThreadCheck, ThreadDrop
    <3>6. CASE Run /\ ~RunAccept
      <4>1. RunRead \/ RunPush \/ RunCreate => UNCHANGED desc
        BY DEF RunRead, RunPush, RunCreate, kernel
      <4>2. QED
        BY <3>4, <3>6, <4>1, RunKeeps
    <3>7. ~StopTcp
      BY <1>1 DEF StopTcp, Separate
    <3>8. CASE Listening \/ StopListen \/ Clients \/ UNCHANGED mvars
      BY <3>4, <3>8 DEF Listening, ListenSocket, ListenBind, ListenFlag, StopListen,
         Clients, Connect, ClientSends, ClientCloses, Datagram, kernel, mvars
    <3>9. QED
      BY <3>1, <3>2, <3>3, <3>4, <3>5, <3>6, <3>7, <3>8 DEF MNext
  <2>3. QED
    BY <2>1, <2>2
<1>11. ASSUME NEW s \in DOMAIN sess', ~Cleared(s)'
       PROVE  sess'[s].mapped
  <2>1. CASE s \notin DOMAIN sess
    BY <1>11, <2>1, SessionsSame, Created
  <2>2. CASE s \in DOMAIN sess
    <3>1. sess[s].mapped
      BY <1>3, <1>7, <1>11, <2>2
    <3>2. ASSUME NEW t \in Sessions, ThreadErase(t), thread[t].victim = s
          PROVE  Cleared(s)'
      <4>1. t \in DOMAIN thread /\ thread[t].pc = "erase"
            /\ thread' = [thread EXCEPT ![t] = [thread[t] EXCEPT !.pc = "check", !.victim = 0]]
        BY <3>2 DEF ThreadErase, ThreadStep
      <4>2. thread[t].ss = s
        BY <1>3, <3>2, <4>1
      <4>3. thread[t] \in ThreadType
        <5>1. thread \in Seq(ThreadType)
          BY DEF MTypeInv, MTypeOK, ThreadType
        <5>2. QED
          BY ONLY <4>1, <5>1, ElementOfSeq
      <4>4. thread'[t].ss = s /\ thread'[t].pc = "check" /\ t \in DOMAIN thread'
        BY <4>1, <4>2, <4>3 DEF ThreadType
      <4>5. QED
        BY <4>4 DEF Cleared
    <3>3. QED
      BY <1>11, <2>2, <3>1, <3>2, SessionKept
  <2>3. QED
    BY <2>1, <2>2
<1>12. ASSUME NEW s \in DOMAIN sess', NEW r \in DOMAIN sess',
              ~Closed(s)', ~Closed(r)', sess'[s].conn = sess'[r].conn
       PROVE  s = r
  <2>1. CASE s \in DOMAIN sess /\ r \in DOMAIN sess
    BY <1>3, <1>7, <1>12, <2>1, SessionKept
  <2>2. CASE ~(s \in DOMAIN sess /\ r \in DOMAIN sess)
    <3>1. RunCreate
      BY <1>12, <2>2, SessionsSame
    <3>2. \A x \in DOMAIN sess : ~Closed(x)' => sess'[x].conn # desc[tcp_sock]
      BY <1>7, <1>8, <3>1, Created
    <3>3. QED
      BY <1>12, <2>2, <3>1, <3>2, Created
  <2>3. QED
    BY <2>1, <2>2
<1>13. ASSUME NEW t \in DOMAIN thread', thread'[t].pc = "erase"
       PROVE  thread'[t].victim = thread'[t].ss
  <2>1. CASE t \in DOMAIN thread /\ thread'[t] = thread[t]
    BY <1>3, <1>13, <2>1
  <2>2. CASE RunCreate
    <3>1. PICK m : /\ DOMAIN thread' = DOMAIN thread \cup {m}
                   /\ \A u \in DOMAIN thread : thread'[u] = thread[u]
                   /\ thread'[m].pc = "start"
      BY <2>2, Created
    <3>2. QED
      BY <1>13, <2>1, <3>1
  <2>3. CASE ~RunCreate
    <3>1. t \in DOMAIN thread
      BY <1>13, <2>3, SessionsSame
    <3>2. ASSUME NEW u \in Sessions, ThreadStart(u) \/ ThreadEnd(u) \/ Clearing(u)
          PROVE  thread'[t].victim = thread'[t].ss
      <4>1. CASE t # u
        BY <2>1, <3>1, <3>2, <4>1, ThreadKeeps
      <4>2. CASE t = u
        <5>1. ThreadDelete(t)
          BY <1>13, <3>2, <4>2, ThreadMoves
        <5>2. PICK s \in Found(Self(t).id) :
                /\ thread[t].pc = "delete"
                /\ thread' = [thread EXCEPT ![t] = [thread[t] EXCEPT !.pc = "erase", !.victim = s]]
          BY <5>1 DEF ThreadDelete, ThreadStep
        <5>3. thread[t].ss \in DOMAIN sess /\ sess[thread[t].ss].mapped
          BY <1>2, <1>3, <1>5, <3>1, <5>2, Intact
        <5>4. s = thread[t].ss
          BY <1>2, <5>2, <5>3 DEF Found, Self, KnownInv
        <5>5. thread[t] \in ThreadType
          <6>1. thread \in Seq(ThreadType)
            BY DEF MTypeInv, MTypeOK, ThreadType
          <6>2. QED
            BY ONLY <3>1, <6>1, ElementOfSeq
        <5>6. QED
          BY <3>1, <5>2, <5>4, <5>5 DEF ThreadType
      <4>3. QED
        BY <4>1, <4>2
    <3>3. CASE Run \/ Listening \/ StopTcp \/ StopListen \/ Clients \/ UNCHANGED mvars
      <4>1. RunAccept \/ RunRead \/ RunPush => UNCHANGED thread
        BY DEF RunAccept, RunRead, RunPush, sessions
      <4>2. UNCHANGED thread
        BY <2>3, <3>3, <4>1, RunKeeps, OutsideKeeps DEF mvars
      <4>3. QED
        BY <2>1, <3>1, <4>2
    <3>4. QED
      BY <3>2, <3>3 DEF MNext
  <2>4. QED
    BY <2>2, <2>3
<1>14. QED
  BY <1>9, <1>10, <1>11, <1>12, <1>13

LEMMA OwnInit == MInit => OwnInv
<1> SUFFICES ASSUME MInit
             PROVE  OwnInv
  OBVIOUS
<1>1. DOMAIN sess = {} /\ DOMAIN thread = {} /\ DOMAIN backlog = {}
  BY DEF MInit
<1>2. \A f \in Fds : desc[f] = 0
  BY DEF MInit
<1>3. tcp_sock \notin Fds
  BY SocketsApart DEF MInit
<1>4. QED
  BY <1>1, <1>2, <1>3 DEF OwnInv, KnownInv, WaitingInv, NewestInv, SeparateInv, Newest

\* As long as nothing was confused, a session keeps the connection it was made
\* for until its own thread closes it: whatever ids the clients choose, however
\* often descriptors are used again and requests handled again, and whichever
\* sessions end at the same time (Server.cpp:295, 396, 434-446,
\* ServerSession.cpp:307).
THEOREM OwnConnectionCorrect == MSpec => []OwnConnection
<1>1. MTypeInv /\ OwnInv /\ [MNext]_mvars => OwnInv'
  BY KnownStep, WaitingStep, NewestStep, SeparateStep DEF OwnInv
<1>2. MSpec => [](MTypeInv /\ OwnInv)
  BY <1>1, MTypeInit, MTypeStep, OwnInit, PTL DEF MSpec
<1>3. MTypeInv /\ OwnInv => OwnConnection
  <2>1. SUFFICES ASSUME MTypeInv, OwnInv, Separate, NEW t \in DOMAIN thread,
                        thread[t].pc \in {"run", "close"}
                 PROVE  desc[Self(t).fd] = Self(t).conn
    BY DEF OwnConnection
  <2>2. 0 \notin DOMAIN sess
    <3>1. sess \in Seq(SessionType)
      BY <2>1 DEF MTypeInv, MTypeOK, SessionType
    <3>2. QED
      BY ONLY <3>1
  <2>3. thread[t].ss \in DOMAIN sess /\ ~Closed(thread[t].ss)
    BY <2>1, <2>2, Intact DEF OwnInv
  <2>4. QED
    BY <2>1, <2>3 DEF OwnInv, SeparateInv, Self
<1>4. QED
  BY <1>2, <1>3, PTL

=============================================================================
