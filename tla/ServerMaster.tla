------------------------------ MODULE ServerMaster ------------------------------
(***************************************************************************)
(* The run loop of ServerMaster (Server.cpp) with everything that shares   *)
(* its state:                                                              *)
(*   - the loop's thread, which waits in select, answers discoveries,      *)
(*     accepts connections, reads PDUs and distributes them;               *)
(*   - the application's thread, which calls listen_negotiate and          *)
(*     stop_negotiate;                                                     *)
(*   - one thread per session, of which only the end matters here:         *)
(*     close_tcp and clear_when_session_end, which change ss_map and the   *)
(*     connection table without a lock.                                    *)
(* What a session does before it ends is the module ServerSession.         *)
(*                                                                         *)
(* Descriptors of connections are numbers from 1, given out lowest first   *)
(* and used again after close, as the kernel does.                         *)
(***************************************************************************)
EXTENDS Integers, Sequences, FiniteSets

CONSTANTS
    Ids,                \* session ids; two clients may choose the same
    MaxConns,           \* bound: connections made
    MaxDatagrams,       \* bound: datagrams sent to the server
    MaxStale,           \* bound: requests decoded a second time at end of file
    MaxPdus,            \* bound: PDUs a client sends
    MaxCloses,          \* bound: connections closed by their client
    Stops,              \* bound: whether the application calls stop_negotiate
    MAX_CLIENTS_NUM

ASSUME MasterAssumption ==
    /\ Ids # {}
    /\ MaxConns \in Nat \ {0}
    /\ MaxDatagrams \in Nat
    /\ MaxStale \in Nat
    /\ MaxPdus \in Nat
    /\ MaxCloses \in Nat
    /\ Stops \in BOOLEAN
    /\ MAX_CLIENTS_NUM \in Nat \ {0}

VARIABLES
    listen_sock,    \* none (-1), or what the socket it names is
    tcp_sock,       \* the connection accepted last
    tcp_fd_set,     \* the connection table; 0: an entry not written yet
    tcp_accepted,   \* number of entries in it
    read_flags,     \* descriptors given to select, then those it returned
    fdset_lock,     \* free, or held by the run loop
    loop,           \* the run loop: where it is, and its locals
    parm,           \* the session in distribute()'s local session_run_parms
    app,            \* where the application's thread is
    sess,           \* the ServerSession objects made so far, with their place
                    \* in ss_map and in their queue
    thread,         \* their threads
    desc,           \* the connection a descriptor is open for; 0: closed
    conn,           \* the connections, as their clients see them
    backlog,        \* connections not yet accepted
    udp             \* datagrams sent and received so far

mvars == <<listen_sock, tcp_sock, tcp_fd_set, tcp_accepted, read_flags,
           fdset_lock, loop, parm, app, sess, thread, desc, conn, backlog, udp>>

select_vars == <<read_flags, fdset_lock>>

table == <<tcp_fd_set, tcp_accepted>>

sessions == <<parm, sess, thread>>

kernel == <<desc, conn, backlog, udp>>

Conns == 1 .. MaxConns
Sessions == 1 .. (MaxConns + MaxStale)
Slots == 0 .. (MAX_CLIENTS_NUM - 1)

(***************************************************************************)
(* Descriptors: one per connection at most, the two sockets, and -1, what  *)
(* accept returns when it fails.                                           *)
(***************************************************************************)
Fds == 1 .. MaxConns
Udp == MaxConns + 1
Listen == MaxConns + 2

PduTypes == {"REQUEST_MSG", "NEGO_MSG"}

SomeId == CHOOSE id \in Ids : TRUE

LoopPCs == {"top", "select", "test", "udp", "accept", "wait", "add", "entry",
            "count", "read", "find", "push"}

ThreadPCs == {"start", "run", "close", "delete", "erase", "check", "drop", "done"}

MTypeOK ==
    /\ listen_sock \in {"none", "unready", "ready", "closed"}
    /\ tcp_sock \in Fds \cup {-1}
    /\ tcp_fd_set \in [Slots -> Fds \cup {-1, 0}]
    /\ tcp_accepted \in Int /\ tcp_accepted <= MAX_CLIENTS_NUM
    /\ read_flags \subseteq Fds \cup {Udp, Listen, -1, 0}
    /\ fdset_lock \in {"free", "run"}
    /\ loop \in [pc : LoopPCs, slot : Int,
                 pdu : [type : PduTypes \cup {"none"}, id : Ids],
                 target : Nat, stale : 0 .. MaxStale]
    /\ parm \in Nat
    /\ app \in {"socket", "bind", "flag", "up", "stop", "stopped"}
    /\ sess \in Seq([id : Ids, fd : Fds \cup {-1}, conn : Conns \cup {0},
                     live : BOOLEAN, mapped : BOOLEAN, queue : SUBSET PduTypes])
    /\ thread \in Seq([pc : ThreadPCs, ss : Nat, victim : Nat, i : Nat, seen : Int])
    /\ desc \in [Fds -> Conns \cup {0}]
    /\ conn \in [Conns -> [id : Ids, sent : 0 .. MaxPdus, in : Seq(PduTypes),
                           eof : BOOLEAN, up : BOOLEAN]]
    /\ backlog \in Seq(Conns)
    /\ udp \in [sent : 0 .. MaxDatagrams, received : 0 .. MaxDatagrams]

\* After server_init: the loop's thread has started, nobody listens for
\* connections.
MInit ==
    /\ listen_sock = "none"
    /\ tcp_sock = -1
    /\ tcp_fd_set = [i \in Slots |-> 0]
    /\ tcp_accepted = 0
    /\ read_flags = {Udp}
    /\ fdset_lock = "free"
    /\ loop = [pc |-> "top", slot |-> 0, target |-> 0, stale |-> 0,
               pdu |-> [type |-> "none", id |-> SomeId]]
    /\ parm = 0
    /\ app = "socket"
    /\ sess = <<>>
    /\ thread = <<>>
    /\ desc = [f \in Fds |-> 0]
    /\ conn = [k \in Conns |-> [id |-> SomeId, sent |-> 0, in |-> <<>>,
                                eof |-> FALSE, up |-> FALSE]]
    /\ backlog = <<>>
    /\ udp = [sent |-> 0, received |-> 0]

-----------------------------------------------------------------------------
(* The application's thread.                                               *)

\* listen_negotiate: socket().  Until bind and listen have succeeded the
\* kernel reports the socket as readable (hang-up).
ListenSocket ==
    /\ app = "socket" /\ app' = "bind"
    /\ listen_sock' = "unready"
    /\ UNCHANGED <<tcp_sock, loop, select_vars, table, sessions, kernel>>

\* server_tcp_init under fdset_lock; bind fails when the port is taken.
ListenBind ==
    /\ app = "bind" /\ app' = "flag"
    /\ fdset_lock = "free"
    /\ listen_sock' \in {"ready", "unready"}
    /\ UNCHANGED <<tcp_sock, loop, select_vars, table, sessions, kernel>>

\* FD_SET, without the lock.
ListenFlag ==
    /\ app = "flag" /\ app' = "up"
    /\ read_flags' = read_flags \cup {Listen}
    /\ UNCHANGED <<listen_sock, tcp_sock, fdset_lock, loop, table, sessions,
                   kernel>>

\* stop_negotiate: close_tcp on the connection accepted last, then
StopTcp ==
    /\ Stops
    /\ app = "up" /\ app' = "stop"
    /\ desc' = [f \in Fds |-> IF f = tcp_sock THEN 0 ELSE desc[f]]
    /\ UNCHANGED <<listen_sock, tcp_sock, loop, select_vars, table, sessions,
                   conn, backlog, udp>>

\* ... close(listen_sock); the variable keeps the number.
StopListen ==
    /\ app = "stop" /\ app' = "stopped"
    /\ listen_sock' = "closed"
    /\ backlog' = <<>>
    /\ UNCHANGED <<tcp_sock, loop, select_vars, table, sessions, desc, conn, udp>>

-----------------------------------------------------------------------------
(* The run loop: select.                                                   *)

InTable == {tcp_fd_set[i] : i \in 0 .. (tcp_accepted - 1)}

\* FD_SET of -1 sets the bit of a descriptor that is not open.
Open(d) ==
    \/ d = Udp
    \/ d = Listen /\ listen_sock # "closed"
    \/ d \in Fds /\ desc[d] # 0

Ready(d) ==
    \/ d = Udp /\ udp.received < udp.sent
    \/ d = Listen /\ (listen_sock = "unready" \/ backlog # <<>>)
    \/ d \in Fds /\ (conn[desc[d]].in # <<>> \/ conn[desc[d]].eof)

LoopAt(pc) == loop.pc = pc

LoopGoto(pc) == loop' = [loop EXCEPT !.pc = pc]

\* Mutant: the loop over the table starts at 1.
LockSkipsFirst ==
    /\ LoopAt("top") /\ LoopGoto("select")
    /\ fdset_lock = "free" /\ fdset_lock' = "run"
    /\ read_flags' = {Udp} \cup {tcp_fd_set[i] : i \in 1 .. (tcp_accepted - 1)}
                       \cup (IF listen_sock # "none" THEN {Listen} ELSE {})
    /\ UNCHANGED <<listen_sock, tcp_sock, table, app, sessions, kernel>>

\* pthread_mutex_lock and the FD_SETs.
RunLock ==
    /\ LoopAt("top") /\ LoopGoto("select")
    /\ fdset_lock = "free" /\ fdset_lock' = "run"
    /\ read_flags' = {Udp} \cup InTable
                       \cup (IF listen_sock # "none" THEN {Listen} ELSE {})
    /\ UNCHANGED <<listen_sock, tcp_sock, table, app, sessions, kernel>>

\* What an unwritten entry of the table may add to the descriptors that are
\* ready: whatever number it holds, of a connection or of something else.
Strays ==
    IF 0 \in read_flags THEN SUBSET ({0} \cup {d \in Fds : Open(d) /\ Ready(d)})
                        ELSE {{}}

\* select returns and the lock is released: a timeout when nothing is ready, or
\* an error when a descriptor is not open, and the loop starts again; else the
\* descriptors that are ready.  (Nobody looks at the flags an error leaves.)
RunSelect ==
    /\ LoopAt("select")
    /\ fdset_lock' = "free"
    /\ \/ /\ \A d \in read_flags \ {0} : Open(d)
          /\ \E stray \in Strays :
               read_flags' = {d \in read_flags \ {0} : Ready(d)} \cup stray
       \/ (\E d \in read_flags : ~Open(d)) /\ read_flags' = {}
    /\ LoopGoto(IF read_flags' = {} THEN "top" ELSE "test")
    /\ UNCHANGED <<listen_sock, tcp_sock, table, app, sessions, kernel>>

(***************************************************************************)
(* The loop locks again and takes one of three branches, each of which     *)
(* unlocks first.  Nobody looks at the flags after that.                   *)
(***************************************************************************)
RunTest(branch) ==
    /\ LoopAt("test") /\ LoopGoto(branch)
    /\ fdset_lock = "free"
    /\ read_flags' = {}
    /\ UNCHANGED <<listen_sock, tcp_sock, fdset_lock, table, app, sessions, kernel>>

\* Mutant: the listening socket is tested before the UDP socket.
TestListenFirst == Udp \in read_flags /\ Listen \notin read_flags /\ RunTest("udp")

RunTestUdp == Udp \in read_flags /\ RunTest("udp")

\* Mutant: one connection more than the table holds.
TestListenOffByOne ==
    /\ Udp \notin read_flags /\ Listen \in read_flags
    /\ RunTest(IF tcp_accepted <= MAX_CLIENTS_NUM THEN "accept" ELSE "top")

RunTestListen ==
    /\ Udp \notin read_flags /\ Listen \in read_flags
    /\ RunTest(IF tcp_accepted < MAX_CLIENTS_NUM THEN "accept" ELSE "top")

\* Mutant: reads without looking at the flags.
TestTcpUnflagged ==
    /\ {Udp, Listen} \cap read_flags = {} /\ tcp_sock # -1
    /\ RunTest("read")

RunTestTcp ==
    /\ {Udp, Listen} \cap read_flags = {} /\ tcp_sock \in read_flags \ {-1}
    /\ RunTest("read")

\* No branch: the loop starts again with the lock held.
RunTestNone ==
    /\ LoopAt("test") /\ LoopGoto("top")
    /\ read_flags \cap ({Udp, Listen, tcp_sock} \ {-1}) = {}
    /\ fdset_lock = "free" /\ fdset_lock' = "run"
    /\ read_flags' = {}
    /\ UNCHANGED <<listen_sock, tcp_sock, table, app, sessions, kernel>>

-----------------------------------------------------------------------------
(* The run loop: the branches.                                             *)

\* recv_pdu on the non-blocking socket; a DISCOVERY_MSG is answered.
RunUdp ==
    /\ LoopAt("udp") /\ LoopGoto("top")
    /\ udp' = IF udp.received < udp.sent THEN [udp EXCEPT !.received = @ + 1] ELSE udp
    /\ UNCHANGED <<listen_sock, tcp_sock, select_vars, table, app, sessions,
                   desc, conn, backlog>>

LowestFree(f) == desc[f] = 0 /\ \A g \in 1 .. (f - 1) : desc[g] # 0

\* accept takes the connection that waits longest.  `tcp_accepted++' reads
\* here and writes in RunAddCount.
RunAccept ==
    /\ LoopAt("wait") \/ (LoopAt("accept") /\ listen_sock = "ready")
    /\ backlog # <<>>
    /\ loop' = [loop EXCEPT !.pc = "add", !.slot = tcp_accepted]
    /\ \E f \in Fds :
         /\ LowestFree(f)
         /\ tcp_sock' = f
         /\ desc' = [desc EXCEPT ![f] = Head(backlog)]
    /\ backlog' = Tail(backlog)
    /\ UNCHANGED <<listen_sock, select_vars, table, app, sessions, conn, udp>>

\* The listening socket blocks, also when it is closed meanwhile.
RunAcceptWaits ==
    /\ LoopAt("accept") /\ LoopGoto("wait")
    /\ listen_sock = "ready" /\ backlog = <<>>
    /\ UNCHANGED <<listen_sock, tcp_sock, select_vars, table, app, sessions, kernel>>

\* On a socket that does not listen accept fails, and nobody tests that.
RunAcceptFails ==
    /\ LoopAt("accept")
    /\ listen_sock # "ready"
    /\ loop' = [loop EXCEPT !.pc = "add", !.slot = tcp_accepted]
    /\ tcp_sock' = -1
    /\ UNCHANGED <<listen_sock, select_vars, table, app, sessions, kernel>>

(***************************************************************************)
(* `tcp_fd_set[tcp_accepted++] = tcp_sock' stores the entry and the count, *)
(* in an order the compiler chooses.  When threads have taken off too much *)
(* the slot is negative, and the entry falls on a member nobody reads.     *)
(***************************************************************************)
RunAddEntry ==
    /\ LoopAt("add") \/ LoopAt("entry")
    /\ loop' = IF LoopAt("add") THEN [loop EXCEPT !.pc = "count"]
                                ELSE [loop EXCEPT !.pc = "top", !.slot = 0]
    /\ tcp_fd_set' = [i \in Slots |-> IF i = loop.slot THEN tcp_sock ELSE tcp_fd_set[i]]
    /\ UNCHANGED <<listen_sock, tcp_sock, tcp_accepted, select_vars, app, sessions,
                   kernel>>

RunAddCount ==
    /\ LoopAt("add") \/ LoopAt("count")
    /\ loop' = IF LoopAt("add") THEN [loop EXCEPT !.pc = "entry"]
                                ELSE [loop EXCEPT !.pc = "top", !.slot = 0]
    /\ tcp_accepted' = loop.slot + 1
    /\ UNCHANGED <<listen_sock, tcp_sock, tcp_fd_set, select_vars, app, sessions,
                   kernel>>

\* read_pdu on tcp_sock, which a session or stop_negotiate may have closed
\* since select returned.
RunRead ==
    LET k == desc[tcp_sock] IN
    /\ LoopAt("read")
    /\ k # 0 /\ conn[k].in # <<>>
    /\ loop' = [loop EXCEPT !.pc = "find",
                            !.pdu = [type |-> Head(conn[k].in), id |-> conn[k].id]]
    /\ conn' = [conn EXCEPT ![k].in = Tail(@)]
    /\ UNCHANGED <<listen_sock, tcp_sock, select_vars, table, app, sessions,
                   desc, backlog, udp>>

AtEof == desc[tcp_sock] # 0 /\ conn[desc[tcp_sock]].in = <<>> /\ conn[desc[tcp_sock]].eof

\* Mutant: closes the connection at end of file.
ReadFailsCloses ==
    /\ LoopAt("read") /\ LoopGoto("top")
    /\ desc[tcp_sock] = 0 \/ AtEof
    /\ desc' = [desc EXCEPT ![tcp_sock] = 0]
    /\ UNCHANGED <<listen_sock, tcp_sock, select_vars, table, app, sessions, conn,
                   backlog, udp>>

RunReadFails ==
    /\ LoopAt("read") /\ LoopGoto("top")
    /\ desc[tcp_sock] = 0 \/ AtEof
    /\ UNCHANGED <<listen_sock, tcp_sock, select_vars, table, app, sessions, kernel>>

\* At end of file read returns 0, and pdu_buf holds the PDU read before (here)
\* or nothing decode() knows (RunReadFails).
RunReadStale ==
    /\ LoopAt("read")
    /\ AtEof /\ loop.pdu.type # "none"
    /\ LET again == loop.stale + (IF loop.pdu.type = "REQUEST_MSG" THEN 1 ELSE 0) IN
       /\ again <= MaxStale
       /\ loop' = [loop EXCEPT !.pc = "find", !.stale = again]
    /\ UNCHANGED <<listen_sock, tcp_sock, select_vars, table, app, sessions, kernel>>

-----------------------------------------------------------------------------
(* distribute().                                                           *)

Found(id) == {s \in DOMAIN sess : sess[s].mapped /\ sess[s].id = id}

\* An old session should not send REQUEST_MSG; a new one must begin with it.
RunDrop ==
    /\ LoopAt("find") /\ LoopGoto("top")
    /\ (loop.pdu.type = "REQUEST_MSG") <=> (Found(loop.pdu.id) # {})
    /\ UNCHANGED <<listen_sock, tcp_sock, select_vars, table, app, sessions, kernel>>

RunFind ==
    /\ LoopAt("find") /\ loop.pdu.type # "REQUEST_MSG"
    /\ \E s \in Found(loop.pdu.id) :
          loop' = [loop EXCEPT !.pc = "push", !.target = s]
    /\ UNCHANGED <<listen_sock, tcp_sock, select_vars, table, app, sessions, kernel>>

\* queue_push through the iterator, whatever has become of the session.
RunPush ==
    /\ LoopAt("push")
    /\ loop' = [loop EXCEPT !.pc = "top", !.target = 0]
    /\ sess' = [sess EXCEPT ![loop.target].queue = @ \cup {loop.pdu.type}]
    /\ UNCHANGED <<listen_sock, tcp_sock, select_vars, table, parm, thread, app, kernel>>

\* A new session on tcp_sock, whatever tcp_sock is by now, and its thread.
RunCreate ==
    /\ LoopAt("find") /\ LoopGoto("top")
    /\ loop.pdu.type = "REQUEST_MSG" /\ Found(loop.pdu.id) = {}
    /\ sess' = Append(sess, [id |-> loop.pdu.id, fd |-> tcp_sock,
                             conn |-> desc[tcp_sock], live |-> TRUE,
                             mapped |-> TRUE, queue |-> {"REQUEST_MSG"}])
    /\ parm' = Len(sess) + 1
    /\ thread' = Append(thread, [pc |-> "start", ss |-> 0, victim |-> 0,
                                 i |-> 0, seen |-> 0])
    /\ UNCHANGED <<listen_sock, tcp_sock, select_vars, table, app, kernel>>

-----------------------------------------------------------------------------
(* The session threads.                                                    *)

ThreadStep(t, from, to) ==
    /\ t \in DOMAIN thread
    /\ thread[t].pc = from
    /\ thread' = [thread EXCEPT ![t] = to]
    /\ UNCHANGED <<listen_sock, tcp_sock, select_vars, loop, parm, app, conn,
                   backlog, udp>>

To(t, pc) == [thread[t] EXCEPT !.pc = pc]

Self(t) == sess[thread[t].ss]

(***************************************************************************)
(* run_help reads the parameters where distribute() left them: on the      *)
(* stack of the run loop, which may have called distribute() again.        *)
(***************************************************************************)
ThreadStart(t) ==
    /\ ThreadStep(t, "start", [thread[t] EXCEPT !.pc = "run", !.ss = parm])
    /\ UNCHANGED <<sess, table, desc>>

\* The session has ended, if it does (see ServerSession).
ThreadEnd(t) ==
    /\ ThreadStep(t, "run", To(t, "close"))
    /\ UNCHANGED <<sess, table, desc>>

\* close_tcp.
ThreadClose(t) ==
    /\ ThreadStep(t, "close", To(t, "delete"))
    /\ desc' = [desc EXCEPT ![Self(t).fd] = 0]
    /\ UNCHANGED <<sess, table>>

\* clear_when_session_end: look the id up, delete what is found,
ThreadDelete(t) ==
    /\ t \in DOMAIN thread /\ thread[t].pc = "delete"
    /\ \E s \in Found(Self(t).id) :
         /\ ThreadStep(t, "delete", [thread[t] EXCEPT !.pc = "erase", !.victim = s])
         /\ sess' = [sess EXCEPT ![s].live = FALSE]
    /\ UNCHANGED <<table, desc>>

\* Mutant: the search may stop before the end of the map.
FindsNoneEarly(t) ==
    /\ ThreadStep(t, "delete", To(t, "check"))
    /\ UNCHANGED <<sess, table, desc>>

ThreadFindsNone(t) ==
    /\ ThreadStep(t, "delete", To(t, "check"))
    /\ Found(Self(t).id) = {}
    /\ UNCHANGED <<sess, table, desc>>

\* Mutant: erases the entry of the thread's session, not the one it found.
ErasesOwn(t) ==
    /\ ThreadStep(t, "erase", [thread[t] EXCEPT !.pc = "check", !.victim = 0])
    /\ sess' = [sess EXCEPT ![thread[t].ss].mapped = FALSE]
    /\ UNCHANGED <<table, desc>>

\* ... and erase it from the map;
ThreadErase(t) ==
    /\ ThreadStep(t, "erase", [thread[t] EXCEPT !.pc = "check", !.victim = 0])
    /\ sess' = [sess EXCEPT ![thread[t].victim].mapped = FALSE]
    /\ UNCHANGED <<table, desc>>

\* then loop over the connection table: the test,
ThreadCheck(t) ==
    /\ ThreadStep(t, "check",
         IF thread[t].i < tcp_accepted
         THEN [thread[t] EXCEPT !.pc = "drop", !.seen = tcp_accepted]
         ELSE [thread[t] EXCEPT !.pc = "done", !.i = 0])
    /\ UNCHANGED <<sess, table, desc>>

\* The table with the entries from i on moved down by one.
Shifted(i) ==
    [j \in Slots |-> IF i <= j /\ j < tcp_accepted - 1 THEN tcp_fd_set[j + 1]
                                                      ELSE tcp_fd_set[j]]

\* ... and the body: if the entry is this session's descriptor (an unwritten one
\* may be any) those above it move down.  Every turn takes one off tcp_accepted,
\* which no lock protects: a turn of another thread in between may be overwritten.
ThreadDrop(t) ==
    /\ ThreadStep(t, "drop", [thread[t] EXCEPT !.pc = "check", !.i = @ + 1, !.seen = 0])
    /\ \/ /\ tcp_fd_set[thread[t].i] \in {Self(t).fd, 0}
          /\ tcp_fd_set' = Shifted(thread[t].i)
       \/ /\ tcp_fd_set[thread[t].i] # Self(t).fd
          /\ UNCHANGED tcp_fd_set
    /\ tcp_accepted' \in {tcp_accepted - 1, thread[t].seen - 1}
    /\ UNCHANGED <<sess, desc>>

Clearing(t) ==
    \/ ThreadClose(t) \/ ThreadDelete(t) \/ ThreadFindsNone(t) \/ ThreadErase(t)
    \/ ThreadCheck(t) \/ ThreadDrop(t)

-----------------------------------------------------------------------------
(* The clients.                                                            *)

Connect(k, id) ==
    /\ listen_sock = "ready"
    /\ ~conn[k].up /\ \A j \in 1 .. (k - 1) : conn[j].up
    /\ conn' = [conn EXCEPT ![k].up = TRUE, ![k].id = id]
    /\ backlog' = Append(backlog, k)
    /\ UNCHANGED <<listen_sock, tcp_sock, select_vars, loop, table, app,
                   sessions, desc, udp>>

\* First the request, then a counterproposal to a session that can have
\* answered.
ClientSends(k) ==
    /\ conn[k].up /\ ~conn[k].eof
    /\ conn[k].sent < MaxPdus
    /\ conn[k].sent = 0 \/ \E s \in DOMAIN sess : sess[s].conn = k
    /\ conn' = [conn EXCEPT
                  ![k].sent = @ + 1,
                  ![k].in = Append(@, IF conn[k].sent = 0 THEN "REQUEST_MSG"
                                                          ELSE "NEGO_MSG")]
    /\ UNCHANGED <<listen_sock, tcp_sock, select_vars, loop, table, app,
                   sessions, desc, backlog, udp>>

ClientCloses(k) ==
    /\ conn[k].up /\ ~conn[k].eof
    /\ Cardinality({j \in Conns : conn[j].eof}) < MaxCloses
    /\ conn' = [conn EXCEPT ![k].eof = TRUE]
    /\ UNCHANGED <<listen_sock, tcp_sock, select_vars, loop, table, app,
                   sessions, desc, backlog, udp>>

Datagram ==
    /\ udp.sent < MaxDatagrams
    /\ udp' = [udp EXCEPT !.sent = @ + 1]
    /\ UNCHANGED <<listen_sock, tcp_sock, select_vars, loop, table, app,
                   sessions, desc, conn, backlog>>

-----------------------------------------------------------------------------
Run ==
    \/ RunLock \/ RunSelect
    \/ RunTestUdp \/ RunTestListen \/ RunTestTcp \/ RunTestNone
    \/ RunUdp \/ RunAccept \/ RunAcceptWaits \/ RunAcceptFails
    \/ RunAddEntry \/ RunAddCount
    \/ RunRead \/ RunReadFails \/ RunReadStale
    \/ RunDrop \/ RunFind \/ RunPush \/ RunCreate

Listening == ListenSocket \/ ListenBind \/ ListenFlag

Clients ==
    \/ \E k \in Conns :
         (\E id \in Ids : Connect(k, id)) \/ ClientSends(k) \/ ClientCloses(k)
    \/ Datagram

MNext ==
    \/ Run
    \/ Listening \/ StopTcp \/ StopListen
    \/ \E t \in Sessions : ThreadStart(t) \/ ThreadEnd(t) \/ Clearing(t)
    \/ Clients

MSpec == MInit /\ [][MNext]_mvars

(***************************************************************************)
(* The kernel schedules every thread.  Nothing is assumed of the clients,  *)
(* of the application (it may return from listen_negotiate at once or      *)
(* never), or of when a session ends.                                      *)
(***************************************************************************)
MFairSpec ==
    /\ MSpec
    /\ WF_mvars(Run)
    /\ \A t \in Sessions : WF_mvars(ThreadStart(t) \/ Clearing(t))

-----------------------------------------------------------------------------
(* What holds.                                                             *)

\* The loop never blocks in read: between select and read the connection may
\* be closed by its session or by stop_negotiate, but its descriptor is not
\* given to a connection that has nothing to read (Server.cpp:301-310).
ReadsDoNotBlock ==
    LoopAt("read") =>
      /\ tcp_sock \in Fds
      /\ desc[tcp_sock] # 0 => Ready(tcp_sock)

\* clear_when_session_end has no lock, and several threads, even two of one
\* session, run it at once: still, a pointer to a deleted session stays in
\* ss_map only as long as some thread is about to erase it (Server.cpp:434-446).
EntriesErased ==
    \A s \in DOMAIN sess :
      sess[s].mapped /\ ~sess[s].live =>
        \E t \in DOMAIN thread : thread[t].pc = "erase" /\ thread[t].victim = s

(***************************************************************************)
(* Nothing was confused yet: the application has not stopped the server,   *)
(* no session began on a connection that was closed before (RunCreate),    *)
(* and no thread was given another one's session (ThreadStart).            *)
(***************************************************************************)
Separate ==
    /\ app \notin {"stop", "stopped"}
    /\ \A s \in DOMAIN sess : sess[s].conn # 0
    /\ \A t, u \in DOMAIN thread :
         t # u /\ thread[t].ss # 0 => thread[t].ss # thread[u].ss

\* Until then a session writes to its own client and closes its own connection,
\* never one that was given the same number: no other thread closes the
\* descriptor it keeps or deletes it from ss_map, and the loop starts no second
\* session on its connection, although clients choose the same id and requests
\* are handled again at end of file (Server.cpp:295, 396, 434-446,
\* ServerSession.cpp:307).
OwnConnection ==
    Separate =>
      \A t \in DOMAIN thread :
        thread[t].pc \in {"run", "close"} => desc[Self(t).fd] = Self(t).conn

(***************************************************************************)
(* The ways the loop ends without ending: it holds fdset_lock and locks it *)
(* again, it waits in accept for a connection, or select fails each time.  *)
(***************************************************************************)
LockedOut == LoopAt("top") /\ fdset_lock = "run"

Waiting == LoopAt("wait") /\ backlog = <<>>

SelectFails ==
    \E d \in InTable \cup (IF listen_sock = "none" THEN {} ELSE {Listen}) : ~Open(d)

Down == LockedOut \/ Waiting \/ []SelectFails

\* Every datagram is received: connections that wait, send, are at end of file
\* or find the table full never keep the loop from discoveries; only the three
\* ways above do (Server.cpp:237-288).
DiscoveryServed ==
    udp.received < udp.sent ~> udp.received = udp.sent \/ Down

Newest(k) == tcp_sock \in Fds /\ desc[tcp_sock] = k

Full == tcp_accepted = MAX_CLIENTS_NUM /\ backlog # <<>>

\* What a client sends on the connection accepted last is read, unless a newer
\* one comes or the connection is closed, its entry gets lost in the table, or
\* the table is full while another client waits (Server.cpp:289-316).
RequestServed ==
    \A k \in Conns :
      Newest(k) /\ conn[k].in # <<>> ~>
        ~Newest(k) \/ conn[k].in = <<>> \/ tcp_sock \notin InTable \/ Full \/ Down

\* A session that has closed its connection leaves ss_map, and its thread comes
\* to an end, however many others change the map and the table at the same
\* time (Server.cpp:422-460).
SessionCleared ==
    \A t \in Sessions :
      t \in DOMAIN thread /\ thread[t].pc = "close" ~>
        t \in DOMAIN thread /\ thread[t].pc = "done" /\ ~Self(t).mapped

-----------------------------------------------------------------------------
(* What a comment of the code says, and the code does not do.              *)

\* Server.cpp:187 "Server listens and receive asynchronously for any message":
\* the loop does not stop for ever on its own lock.
NeverLockedOut == ~LockedOut

=============================================================================
