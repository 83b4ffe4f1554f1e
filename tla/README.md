# GDNP signaling protocol: TLA+ models, checks and proofs

The repository implements the GDNP (draft 03) signaling protocol of the IETF
ANIMA group: an autonomic service agent (ASA) discovers a peer over UDP
multicast and then negotiates or synchronizes the value of an objective with it
over TCP.  This directory holds TLA+ modules translated from its C++ sources,
the TLC configurations that check them on small instances, and proofs that
TLAPS checks for every value of the constants.

## 1. Inventory

### Components

| Component | Source | State it keeps | Operations |
|---|---|---|---|
| `ServerSession` | ServerSession.cpp/.h | `cur_state` (IDLE, PROCESSING, SESSION_END), `idle_check`, queue `q`, `tcp_sock`, `session_id`; run()'s locals `c`, `last_content` | `run`, `set_state`, `send`, `wait_thread_handler`, `end_thread_handler`, `queue_push/pop` |
| `ServerMaster` | Server.cpp/.h | `udp_sock`, `listen_sock`, `tcp_sock`, `tcp_fd_set`, `tcp_accepted`, `read_flags` under `fdset_lock`, `ss_map` (no lock) | `server_init`, `listen_negotiate`, `stop_negotiate`, `run`, `distribute`, `clear_when_session_end` |
| `Client`, TCP side | Client_TCP.cpp | `loop_count`, `flag`, `session_id`, `cur_states`, `lastTopOptions`, `buffer_nego_obj`, `tcp_sock` | `negotiate` (starts `nego_thread`), `synchronize`, `send_tcp`, `send_negotiate`, `do_negotiate` |
| `Client`, UDP side | Client.cpp, Client_fsm_funcs.cpp | `cur_states` (OFF, WAIT_RESPONSE, WAIT, INFORMED, END), `try_times`, timers, `negoAddr` | `discover`, `send`, `recv`, `recv_in_WAIT_RESPONSE`, `recv_in_WAIT` |
| `BaseNegotiator` | BaseNegotiator.cpp | the sockets | `send_pdu/recv_pdu` (UDP), `write_pdu/read_pdu` (TCP), initialisation |
| Formats | msg.cpp, Option.cpp, common_structs.h | none | `encode/decode`, `to_bits/parse_bits`, `content::operator==` and `=`, `set_loop_count` |
| Errors, demos, build | Errno.*, main_*_demo.cpp, makefile | none | printing; sample calls |

### How they interact

The run loop of `ServerMaster` is one thread.  It reads a PDU and calls
`distribute`, which pushes it into the queue of the session with that id, or
creates a `ServerSession` and its thread.  The session thread polls its queue
once a second, takes a message, asks the ASA (a virtual call that may take any
time) and writes an answer.  While the ASA works, a wait thread sends WAIT_MSG
every `PROCESSING_TIMEOUT_SECOND`; after each NEGO_MSG, an end thread waits
`END_TIMEOUT_SECOND` for `idle_check` to become 1 and ends the session if it
does not.  At the end the session thread closes the socket and has the master
delete the object.  On the other side the negotiating thread of `Client`
alternates reads and writes until one side sends NEGO_END_MSG.

### What is hard, and what makes each part correct

*ServerSession.*  Three kinds of thread share an object; `cur_state` is locked
for each access but never from a test to the assignment that depends on it;
`idle_check` has no lock at all; several wait and end threads of different
rounds overlap; the object is deleted under the feet of the helpers.  It is
correct when PROCESSING is always left, an answered session always has a timer,
a session that ended stays ended, nothing but a WAIT_MSG follows the ending,
and a silent client's session goes away.

*Client negotiation.*  Every failed read leaves locals unwritten and execution
goes on; the option configured on Accept is the one stored last.  It is
correct when the sides take turns, no loop count wraps, and both end up with
the same value.

*ServerMaster.*  A mutex released on some branches only, a connection table
changed by session threads, a map with no lock.  It is correct when the loop
keeps running, every connection is served, and no PDU reaches a deleted
session.

*Client discovery.*  Lost, duplicated and foreign datagrams, retries and two
timers.  It is correct when it ends within its tries, in OFF, and reports
SUCCESS only with an address.

*Formats.*  Round trips, the width of the loop count, the lengths allocated.

PROJECT.json lists the hazards at their lines, with the properties that cover
them or the module that will.

## 2. Plan

| Order | Module | State |
|---|---|---|
| 1 | `Gdnp`: messages, options, `Decremented`, `Key` | written |
| 2 | `ServerSession`: the session with its threads; `ServerSessionProofs` | written, proved |
| 3 | `ClientNego`: one negotiation of the client; `Negotiation`: both over one connection; `NegotiationProofs`, `AgreementProofs` | written, safety proved |
| 4 | `ClientDiscovery`: the UDP state machine over a network that loses, repeats and delays datagrams; `Discovery`, what its calls promise; `ClientDiscoveryProofs`, which proves that they do | written, proved |
| 5 | `ServerMaster`: run loop, `fdset_lock`, connection table, `ss_map`, parameter passing, end of file; `ServerMasterProofs` | written, safety proved |
| 6 | `Wire`: the octets of header and options, with theorems on what survives | written, proved |
| 7 | `Dialogue`: what a negotiation promises, with one outcome; `DialogueProofs`: `Negotiation` implements it | written, proved |
| 8 | `ClientThreads`: `negotiate` and `synchronize` sharing one `Client` | later |

## 3. The modules and the code

**Gdnp.**  `Content` is `struct content` with the body kept as fields.  `Key`
is what `operator==` sees: `strcmp` stops at the second byte of the 16-bit
option type.  `Decremented` is `set_loop_count(get_loop_count() - 1)`.

**ServerSession.**  `pc` follows `run()`; each step is the code between two
accesses to shared state:

| Code | Actions |
|---|---|
| loop test, empty queue, pop, filter (198-217) | `RunSleep`, `RunReady`, `RunExit`, `RunPop`, `RunPopDuplicate` |
| `set_state`: unlocked switch, then assignment | `RunSetState`, `RunMark` |
| launch wait thread, second test (223-243) | `RunSpawn`, `RunBranch` |
| ASA call, `set_cur_state(IDLE)`, choice of the reply | `RunUpper`, `ReplyTo` |
| `send`: unlocked switch, write, what follows | `RunSend`, `RunWrite`, `RunWriteFails`, `RunSent` |
| `close_tcp`, `clear_when_session_end` | `RunClose`, `RunClear` |
| `wait_thread_handler` (one per round) | `WaitWake`, `WaitSend`, `WaitWrite` |
| `end_thread_handler` (one per round) | `EndWake`, `EndReset`, `EndFire` |
| `distribute` | `Construct`, `Push` |

Reading a field of the deleted object yields any value (`Seen`), writing one is
lost.  `last_content` starts indeterminate: a recycled stack may hold the very
request.  `out` is the socket's buffer; a write blocks when it is full and may
fail at any time.  One second of a helper's sleep is one step of it, taken at any
time: no relation between the clocks of different threads is assumed.

**ClientNego.**  `do_negotiate`'s recursion returns what the deeper level
returned, so it is the loop read - handle - read.  `Unassigned` is the test of
the unassigned `actual_session_id` after a failed read: it may equal
`session_id` or not, except after WAIT_MSG, where `rtnval` is tested first.
`ReadEOF` and `ReadStale` are what `decode` makes of the uninitialised
`pdu_buf` at end of file.  The value of `lastTopOptions` before the negotiation
is `NoValue`.

**Negotiation** joins the two: `out` is what the client reads, `up` what it
wrote and the run loop has not read.  The instance substitutes the session's
`out` for `inbox`, so a client's read is the session's `ClientRead`.

**Dialogue** is the abstract negotiation, without connection, queue or threads:
whose turn it is, the value on the table, the rounds left and the outcome.
`Negotiation` reads it off the state of both sides (`Turn`, `OnTheTable`,
`Left`, `Configured`):

| In the dialogue | In the code's state |
|---|---|
| it is the session's turn | a PDU of the client is on the connection, in the queue, or in `run()`'s hand; the value and the rounds are those of the client's last PDU |
| it is the client's turn, or a result waits for it | an answer is on the connection or in `do_negotiate`'s hand; the value is the session's answer, or what it accepted |
| a result waits for `synchronize` | `send_tcp` has returned and the buffer holds the answer |
| it is over | none of these: the client has returned, or the PDU was dropped, filtered out or not written |

An abstract step is what changes this: `Counter`, `Settle` and `Answer` are the
session's successful `write_pdu` or the client's, `Take` is `do_configuration`,
and `Leave` is every way in which something ends without a value.  Losing a PDU
and waiting for it for ever look the same.  A client that acts on a failed read,
or whose synchronization fails and configures its own request, has left the
dialogue (`Believable`): `Dialogue` says nothing of what it configures then, nor
of the value it had before the negotiation (`NoValue`), which
`negotiation_result` is about.

**ClientDiscovery.**  One application thread calls `discover` again and again.

| Code | Actions |
|---|---|
| new socket and session id; `send` in the state it finds | `NewCall`, `discover`, `discoverRefused` |
| `send` in OFF, `send_discover` | `send`, `Multicast`, `sendFails` |
| `recv_in_time`, `recv_pdu` | `Receive`, `OfType` |
| `recv_in_WAIT_RESPONSE`, `recv_in_WAIT` | actions of the same names, one datagram each |
| TIMEOUT in `recv`: `send` in WAIT_RESPONSE, or WAIT to END | `Resend`, `GiveUp` |
| `reset_try_times`, rest of `discover` | `return` |
| UDP branch of `ServerMaster::run` | `Answer` |

`net` is a set of datagrams from which any, or none, is delivered; `asked` holds
the ids of requests that reached a server, which may answer once, twice or
never.  `generate_random` is seeded with the time in seconds, so a call may get the
id of the one before, and answers to that one then look like its own.  Answers
of every type are enumerated, not only those `ServerMaster` gives: the group
address reaches any server.

**Discovery** is what the calls of `discover` come to without datagrams, sockets
and ids: a client is ready, asking, waiting, answered or failed.  `Stage` reads
this off `pc`, `rtnval` and `cur_states`; `requests` is `sent` while the call
asks, `heard` says that a request with the id of this call has reached a server
(this call's, or one of an earlier call with the same id), and `known` that
`negoAddr` has been set.  Failed is `cur_states` at WAIT or END after a `recv`
that returned an error, and no step leads out of it: that is what the code
does, not what its comments say (run `discovery_ready`).

**ServerMaster.**  Three kinds of thread over the state of one `ServerMaster`:

| Code (Server.cpp) | Actions |
|---|---|
| `listen_negotiate`: `socket`; `server_tcp_init` under the lock; `FD_SET` without it (75-92) | `ListenSocket`, `ListenBind`, `ListenFlag` |
| `stop_negotiate` (98-110) | `StopTcp`, `StopListen` |
| `run`: lock and `FD_SET`s; `select` and unlock; second lock and the branch taken | `RunLock`, `RunSelect`, `RunTestUdp`, `RunTestListen`, `RunTestTcp`, `RunTestNone` |
| UDP branch; `accept`; the two stores of `tcp_fd_set[tcp_accepted++]`; `read_pdu` | `RunUdp`; `RunAccept`, `RunAcceptWaits`, `RunAcceptFails`; `RunAddEntry`, `RunAddCount`; `RunRead`, `RunReadFails`, `RunReadStale` |
| `distribute` (361-410) | `RunDrop`, `RunFind`, `RunPush`, `RunCreate` |
| `run_help`, the end of `ServerSession::run`, `close_tcp` | `ThreadStart`, `ThreadEnd`, `ThreadClose` |
| `clear_when_session_end`: find and delete; erase; test and body of the loop over the table (422-460) | `ThreadDelete`, `ThreadFindsNone`, `ThreadErase`, `ThreadCheck`, `ThreadDrop` |
| clients | `Connect`, `ClientSends`, `ClientCloses`, `Datagram` |

A session here is what the master knows of it: its id, its descriptor, its place
in `ss_map`, and a thread that ends some day.  Between `RunCreate` and
`ThreadStart` the thread's parameters lie on the stack of `distribute`, so a
second request may replace them: one session then has two threads, another
none.  Descriptors are given out lowest first and used again.  A `-1` in the table
sets the bit of a descriptor that is not open, so `select` fails with EBADF.
The entry and the count of a new connection are two stores, in either order, and
session threads run between them.  The table is not initialised: 0 stands for an
entry that was not written, and whatever number it holds is a choice wherever it is
used (`Strays` in `select`, the comparison in `ThreadDrop`).
Abstractions: the `FD_SET`s of one round are one step; so is the shift of the
table with the store of the decremented count, although the code reads
`tcp_accepted` again in every turn of the shift (threads that take one off at once
may still overwrite each other's count; taking the shift apart as well makes the
instances too large to be explored); `read_flags` is cleared where nobody looks at it
again; an `accept` that blocks goes on blocking when the socket is closed; a write at
a negative index falls on a member nobody reads; the walk over the map ends with
the erase, though the code increments the freed iterator, which is undefined and
may crash; the memory of deleted objects is not represented.

**Wire** has no state: it has the layouts of `encode`, `decode`, `to_bits` and
`parse_bits` as functions on octets, for hosts that are little-endian on both
ends (the code casts its buffers).  `strncpy` stops at the first zero octet
(`UpToZero`).

## 4. What the runs check

Passing runs:

| Run | Property | Meaning |
|---|---|---|
| `session` | `TypeOK` | types |
| | `ProcessingOnlyInUpperCall` | PROCESSING never meets the loop or `set_state` |
| | `AnsweredSessionIsTimed` | after an answer the latest end thread counts, uncancelled, or the session has ended |
| | `EndingIsLast` | after NEGO_END_MSG only a late WAIT_MSG |
| | `IdleTimeoutIsFinal` | SESSION_END between two messages sticks |
| | `AnsweredSessionEnds` | an answered session with a silent client is cleared |
| `negotiation` | `TakesTurns` | at most one PDU other than WAIT_MSG is in play |
| | `Agreement` | the client configures only the value the session agreed to |
| | `HoldsDialogue` | the composition implements `Dialogue!DSpec` |
| | `EndingClearsSession` | the client's ending clears the session |
| `negotiation_garbage` | `NTypeOK` | types of the composition |
| | `RoundsLeft` | no proposal with loop count 0 is ever on its way |
| | `ServesAsSpecified` | the composition implements `ServerSession!Spec` |
| `discovery` | `DTypeOK` | types; `try_times` never exceeds `MAX_TRY_TIMES` |
| | `TriesCounted` | a waiting call has sent exactly `try_times + 1` requests |
| | `BetweenCalls` | no call leaves WAIT_RESPONSE, INFORMED or NEGOING behind, or tries used up |
| | `DiscoversAsSpecified` | the calls implement `Discovery!ASpec` |
| | `DiscoverReturns` | every call returns |
| `master` | `ReadsDoNotBlock` | the loop never calls `read` on a connection that is open and has nothing |
| | `EntriesErased` | a pointer to a deleted session is in `ss_map` only while a thread is about to erase it |
| | `OwnConnection` | a session writes to and closes the connection it was made for, never one with the same number, until one of three named confusions (`Separate`) |
| `master_live` | `MTypeOK` | types; `tcp_accepted` stays within the table |
| | `DiscoveryServed` | every datagram is received, or the loop is down in one of three named ways |
| | `RequestServed` | what the newest connection sends is read, or one of the named losses has happened |
| | `SessionCleared` | a session that closed its connection leaves `ss_map`, and its thread ends |

Runs that show the code departing from what its comments and messages say (each
is a finding in PROJECT.json):

| Run | Trace |
|---|---|
| `session_filter` | the second of two proposals in a row is dropped though its value differs |
| `session_timer` | an older end thread misses its cancellation and ends an active session |
| `session_silent` | a filtered message cancels the timer; the session stays for ever |
| `negotiation_result` | the server accepts at once and the client configures a value from before |
| `discovery_ready` | all tries of a new client time out, and `discover` returns SUCCESS in END, without an address: `negotiate` refuses, and later calls of `discover` send nothing |
| `master_deadlock` | an older connection alone is readable, no branch is for it, and the loop locks `fdset_lock` twice |

`master_deadlock` is the gravest: two clients connected at the same time are enough
to stop the server, discoveries included.

Further departures are part of the models but have no run of their own:

* `synchronize` configures its own request when the write or the read failed,
  although its comment says it gives what was received (Client_TCP.cpp:425).
* A read that timed out may be repeated for ever: `actual_session_id` is not
  assigned then, and the test at Client_TCP.cpp:203 may send it back to the read.
* The session object is deleted while its helper threads run (`Seen` in
  `ServerSession` gives them any value).
* A wait thread of an earlier message survives into the next one and sends
  WAIT_MSG on its old count; SESSION_END can be set between `send`'s test and its
  write (`EndingIsLast` says what this can and cannot do to the connection).
* The count of a new connection is usually stored before its entry (Server.cpp:296).
  With one connection in the table and a second just counted, the first one's
  thread sees two entries, copies the unwritten one down and takes one off the
  count; the loop then puts an arbitrary number into `read_flags`, and `select`
  fails or waits for something else.
* A session closes the descriptor it was made for by its number.  After
  `stop_negotiate`, after a request that was taken up when its connection was
  already closed, and when a thread was given another one's session, the number may
  belong to another client (`Separate` names the three).
* A client that closes the newest connection leaves the loop reading its end of file
  again and again, without waiting in `select`; datagrams still come first
  (`DiscoveryServed`).
* The server announces a waiting time of 10000 in four octets, and the client takes
  the first, 16, as seconds (Client_TCP.cpp:314).
* The loop that clears the table takes one off `tcp_accepted` in every turn, not
  once: connections of other sessions fall out of the set and are never read
  again (`tcp_sock \notin InTable` in `RequestServed`), closed ones stay, and the
  count can become negative.
* `accept` on a socket that does not listen yet returns -1, which goes into the
  table and makes every later `select` fail; so does `stop_negotiate`, which leaves the
  closed number in `listen_sock` (`SelectFails`).
* Two clients with one id: the second request is dropped, or a message reaches
  the other's session.

### Bounds

* `MaxMsgs` (3 in the session runs) messages reach a session.  Three rounds are
  the least in which three generations of helper threads overlap; two end
  threads already race for one `idle_check`.  In the negotiation runs 4 never
  blocks the client, whose loop counts are at most 5 and fall by two a round.
* `SockBuf` = 2: the ending and a WAIT_MSG before or after it; a third would
  only delay the writer less.
* The timeouts are 1 sleep instead of 8 and 20, and 2 in `session_timer`: with 2 a
  helper can be in the middle of its count, with 1 it fires at its first look.
  The models have no clock, so the ratio of the two timeouts plays no part, and
  the safety properties of `session` are proved for every value of both.
* `LoopCounts` is {5} in the code; {2, 3, 5} lets either side reach the last
  round early, from both parities.  `negotiation`, which has two values and
  fairness, takes {2, 5}.
* `MAX_TRY_TIMES` = 2 instead of 5, with `MaxCalls` = 3: tries are used up, used
  in part and not at all, and what one call leaves meets two later ones.
  `MaxReplies` = 3: an answer that is late for its call, one that ends WAIT and
  one that is repeated.
* `MaxGarbage` (0 or 1) failed reads that the client acts upon.
* `master`: two clients, two ids, a table for two, two PDUs each, one
  end of file, one PDU decoded again, and `stop_negotiate`.  Two session threads are the
  least that race for the map and the table; with two ids both the collision and
  its absence occur.  `MaxDatagrams` is 0 because a datagram only sends the loop
  round once more; `master_live` has one.
* `master_live`: two clients with one id, so that they collide, and a table for one, so
  that it fills up; one datagram, one end of file, one request decoded again, and
  `stop_negotiate`.  The newest connection reaches its end of file, the loop waits in
  `accept`, and threads of both sessions clear the map and the table at once.  With a
  table for one no older connection can be readable alone, so of the three ways
  of being `Down` the lock-out does not occur in this run.  It does with a table for
  two and no request decoded again, which was checked besides (`MAX_CLIENTS_NUM` = 2,
  `MaxStale` = 0: 166,935 states, all four properties hold), and in
  `master_deadlock`; there the table never fills, which is why the run has one.
* `master_deadlock` has the two clients the trace needs and nothing else.
* One or two values: values are only compared and copied.  No symmetry is used.

CHECK_DEADLOCK stays on: a session that is over stutters in `Finished`, a
negotiation in `Quiet`, an application that has made its calls in `Over`.  Only the
runs of `ServerMaster` turn it off: the code really stops, on its own lock or in
`accept`, and the properties say when.

### Fairness

`FairSpec` and `NFairSpec` assume weak fairness of each thread: the scheduler
runs it, the sleeps end, and the ASA's callbacks return (a callback that never
returns is no fault of this code).  `WF_vars(ClientRead)` says that the peer's kernel
takes what was written; without it a full buffer blocks the session in `write`
for ever.  Nothing is assumed of when a client sends.  Write failures are
choices of a fair thread, never forced.  The fairness also assumes that no process
dies: a write to a connection closed by the peer raises SIGPIPE, which the code
does not ignore.

`DFairSpec` assumes that the client's thread runs, that `select` returns when its
timer has expired (or earlier, with a datagram), and that `send_discover` finds
a free port in the end.  It assumes nothing of the network or the servers:
`DiscoverReturns` must hold when every datagram is lost.

`MFairSpec` assumes that the kernel schedules the run loop and every session
thread.  It assumes nothing of the clients, nothing of the application, which may
stay between two statements of `listen_negotiate` for ever, and not that a session
ends.  No fairness is needed of the lock: only the loop holds it across a step.

## 5. What is proved

`ServerSessionProofs` proves, for all values, first messages, client messages,
bounds and timeouts allowed by the ASSUMEs:

* `TypeCorrect`, through `TypeInv`: types, plus which `pc` goes with a message in
  hand (`c`), a reply and a live round.
* `ProcessingCorrect`, through `MarkInv`.  The property is not inductive: it needs to
  know that at `mark` the message in hand decides PROCESSING or SESSION_END,
  and that helpers only ever set SESSION_END.
* `AnsweredSessionIsTimedCorrect`, through `TimerInv`: an end thread of a later round
  does not exist, and `idle_check` is 0 from `RunSent` until the next pop
  because threads only reset it.
* `EndingCorrect`, through `EndInv`: a NEGO_END_MSG in `out` means the session
  thread is past `write` for good; appending and removing a PDU keep the order.
* `IdleTimeoutCorrect`: the action property, from the types and the actions.

`NegotiationProofs` proves, for a session open to every message (`AnyMessage`,
which makes the session's own environment the most general one):

* `Implements`: every step of `NNext` is a step of `Next` or leaves the session
  alone, so all theorems above hold in the composition.
* `NTypeCorrect`: the types of client and connection.
* `RoundsLeftCorrect`: no proposal with loop count 0 is ever on its way.  The
  invariant adds the reply about to be written, the request about to be sent,
  and the PDU the client may handle a second time.

`AgreementProofs` proves, under the same assumption, the two properties that
speak of both sides:

* `TakesTurnsCorrect`.  The property counts PDUs, so `ActingAppend` and
  `ActingTail` say what a write and a read do to the count of those that are not
  WAIT_MSGs.  It is inductive (`TurnInv`) once it is known that the first
  request finds both directions empty and no session.  What later proofs use is
  `OnePlace`: whoever holds the PDU in play knows that nobody else holds one.
* `AgreementCorrect`, through `AgreeInv` and `OfferInv`.  Until the client
  returns, `lastTopOptions` is the value of its proposal wherever that is (on
  the connection, in the queue, in the session's hand), and the answer that
  reaches it is the session's last (`WaitInv`).  After it has returned with a
  result, no proposal is left that could make the session agree to another
  value (`SettledInv`).  `OfferInv` says that proposals are about an objective, which
  keeps an Accept apart from a value.

`DialogueProofs` proves `HoldsDialogueCorrect`: every step of `NNext` is a step
of `Dialogue` or none.  It needs `SpeakInv` beyond the above: the PDU in play is
the proposal the client wrote last, or the reply to it, with one round less.
A step of the session that the dialogue sees is then a reply or a loss, whichever
action it is, because a session with nothing in hand says nothing
(`SessionIdle`); the client's steps are taken one by one.  `OneOutcome` draws
the conclusion: one value of the negotiation is configured at most, and nothing
that arrives late reopens the dialogue.

`ClientDiscoveryProofs` proves, for every set of answers, every number of tries
and every bound, `DTypeCorrect`, `TriesCountedCorrect` and
`BetweenCallsCorrect` from one invariant, `DiscoveryInv`.  It adds `StateAtPC`:
which `cur_states` goes with which place in `discover`, and that a failed
`recv` ends in WAIT or END.  `TriesCounted` needs `BetweenCalls` because a call
starts with the `try_times` the last one left, and `BetweenCalls` needs
`StateAtPC` because `discover` resets the state only after a success.

It proves `DiscoversAsSpecifiedCorrect` too: every step of `DNext` is a step of
`Discovery` or none.  `Provenance` is needed besides: whatever is on its way
answers a request that has reached a server, and a new id has not been asked
with, so an answer that passes `recv_in_time` was given to somebody who had
heard the id.  That the abstract call gives up after exactly 1 + MAX_TRY_TIMES
requests is `TriesCounted`, and that a failed one stays failed is `StateAtPC`.

`ServerMasterProofs` proves, for any number of clients, ids, PDUs, datagrams and
any size of the table, the four safety properties of the master:

* `MTypeCorrect`, through `MTypeInv`: `tcp_accepted` may be rewritten by any thread at any
  time, so the bound needs to be known of every count a thread still remembers
  (`seen`) and of the loop's `slot`; the loop tests the table for room and stores
  the count several steps later, which is safe because threads only take
  entries away.
* `ReadsDoNotBlockCorrect`, through `FlaggedInv`: a descriptor that select returned is
  closed or stays readable until the loop reads it, because only the loop's own
  `accept` opens a descriptor.
* `EntriesErasedCorrect`: inductive once the types are known.  A thread that deletes
  is its own witness, and moves only by erasing.
* `OwnConnectionCorrect`, through `OwnInv`: every thread has a session, an id stands
  for at most one session in `ss_map`, and only connections that clients have made
  are in use (`KnownInv`); a connection in the backlog has no descriptor and no
  session (`WaitingInv`); what was read from the newest connection has its id, and
  so have the sessions made on it, unless it is at end of file (`NewestInv`); and
  while nothing is confused, a session that has not closed its descriptor has its
  own connection there, shares it with no other such session, stays in `ss_map` until
  its own thread erases it, and a thread deletes only its own (`SeparateInv`).
  The hard case is a request decoded again at end of file: it cannot start a second
  session on the same connection because the first, with the id of that request, is
  still in the map or has closed the connection.

`Wire` proves that type and session id survive `encode` and `decode`
(`HeaderSurvives`), that options and objectives keep type, length, loop count and
flag, and the value up to its first zero octet (`OptionSurvives`,
`ObjectiveSurvives`); that one whose value is a C string is parsed exactly as it was
written (`StringsSurvive`); that an option parsed as an objective, and an objective
parsed as a plain option, still have the type and the length that were written
(`BothReadingsAgree`); and that `operator==` sees
nothing of a body but its option type (`EqualitySeesType`), the fact behind `Key`.
It assumes values no longer than a PDU's data.

Each strengthened invariant was first checked by TLC on the instance of the
corresponding run.

Only model-checked: the liveness properties (`AnsweredSessionEnds`,
`EndingClearsSession`, `DiscoverReturns`, `DiscoveryServed`, `RequestServed`,
`SessionCleared`), which are out of this prover's reach.  Every other property
of a passing run is a theorem.

## 6. Not modelled

* Two calls sharing a `Client` (planned, `ClientThreads`): `negotiate` returns while its
  thread runs, and a second call resets what that thread uses.
* Of the master: what a session does before it ends (that is `ServerSession`), the
  branch for diverted requests, which is disabled in the code, `local_interfaces`
  and addresses, and `check_Addr`, which nobody calls.
* Of the formats: allocation sizes (Option.cpp:156 and msg.cpp:118 are listed as
  hazards) and hosts of different byte order.
* Of discovery: addresses and ports, the failure of `select` and of
  `recvfrom`, and a client that has negotiated before (its state NEGOING makes
  `send` fail like END does).  An application that destroys the client while it
  waits is outside the model too.
* Memory exhaustion, partial reads of a PDU (a PDU is 1012 bytes and is written
  with one call), process death (SIGPIPE included).
* Printing, socket options and addresses, the demos.
