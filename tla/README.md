# A TLA+ verification of smart_net

smart_net is an asynchronous network engine in C++ (Linux, epoll, pthreads). An
application starts an engine with some input and output threads, opens
acceptors or connectors on it, and opens endpoints on those; an endpoint gets a
connected TCP socket ("rup") or a multicast UDP socket with its own reliability
protocol ("rmp"), calls `on_opened()`, `on_recved_data()` and `on_closed()` of
the application, and takes data through `send_data()`.

This directory holds TLA+ modules translated from the source, TLC
configurations that check them on small instances, and theorems about them
proved with TLAPS. Paths below are relative to `src/`.

## 1. The system and its parts

| part | source | state it keeps | operations | interacts with |
|---|---|---|---|---|
| state machine `CStateMachine` | `libcomm_utils/src/utils/state_machine.h(pp)` | current state, transition table, recursive mutex | `post_evt`, `set_cur_state`, `begin/end_lock_state` | base of every component below |
| io task and notifier `CEpoll`, `CInputHandleTask`, `COutputHandleTask` | `libsmart_net/src/framework/sn_io_evt_notifier_impl.*`, `sn_io_task.*` | add and delete caches (one spin lock each), set of io objects, kernel epoll set, array of raw event pointers | `add_ioobj`, `del_ioobj`, `exec` | calls the callbacks of io objects from its thread |
| TCP endpoint `CRupEndpoint` | `libsmart_net/src/smart_net/sn_endpoint_impl.*` 713-1101 | state, pending event, socket | `open`, `close`, `send_data`, io callbacks | helper, engine, both tasks, socket, application |
| TCP acceptor `CRupAcceptor` | same file, 39-288 | state, pending event, listener, deque of idle endpoints | `open`, `close`, accept loop | endpoint, input task |
| TCP connector `CRupConnector` | same file, 290-711 | state, pending event, socket being connected, deque of idle endpoints, interval | `open`, `close`, timer, connect | endpoint, output task, timer task |
| TCP socket `CRupSock` | `libcomm_net/src/network/sn_socket_impl.*` 26-564 | two send queues and two locks, receive buffer, descriptor | `send`, `handle_can_send`, `handle_can_recv`, `connect`, `accept` | endpoint, output and input task, user threads |
| multicast endpoint `CRmpEndpoint` | `sn_endpoint_impl.*` 1103-1488 | state, pending event, socket | as the TCP endpoint, no helper | both tasks, `CRmpSock` |
| multicast socket `CRmpSock` | `sn_socket_impl.*` 569-1449 | sender: window, head, tail, sequence number, acknowledgement of each receiver; receiver: latest valid number, buffered packets | `send`, `handle_can_send`, `handle_can_recv`, nak, ack, heart beat | network that loses, duplicates and reorders |
| timer task `CMiscTask`, `CTimeNotifier`, `ITimerObj` | `sn_misc_task.*`, `sn_time_notifier.*`, `sn_timer.h` | add and delete caches, set of timers | `add_timer`, `del_timer`, `exec` | connector |
| engine `CSNEngine` | `sn_engine.*` | state machine, vectors of tasks and threads | `start`, `stop`, `add_endpoint`, `del_endpoint`, `add_timer`, `del_timer` | all tasks |
| threads `CThread`, `IThreadTask` | `libcomm_utils/src/thread/` | stop flags, the task | `start`, `stop`, `stop_wait` | engine |
| framing and dispatch `CArchive`, `CPkg`, `CDispatcher` | `libsmart_net/src/smart_net/` | buffer positions, handler table | serialise, dispatch | application |
| memory `CMemBlock`, ring buffer `CSmartRB` | `libcomm_utils/src/memory/` | offsets into a buffer | append, consume | sockets |
| smart pointers, locks, log, utilities | `libcomm_utils/src/` | | | everything |

What is hard in it: an endpoint is driven by at least four threads at once
(the application, the thread that accepts or connects, the output task and the
input task); the tasks learn of it through caches that are applied later; the
state is read without the lock in the io callbacks and in `send_data()`; calls
to `epoll_ctl` and `::send` fail half way through a transition; the application
calls back into the library from `on_opened()` and `on_closed()`; the multicast
protocol sees lost, repeated and reordered datagrams.

What makes each part correct:

* notifier: no object is deleted that is not held, none is inserted twice,
  the raw pointers of the events stay valid;
* endpoint: `on_opened()` at most once per connection and never after closing
  has begun, `on_closed()` only after both tasks let go, no use of a dropped
  socket, an idle endpoint is in the deque exactly once, `close()` ends;
* socket: bytes leave once, in the order of each thread, messages whole;
* acceptor and connector: can be closed in every state and opened again;
* multicast: every receiver that stays gets every packet once and in order,
  and the sender frees a slot only when all of them have it;
* engine: an object is in one task of a kind, the one it will be looked for in, and is told so;
* framing: every body is handled once and in order, and no package is left lying;
* utilities: an object is deleted once, by its last pointer; locks exclude; the ring keeps what is
  not read; a trace goes to a file of its log.

`PROJECT.json` lists under "hazards" the places where one of these is at risk.

## 2. The modules

| module | stands for |
|---|---|
| `Epoll` | `CEpoll`: caches, set, kernel set, events, and the steps of `exec()` |
| `TimeNotifier` | `CTimeNotifier`: the timers' caches and set, and the steps of `exec()` |
| `RupEndpoint` | `CRupEndpoint` with its helper's deque and hand-over loop, the user's calls, and both tasks (EXTENDS `Epoll`) |
| `RupConnector` | `CRupConnector` between users, timer task and output task (EXTENDS `Epoll`, `TimeNotifier`) |
| `RmpEndpoint`, `RupAcceptor` | the state machines of `CRmpEndpoint` and `CRupAcceptor` (each EXTENDS `Epoll`) |
| `IoServices` | composition: multicast endpoints and acceptors in the same two tasks |
| `Connection` | abstract: the order of open, opened, closing, closed that every such object promises; implemented by `RupEndpoint`, `RupConnector` and `IoServices` |
| `Engine` | `CSNEngine` with `CThread` and the io tasks, over `Epoll` |
| `RupSock` | the sending side of `CRupSock` |
| `RupRecv` | `CArchive`, a stream, the receiving side of `CRupSock`, `CMemBlock`, `CDispatcher` |
| `Rmp` | `CRmpSock`: a multicast sender, its receivers, the network |
| `SmartPtr`, `EventEngine`, `Locks`, `SmartRB`, `SmartLog` | the utilities of the same names, the singleton in `Locks`, the files in `SmartLog` |
| `Utils` | composition of the five: a behaviour exercises one of them |
| `MCRupEndpoint`, `MCRupConnector`, `MCRmp`, `MCRupRecv` | symmetry sets and constants for TLC |
| `RupEndpointProofs` | theorems about `RupEndpoint`: types, the inductive invariant, the refinement |
| `RupConnectorProofs` | theorems about `RupConnector` |
| `IoServicesProofs` | theorems about `IoServices` |
| `EngineProofs` | theorems about `Engine` |
| `RupStreamProofs` | theorems about `RupSock` and `RupRecv` |
| `RmpProofs` | theorems about `Rmp` |
| `UtilsProofs` | theorems about `Utils` |
| `DataLemmas` | lemmas about remainders and about least and greatest elements |

In every module the assertions of the code (`CMN_ASSERT`, which is on in every
build) are steps to a state with `aborted` or `died` set, from which there is no
further step; "no assertion fails" is then an invariant.

### Epoll

One instance per io task, indexed by the task. `exec()` is a loop of steps:
`SwapDelCache`, then for each deletion `EraseIoObj` and `NotifyDeled` (the
object's callback), `SwapAddCache`, for each addition `InsertIoObj` or
`InsertFails` and `NotifyAdded`, then `EpollWait`, `DispatchEvent` per event,
`ExecReturns`. The variable `phase` is the program counter, `vecTmp` the local
vector, `cur` the object in a callback. `AddIoObj` and `DelIoObj` are what other
threads do under the spin locks. A module about an io object EXTENDS `Epoll` and
conjoins its callbacks. `exec()` reads `empty()` of the caches outside the lock;
as only this thread takes elements out, a cache seen empty is the same as an
empty swap, so swap and test are one step.

A vector is modelled as the number of copies of each object in it: the order of
two objects in a vector is left open, which only adds behaviours.

### RupEndpoint

`PostEvt(e, evt)` is `CStateMachine::post_evt`: one disjunct per row of the
table in `init_sm`, named after the handler. A handler holds the recursive mutex
of its endpoint from the first statement to the change of state, hence it is one
step. What runs outside is a step of its own: the helper's `pop_front`
(`HelperPops`) and its call of `handle_connected` (`HelperHandsOver`), the
unlocked test in `send_data` (`SendDataTests`) and its use of the socket
(`SendDataSends`), the test in `handle_input_evt` and `handle_output_evt`
(`HandleIoEvtTests`) and what follows (`HandleIoEvtUsesSock`), the two events
that a failed addition posts (`HandleAddFailed`, `HandleAddedIntoIoTask`).

The application's callbacks are part of the transition that calls them:
`on_opened()` may call `close()`, `on_closed()` may
call `open()`, as the one of `smart_net_test` does.

Three functions the handlers call (`del_endpoint`, `add_timer`, `del_timer` of
the engine) end without a return statement. Their value decides in `post_evt`
whether the state is entered. The unoptimised build the build scripts make
leaves the result of the last call (`end_lock_state`, zero) in the register, and
the model takes success.

The helper is what `CRupAcceptor::handle_input_evt` and the connector's
`handling_deling_from_ot_normal_to_checking_timer` have in common: with a
connected socket in hand it pops endpoints until one takes it, or closes it.

### TimeNotifier and RupConnector

`TimeNotifier` has the shape of `Epoll`: two caches, a set, a local vector, and
the callbacks left to the module that EXTENDS it. There is no clock; a timer
that is checked is due or not (`OnTimerTests`, `NotDue`).

`RupConnector` has one disjunct of `PostEvt` per row of the table in the
constructor. Its deque is its length: which endpoint takes the socket does not
matter to the connector, and that an endpoint in the deque accepts it is
`IdleExact` of `RupEndpoint`. `on_timer()` is two steps, the unlocked look at
the deque and the event; that the look races with a push is undefined behaviour
and is taken to see the length before or after. A failed addition posts one event only, unlike the
endpoint's, and leaves the connector in ADDING_INTO_OT for good: the predicate
`Stuck` names that state, and the liveness properties exempt it. `on_closed()`
runs before the state is CLOSED, so an `open()` made in it is refused; the
endpoint sets CLOSED first.

### RmpEndpoint, RupAcceptor, IoServices

Both have a table of rows and a `PostEvt` like the endpoint's. The pending event
of `CRmpEndpoint` is not set by its constructor: `RmpInit` chooses it. An accept
loop and what endpoints do with accepted sockets is in `RupEndpoint`; here an
accepted socket is taken or closed, and `accept()` fails when the listener was
closed meanwhile. `send_data()` of the multicast endpoint is not modelled.

### Engine

`start()`, `stop()`, `add_endpoint()` and `del_endpoint()` hold the engine's
mutex over several steps (`engine.op` says who holds it), and the threads of the
tasks run between any two of them. `add_endpoint` balances by
`get_ioobj_cnt()`, which reads the sizes of a set and two vectors without their
locks: three steps (`ReadTerm`), in the order the source writes them, which is
the order the build's compiler evaluates them in. The objects are clients that keep the endpoints' protocol; io
events and failing `epoll_ctl` calls belong to the modules of the objects. The
thread of the timer task does nothing the engine depends on and has no state.

### RupSock and RupRecv

`RupSock` has one step per lock operation, per `::send` and per queue operation.
`m_lkSending` is a variable, since `send()` holds it across `::send` and only
tries to take it; uses of `m_qSendCache` are one step each, they hold its spin
lock. `::send` takes any prefix of what it is given, nothing standing for
`EWOULDBLOCK`, which is also what an error looks like to the queues. A message
is `MsgLen` bytes, each byte identified by sender, message and position, a
`CMemBlock` is a sequence of bytes with room for `MemSize`. The second overload
of `send`, for a raw buffer, has the same steps.

`RupRecv` starts where the bytes leave: the stream is taken to carry blocks once
and in order, which `RupSock` shows as far as the code keeps it. The proofs
extend both modules, so `RupSock` says `SockInit`, `SockNext`, `outWire` where
`RupRecv` says `Init`, `Next`, `wire`. A byte is
numbered by package and position, so that a header read at a wrong place is
noticed. The receive block has its offset and its room at the tail, since both
the compaction and the zero that `recv()` returns for a zero-sized buffer depend
on them. What a handler does with a body is left out; compression is compiled out.

### Rmp

One step per critical section of the sender and of the two tasks of a receiver.
The network is the set of packets ever multicast, from which a receiver takes
one never, once or often, and a small set of naks and acks. The window, the
reorder buffer and the sequence numbers are the code's, with `% U64` where its
unsigned arithmetic could wrap. Abstractions: a heartbeat is one step with its
arrival; the timer of the output task and `handle_can_recv` of the input task
work on the same members without a lock, and each step of one is atomic to the
other except for the nak, whose two reads are two steps; one `died` for all
processes, after which the run ends; an early packet that would overrun the
reorder buffer takes the code's branch for that, whichever of its asserts fails.

`overtaken` is a history variable: the receivers that at some time still missed
a packet the sender had freed. The sender frees what every receiver *it knows*
has acknowledged, so a receiver can be overtaken before its first
acknowledgement, and after a restart. Nothing can give it that packet any more,
and `DeliveredInOrder` is about the others.

### Utils

The five utilities share no state; `used` picks the one a behaviour exercises,
so that the state space is a sum and not a product.

* `SmartPtr`: an assignment is the test, the decrement and deletion, the two
  stores and the increment, each a step. A pointer is changed by one thread at a
  time and not while another copies it, as the class demands. `p = q` with `q` a
  member of the object `p` lets go of is left out.
* `EventEngine`: the unlocked `empty()` may see the deque before or after a push
  that is under way.
* `Locks`: `CRWLock` over a semaphore and a mutex; the double-checked lock of
  `CSingleton`, with what is done under the lock as one step, and the
  unlocked reads and `destroy()` beside it.
* `SmartRB`: a block holds the index it was written for. What the calls assert
  of an index is their precondition, and a guard; the writer shows one block at a
  time, since `get_free_head` gives no other. One writer and one
  reader, although a comment says that `set_data` may be called from several
  threads: it may not.
* `SmartLog`: the descriptors of the process are a set of numbers from which
  `open(2)` takes the lowest, and other parts of the process take some too.
  Several logs of one directory and one prefix: their file names differ by the
  second only.

## 3. What TLC checks

| run | instance | shows |
|---|---|---|
| `rup_endpoint` | 2 endpoints, one helper, both tasks, failures of `epoll_ctl`; symmetric endpoints | the deletion assertion of `CEpoll` never fails (`NoEraseMiss`); no NULL socket where tasks, callbacks and handlers use one (`NoNullSock`); the raw event pointers are held (`EventsPinned`); no event of an old connection reaches the next one (`EventsOfThisConnection`); a callback keeps its endpoint from being recycled (`IoKeepsEndpoint`); the idle deque is exact (`IdleExact`); the pending assertion (`NoErrPendingInOt`); `Connection` is implemented (`ImplementsConnection`) |
| `rup_endpoint_live` | 2 endpoints, fair tasks | `CloseCompletes`, `OpenCompletes`, and the inductive invariant `IndInv` |
| `rup_connector` | 1 connector, up to 2 idle endpoints, failing `socket()` and `epoll_ctl`, fair tasks | the assertions on both tasks' sets, and that neither thread knows the connector after `on_closed()` (`TasksAgree`); the assertions on the attempt and its socket (`HandlersFindExpected`); `Connection` is implemented (`ImplementsConnection`), `CloseCompletes`, `RetriesGoOn` |
| `io_services` | 1 multicast endpoint and 1 acceptor in both tasks, every failure of the operating system | states, sockets and the sets of the tasks agree (`TasksAgree`); both implement `Connection` (`ImplementsConnection`); `CloseCompletes` |
| `engine` | 2 input tasks, 1 output task, an endpoint and an acceptor; failing starts | an object is where its task id says (`HeldWhereIdSays`); the count read piecemeal is never negative (`CountNeverWraps`); what is added is told so unless its thread was never made (`AddedIsNotified`) |
| `rup_sock` | 2 sending threads, 2 messages each of 2 bytes, blocks of 3 | bytes leave once (`EachByteOnce`), `QueuesKeepOrder`, `WholeOrNothing`, `MessageInOrder`, `QueuedIsSent` |
| `rup_recv` | 3 packages of bodies of 0, 1 and 2 bytes, a block of 5, any cuts | `DispatchedInOrder`; a peer that closes is found closed only after all its bodies (`OrderlyCloseLosesNothing`) |
| `rmp` | 1 sender, 2 receivers, 3 packets, 4 slots, loss, repetition, reordering, one restart | a receiver that was not overtaken is given every packet once and in order (`DeliveredInOrder`); the unsigned window test does not wrap (`WindowTestNeverWraps`); `FreesOnlyWhatAllHave` |
| `utils` | 2 threads, 3 pointers, 2 objects; 4 events; 4 users of a lock for 3 readers; a ring of 3; 2 logs, 2 tracers, 5 descriptors | `DisposedWhenUnreferenced`, `EventsOnceInOrder`, `ExclusionHolds`, `RingKeepsUnread`, `TraceHitsItsLog` |

Three more runs each show that the program does not keep something its source
says or asserts; TLC's counterexample is the scenario.

| run | what happens |
|---|---|
| `rup_endpoint_CloseFindsIdleEndpoint` | `close()` between the helper's `pop_front` and `handle_connected` searches the deque for an endpoint that has left it: `CMN_ASSERT(bFlag)` |
| `rup_sock_AcceptedIsKept` | the first `::send` of a message would block: the message is dropped, the caller is told `CMNERR_SEND_PENDING` |
| `rmp_NakOutsideNeedsRestart` | the acknowledgement of one receiver frees a packet that another, not yet known to the sender, still misses; its nak ends the sender, with no receiver having gone down |

### Bounds, and why they are enough

`RupEndpoint` has no bound on time: its state space is finite as it stands
(every counter of copies is at most one, which `IndInv` and the proofs show for
any number of endpoints). Endpoints interact only through the helper, which has
one in hand at a time, and through the order in which a task handles its
objects; two endpoints give every pair of positions, and the safety properties
are proved for every number. One socket in the helper's hands at a time is the
code's own bound: the loop that hands it over runs in one thread.
One thread inside `send_data()` is a bound; `send_data()` writes nothing that
another call could read.

`RupConnector` bounds the deque (`MaxIdle`): empty, one and two endpoints are
the cases its code distinguishes. One connector suffices for its own state
machine; two share the tasks only through the order of the vectors. With
`IoObjs = Timers = {c1, c2}`, `MaxIdle = 1` and the symmetry of
`MCRupConnector` the invariants hold too (105 765 states); the liveness part
then takes minutes, which is why the run has one.

`IoServices` is finite as it stands. One object of each kind meets every order of
callbacks of both tasks; objects of one kind do not call each other.

`Engine` bounds the io tasks ever made (`IoTasks`), and with them how often
`start()` is called: three tasks allow one complete start, or a failed start and
what is left of it. Two input tasks are needed for a choice. The two objects
differ in kind: one takes an output and an input task, one an input task only.

`RupSock` bounds the messages per thread (`MaxSends`). Two messages are needed
to see an overtaking, two bytes to see a partial send, and a block of three
bytes holds one message and a rest but not two messages, so that both outcomes
of `append` occur.

`RupRecv` bounds the packages (`MaxPkgs`). Blocks of five bytes and headers of two hold
one or two packages with a rest, so that a package wraps to a compacted block,
and a body size of zero is the heart beat's.

`Rmp` bounds the packets (`N`), naks and acks on their way (`MaxInFlight`; more
are lost, which the network may do anyway) and restarts. The window of four
slots holds three packets, the reorder buffer two, fewer than the sender may
send, so both limits are met; `U64 = 16` lets a difference wrap without letting
the sequence numbers do so, as 2^64 does.

`Utils`: three pointers are two of one thread and one it shares an object with;
three permits and four users give two writers and two readers; the ring wraps
more than twice (`MaxIdx`); two files are the ones a log keeps, and the clock
(`MaxTime`) makes it change them twice. `TraceHitsItsLog` is about traces that
miss at most one change of files: a trace that sleeps through two of them, which
is two full intervals, does write to a descriptor that was closed. This premise is the code's own
bet (`m_LastLogFile`, "for avoding multithreading race condition").

The type invariants of `RupConnector`, `IoServices`, `Engine` and `Rmp` are
defined but not part of the runs; they hold on the same instances.

Deadlock is reported in `rup_sock` (the task's loop never stops). It is not
elsewhere: a failed assertion ends the process, a bounded sender has nothing
more to send, and a utility may be left alone.

### Fairness

`RupEndpoint`, `IoServices`: weak fairness of each task's next step. The threads loop in
`exec()` until the engine stops; the scheduler runs them. Users, the helper and
the peers owe nothing. Liveness is stated "or the process died of an assertion".

`RupConnector`: weak fairness of both threads' next steps; strong fairness of a
timer being due when checked (the interval passes), and of `epoll_wait`
reporting a connecting socket (TCP ends every attempt by a connection or an
error).

`Engine`: weak fairness of the engine's own steps under its mutex (it waits for nobody) and of each
thread that was made. A thread that `pthread_create` refused owes nothing.

`RupSock`: weak fairness of the task and of a sender inside `send()` (the task
is called again while the socket is writable, epoll being level triggered, as
the comment in `handle_input_evt` demands), and strong fairness of `::send`
taking a whole block: a peer that keeps reading lets it happen again and again.
`QueuedIsSent` allows the connection to die.

## 4. Found and not run

Each of these is defined where it is named and fails; listing it as the
`INVARIANT` of the run's configuration, alone, reproduces the scenario.

| configuration | property | what happens |
|---|---|---|
| `rup_endpoint` | `ClosedHoldsNoSock` | the output task fails to add the endpoint: it is CLOSED with an open socket, nobody calls `on_closed()`; the next connection trips `CMN_ASSERT(NULL == m_pSock)` |
| `rup_endpoint` | `NoInsertTwice` | `close()` while the input task adds the endpoint: it is deleted from the output task only, and the next connection trips `CMN_ASSERT(pairRet.second)` |
| `rup_endpoint` | `NothingPendingOnceOpened` | a `close()` made in `on_opened()` returns success and is never acted upon: what is pending was looked at before, and nobody looks again |
| `rup_endpoint` | `SendDataHasSock` | `send_data()` finds the endpoint opened, which then closes and drops its socket before it is used |
| `rup_connector` | `NoSockLeftOver` | `close()` during an attempt leaves the closed socket in `m_pTcpSock`; after the next `open()` the first attempt trips `CMN_ASSERT(NULL == m_pTcpSock)` |
| `io_services` | `Alive` | assertions of the acceptor and the multicast endpoint do fail, `aborted` names which: `"erase"` (a failed `epoll_ctl` is followed by a deletion from a task that never held the object), `"listener"` (an acceptor is opened again with the listener it kept), `"accept"` (no socket after a `close()` or a reset), `"post_evt"` (an event without a row), `"pending"` (an error pending where only a `close()` may be), `"get_ioobj_handle"` (a task adds an object without a socket) |
| `rup_sock` | `SentAfterWaiting` | a message goes out directly while an earlier one of the same thread still waits in `m_qSending`; if that one was partly sent, it is torn on the wire |
| `rmp` with `N = 5`, and one receiver | `InOrderToAll` | `recvep_handle_odata` tests the limit of the reorder buffer only when something is buffered, so that an overtaken receiver accepts a packet any distance ahead, takes it for the one that shares its slot, and hands out 1, 2, 5 |
| `rmp` | `AckNeverBehindHead` | an acknowledgement that is repeated, late, or no higher than the last lies behind the head: `CMN_ASSERT(false)` in `sendep_handle_ack` |
| `utils` | `LogGoesOn` | two logs of one directory and prefix (every accepted endpoint uses `tcp_endpoint_`) change files in the same second: `mkdir` or the exclusive `open` of the second fails, and `check_log_file` asserts |

Seen while modelling, without a property of its own:

* the sender lets one packet more fly than a reorder buffer takes: the test in
  `handle_can_send` allows `__SEND_WIN_SIZE__ / 10` = 100 000 packets beyond the
  head *before* the next is sent, and `__UNORDERED_PKGS_CNT__` is 100 000 too. A
  receiver that misses the first of a full flight and gets the rest ends at
  `CMN_ASSERT(false)`, although nobody overtook it. TLC reaches it with one
  receiver, `N = 4`, `Flight = UnvalidPkgsSize = 2`, `MaxRestarts = 0`; with a
  buffer larger than the flight it cannot happen, which
  `RmpProofs!LimitNeedsTheWholeFlight` proves.
* an interrupted `recvmsg` (`EINTR`) comes back as `CMNERR_RECV_PENDING`, for
  which `handle_input_evt` has a `CMN_ASSERT(false)`: a signal taken by the
  thread of the input task can end the process (`"RECV_PENDING"` in
  `RupEndpoint`, `"pending"` in `RupRecv`).
* the connector whose addition to the output task failed stays in
  ADDING_INTO_OT, whatever is called: without the exemption `Stuck` its
  `CloseCompletes` fails.
* `instance()` of a singleton reads the pointer once more after the lock;
  `destroy()`, which takes no lock, may have cleared it by then.
* `stop()` of a started engine ends at `thread_ex.cpp:153`: `stop_wait()` has
  dropped the task, and `reset_task()` asserts that there is one.
* a `start()` that fails leaves tasks and threads behind, and the `stop()` that
  `sn_engine.cpp:44` asks for is refused in ES_STOPPED; `pthread_create` reports
  failures by positive numbers, which pass for success.
* `begin_lock_state` returns a `bool` that its callers compare with zero by `<`,
  so that a stopped engine is not noticed there but by an assertion further on.
* the keep-alive of an endpoint counts rounds of its io loop, not time: traffic
  of other endpoints can make it cut off an idle peer that is alive.
* the last block of `CSmartRB` with data can never be given back, and a ring of
  one block is stuck after one write.
* nothing calls `exec()` of the event engine, so that posted events stay.

## 5. What is proved

Every theorem is about the specification itself, with all its steps, for every
value of the constants that the named assumptions allow. TLC evaluates the
assumptions on every run.

### RupEndpoint

For any set of endpoints, from two assumptions only (`NoObj` is not an
endpoint; there are exactly the two tasks "OT" and "IT"):

* `RupEndpointProofs!TypeCorrect`: `Spec => []TypeOK`. Types include that the
  counts of copies stay natural numbers.
* `RupEndpointProofs!Inductive`: `Spec => []IndInv`.
* From it `EraseNeverMisses`, `DequeIsExact`, `CallbackKeepsEndpoint`,
  `EventsArePinned`, `EventsFindTheirConnection`, `SockNeverNull`, `NoErrPending`, each `Spec => []P` for a
  property of the run `rup_endpoint`.
* `RupEndpointProofs!Refinement`: `Spec => ImplementsConnection`. A step posts
  at most one event to at most one endpoint (`PostsOrRests`), and each row of the
  table moves an endpoint along one of the moves of `Connection`
  (`AllowedMoves`) or not at all. `IndInv` is used for what may be pending in
  each state, and to know that a callback has an endpoint.

The argument. None of the safety properties is inductive: that a deletion finds
its object depends on what is still in the caches, in the local vector of each
task and in its current callback. `IndInv` adds that the state of an endpoint
determines all of it: in ADDING_INTO_OT exactly one addition is due in the
output task and nothing else anywhere, in DELING_FROM_IT exactly one deletion in
the input task, and so on (`DueMatchesState`), where "due" counts the copies in
the cache, in the vector and in the callback; which task holds the endpoint
(`HeldMatchesState`); what the socket is (`SockMatchesState`); what may be
pending (`PendingMatchesState`); and that each task's local variables agree with
its program counter (`TaskInv`). Two states need care, and are the reason for
the length of the proof. After a failed addition to the output task the endpoint
is CLOSED while the task is still going to post ADDED_INTO_OT (`Stale`), and may
even be open again by then. After an abandoned addition to the input task that
task holds the endpoint for ever, so membership is an implication there and the
kernel's set must be bounded separately. The proof goes by the actions of
`Next`, for each of which one step shows each part; the events of the state
machine are proved once and used by every action that posts one.

### RupConnector

For any set of connectors that share the two threads, any `MaxIdle`, with and
without failures (`ConnectorAssumption`, `NoObjAssumption`, `NoTimerAssumption`):
`TypeCorrect`, `Invariant` (`Spec => []ConnectorsInv`), and from it
`ClosedIsReleased` (`TasksAgree`), `EventsFindTheirAttempt`
(`HandlersFindExpected`) and `Refinement` (`ImplementsConnection`). The run has
one connector; the theorems say that what several of them share does no harm.

`ConnectorsInv` is the accounting of `IndInv` for two different threads at once:
the state says how many additions and deletions are due in the output task and
in the misc thread, which of them holds the connector, and what its socket is.
The state ADDING_INTO_OT is the exception: after a failed addition nothing is
due and the connector stays there, so the count is bounded and not determined.
The invariant says nothing of a process that died, and allows it to die of one
assertion, the one that fails (`NoSockLeftOver`, section 4). The proof splits a
step in three: what the handler does to the connector it is for (`HandlerOutcome`:
each row of the table is an `Effect` on state, pending event, socket and the four
caches), what the thread takes out of its hands meanwhile (`Took`), and that no
other connector notices (`ConnectorFrame`).

### IoServices

For any set of multicast endpoints and any set of acceptors in the same two
tasks (`IoServicesAssumption`, `NoObjAssumption`, `RmpEpsAssumption`,
`AcceptorsAssumption`): `TypeCorrect`, `Agreement` (`TasksAgree`), `Refinement`
(`ImplementsConnection`), and `AssertsHold`: an object that a task inserts is new
to it, and the listener is open when an acceptor is opened and when it is closed.

The invariant is `TypeOK` and, while no assertion has failed, `Holds`. It names
where an object can be with a task: in neither set nor hand (`Out`), held (`In`),
queued or taken for insertion (`Queued`, `Taken`), told of the failed or done
insertion (`Failed`, `Added`, `Unadded`), and the same for its deletion
(`Leaving`, `Erasing`, `Deled`, `Doomed`). For each state of an endpoint or an
acceptor, `RmpStands` and `AccStands` say which of these it is with each of its
tasks and what its socket is; `TaskHolds` says it of what all objects share. Two
places are odd and real. `Unadded`: the task tells an endpoint of a failed
insertion after the endpoint was closed, and by then it may have been opened
again, with a second copy queued. `Doomed`: an object is to be deleted while it
is still to be added, so that its deletion ends at the assertion in `exec()`.

The proof separates what an event does to its object from what it does to the
queues. Each row of the two tables is an `Effect` on state, pending event, socket
and caches, and is proved once (`RmpPosts`, `AccPosts`). Each step of a task moves
one object `Forward` through its places, or leaves it where it is (`Rests`); a
callback is a step and a post together (`ToldFailed`, `ToldAdded`, `ToldDeled`).
`PostKeeps` and `TaskKeeps` put them together, for one object and for all others.

### Engine

For any finite sets of io objects and tasks, any number of threads of each kind
and so any number of successful and failing calls of `start()`
(`CountsAssumption`, `NoObjAssumption`): `TypeCorrect`, `Invariance`
(`Spec => []EngineInv`), `HeldAsNamed` (`HeldWhereIdSays`) and `CountCorrect`
(`CountNeverWraps`).

`EngineInv` names four ways in which an object stands to a task (`OutAt`,
`AddingAt`, `InAt`, `DelingAt`), each by where its copies are: in one of the two
caches, in the local vector of `exec()`, in `m_setIoObjs`, in the callback. Which
of the four it is follows from what the object waits for and from its task ids
(`StandsAsTold`), with one gap: between taking the mutex and `add_io_obj` the
object waits but is nowhere (`Placed`). That an id leads to one task only needs
that no task is in two places of the vectors (`VectorsHold`), which comes down to
the numbers `start()` gives them. For the count, an object in the delete cache
is still in `m_setIoObjs`, so that the first size read is at least the
third; what `exec()` does in between can only shrink the delete cache, and
`del_endpoint`, which fills it, is shut out by the mutex (`CountCovers`). Reading
in another order breaks it, which the run shows. The size of a cache is a
cardinality, compared by an injection.

### Rmp

For any set of receivers, any number of packets, any window, and any reorder
buffer not smaller than the flight (`RmpAssumption`; the code's are equal):

* `TypeCorrect`, `Invariant` (`Spec => []RmpInv`);
* `InOrderDelivery`: `Spec => []DeliveredInOrder`;
* `WindowTest`: `Spec => []WindowTestNeverWraps`;
* `FreesSafely`: `Spec => FreesOnlyWhatAllHave`, an action property;
* `LimitNeedsTheWholeFlight`: as long as nobody was overtaken, no receiver
  reaches the limit of its reorder buffer unless the buffer is as small as the flight.

`RmpInv` relates the two ends. The sender: each slot from head to tail holds the
packet of its number, what was multicast is below the tail and at most a flight
beyond the head, and no acknowledgement, on its way or noted, is more than its
receiver has (restarted ones aside). A receiver nobody overtook: the range
of early packets starts past the next one and is no wider than the buffer, every
full slot holds a packet of its own (`Buffer`); and what the application was
given, the packet in `m_pMem` and the run being handed out make 1 to the latest
(`Handing`). That two numbers never meet in one slot is arithmetic
(`DataLemmas!SlotsDiffer`): they differ by less than the size. The loops of
`recvep_handle_odata` that look for the next free or next full slot are
operators that take a least or greatest element; that there is one is proved by
the induction on the natural numbers that the library proves for sets
(`DataLemmas`), since an induction rule with an operator parameter cannot be used.

### RupRecv

For any opcodes, body sizes, header and block sizes and any number of packages
(`SizesAssumption`): `RecvTypeCorrect` (`TypeOK`), `InOrderDispatch`
(`DispatchedInOrder`) and `NothingLost` (`OrderlyCloseLosesNothing`).

`RecvInv` relates the two ends of the stream. The bytes in the block and then the
bytes on the wire (`Ahead`) are the last bytes of what was sent: each is followed
by the rest of its package, the last of a package by the first of the next, to
the end (`Follows`). What was handled is all that came before the first byte
ahead: between packages, the bodies of all earlier ones (`AtBoundary`); in
`dispatch_fun`, those and the first k - c of the k bodies of the package, where
the first byte ahead is the first of the next body (`InBodies`). Receiving,
moving the data ahead in the block and cutting the stream anywhere leave `Ahead`
as it is, and the dispatcher takes from its head what it adds to the handled.
`recvmsg` is given no room only if the block is full and begins with an
incomplete package, and a package that `CArchive` made is never longer than the
block. The list of all bodies is a fold over the packages (`FlattenSeq`, a
function by recursion); what is needed of it is proved by a least counterexample
(`FlattenExists`, `FlattenUnique`, `FlattenAppend`).

### RupSock

For any threads, any number of messages each, and any message that fits a block
(`SockAssumption`): `SockTypeCorrect` (`SockTypeOK`), `ByteOnce`
(`EachByteOnce`), `QueueOrder` (`QueuesKeepOrder`), `WholeMessages`
(`WholeOrNothing`) and `MessageOrder` (`MessageInOrder`).

No property is inductive by itself: that the rest of a cut message may go in
front of the queue depends on who else can have queued meanwhile. `SockInv` says

* who holds `m_lkSending`, and that the task in its loop finds a block
  (`SockLockInv`);
* what a thread has in hand: bytes of its current message only, in order, all of
  it until `::send` took some, and then the bytes after those on the wire
  (`HandInv`);
* what is on the wire and in the queues: nothing of a later message of a thread,
  of its current one only after a cut, then only on the wire, and nothing of the
  thread in `m_qSendCache` while it is at `::send` or has a rest in hand
  (`KeptInv`): `send()` found that queue empty, and the thread itself is what
  could have filled it with its own data;
* the order: each message's bytes in order on the wire and from the wire to the
  queues, each *thread's* bytes in order in the queues (`OrderInv`). On the wire
  the order of a thread's messages is lost, see `SentAfterWaiting` in §4;
* that a message is kept whole (`WholeInv`).

A step inserts bytes into the queue (`InsertKeepsOrder`), sends bytes from the
hand (`SendKeepsOrder`) or moves the head of the queue to the wire
(`DrainKeepsOrder`); the swap leaves what waits, both queues one after the
other, as it is. Which blocks the bytes lie in does not matter
(`FlattenConcat`, again by a least counterexample).

### Utils

For any threads, pointers, objects, events, users, permits and ring size:
`Invariant` (all five utilities except the log), `Pointers`
(`DisposedWhenUnreferenced`), `EventOrder` (`EventsOnceInOrder`), `Exclusion`
(`ExclusionHolds`), `RingBuffer` (`RingKeepsUnread`). The keys:

* smart pointers: `m_iCnt` of an object is the *number* of pointers that hold
  it, where a pointer in the middle of an assignment stops or starts to hold at
  the decrement or increment, and not when it changes its target (`Holders`,
  `Counted`);
* event engine: what was handled, what is left of the deque `exec()` walks, and
  the cache are together what was posted, in order;
* locks: the semaphore says how many permits are free but not whose the others
  are; an assignment of each permit to one owner is shown to exist at every step
  (`Accounted`), and a writer that owns all of them excludes everybody else;
* ring: an unread block keeps its index, because the writer's next block and
  the reader's last are never the same slot.

### Left to TLC

Liveness, which is out of the prover's reach, and `TraceHitsItsLog`, whose bet on
two full intervals needs a history of clocks for each trace.

## 6. What is not modelled

* `send_data()` of the multicast endpoint, group membership, several senders in
  one group; the speed control, which is compiled out.
* The destruction of endpoints, acceptors and connectors, and the keep-alive
  counters.
* Blocking sockets: an accepted socket stays blocking, and a `::send` to a peer
  that does not read stops its output task. `RupSock` takes `::send` to return.
* Descriptor numbers of sockets, and so the reuse of a number between a `close`
  and a late `::send`.
* Both mutexes of connector and endpoint while a socket is handed over: an event
  is one step of one object.
* The accept loop together with the acceptor's state machine: each is modelled,
  in `RupEndpoint` and `RupAcceptor`, but not the two together.
* Unlocked reads beside writes are taken to see the value before or after, never
  a torn one. Memory order is taken as sequential.
* Left out for good: `CThreadMan`, the select notifier, `sock.h` and code that
  is compiled out; addresses, `time_info`, `obj_factory` and the path helpers,
  which are stateless; the delegate templates, which are third-party; the demos
  and `smart_pbx`, which are clients of the library.

## 7. Plan

| # | what | how |
|---|---|---|
| 1 | `HandOver` | the mutexes of connector and endpoint as variables: their order |
