# TLA+ models of ndsl

TLA+ modules, TLC runs and TLAPS proofs for ndsl, an asynchronous network
library for Linux: one event loop per thread, channels over epoll, connections
with callbacks, a time wheel, thread pools, and the protocols built on them
(multiplexed entities, file and data transfer, DNS, RDMA).
Paths below are relative to the repository.

## Inventory

| part | source | state | operations | how it meets the others |
|---|---|---|---|---|
| EventLoop, WorkQueue | `src/ndsl/net/EventLoop.cc`, `include/ndsl/net/EventLoop.h`, `include/ndsl/utils/WorkQueue.h` | work queue under a mutex, a queue eventfd, an interrupt eventfd (both semaphores), the epoll set | `loop`, `addWork`, `removeWork`, `quit`, `enroll`, `modify`, `erase`, `runAfter`, `cancelRunAfter` | any thread posts; the loop thread runs items and channel callbacks |
| Epoll, BaseChannel | `src/ndsl/net/Epoll.cc`, `src/ndsl/net/BaseChannel.cc` | raw `Channel*` in the kernel's set; `revents_` | `enroll`, `modify`, `erase`, `wait`; `handleEvent` | at most `MAX_EVENTS` raw pointers per batch |
| TimeWheel | `src/ndsl/net/TimeWheel.cc` | 60 lists of tasks, the current slot | `start`, `stop`, `addTask`, `removeTask`, `onTick` | a timerfd channel; tasks call back into the wheel |
| WQThreadpool | `src/ndsl/net/WQThreadpool.cc` | work queue, `mutex_`/`cond_`, `isRunning_`, threads | `start`, `addWork`, `doWork`, `quit` | posters and workers share the queue |
| TcpConnection | `src/ndsl/net/TcpConnection.cc` | queue of unfinished sends, one registered receive | `onSend`, `onRecv`, `handleRead`, `handleWrite`, `sendFile` | an edge-triggered channel of an EventLoop |
| Semaphore | `src/ndsl/utils/Semaphore.cc` | a counter, `mutex_`/`cond_` | `take`, `give` | threads |
| ELThreadpool, EventLoopThreadpool | `src/ndsl/net/ELThreadpool.cc`, `src/ndsl/utils/EventLoopThreadpool.cc` | loops, their threads, the next one | `start`, `getNextEventLoop`, `setMaxThreads`, `quit` | one EventLoop per thread |
| TcpAcceptor, UnixAcceptor, TcpClient | `src/ndsl/net/*Acceptor.cc`, `src/ndsl/net/TcpClient.cc` | one registered accept | `start`, `onAccept`, `handleRead` | create connections on a loop |
| UnixConnection, PipeAndFifo, UdpEndpoint | `src/ndsl/net/` | queues of unfinished sends, one registered receive, like TcpConnection | `onSend`, `onRecv`, `onError`, handlers | channels of a loop |
| EventfdConnection, FifoIpc, SignalHandler | `src/ndsl/net/` | an eventfd's counter; a pair of FIFOs; the signal mask, a signalfd | `onWrite`, `onRead`; `createAndOpen`, `openChildFifo`; `registSignalfd`, `unBlockAllSignals` | channels of a loop; the kernel and another process |
| Multiplexer, Entity | `src/ndsl/net/Multiplexer.cc`, `src/ndsl/net/Entity.cc` | framing state of a connection, its map of entities | `registEntity`, `addRemoveWork`, `sendMessage`, `dispatch` | over TcpConnection; the map changes through `addWork` |
| DTP, DTPClient | `src/ndsl/net/DTP.cc`, `src/ndsl/net/DTPClient.cc` | listeners, transfers, timers, maps by name | `sendFile`, `recvFile`, `sendData`, `agreeRecv...`, callbacks and timeouts | control messages over the entities' connection, the data over TCP or UDP sockets of their own, timers of the loop |
| Dns | `src/ndsl/net/Dns.cc` | table of outstanding queries, one UDP socket | `init`, `stop`, `setNameServer`, `request`, `handle_read` | a channel of a loop; callbacks through `addWork` |
| RdmaConnection | `src/ndsl/net/RdmaConnection.cc` | registered memory, handlers of both queues | `onSend`, `onRecv`, atomic operations, `handleSend`, `handleRecv` | completion channels of a loop |
| RdmaAcceptor, RdmaClient | `src/ndsl/net/RdmaAcceptor.cc`, `src/ndsl/net/RdmaClient.cc` | one accept request; the state of a connect | `onAccept`, `establishConection`, `initCmChannel`, `handleCmEvent` | events of the connection manager |
| Log, Error, Xml, pugixml, SocketAddress, SocketOpt, Guid, Endian, TimeStamp, Plugin, V8Work | `src/ndsl/utils/`, `src/ndsl/net/` | none worth a model | conversions, wrappers, output | |

What is hard here: threads that post while the loop drains (EventLoop,
WQThreadpool, Semaphore); flags read outside the lock that protects what
they guard (`WQThreadpool::addWork`); callbacks that re-enter the object that
calls them (TimeWheel, TcpConnection); edges that are reported once
(TcpConnection, Dns, SignalHandler, the completion queues); raw pointers kept
across callbacks (Epoll's batch, the wheel's lists) and timers that outlive
what they point to (DTP); one request slot tested around the callback that
fills it again (the acceptors); streams cut at any byte (Multiplexer); lost
and repeated datagrams (Dns); two processes that block in `open()` for each
other (FIFOs); arithmetic modulo the number of slots or loops; short sends,
EAGAIN and resets. `PROJECT.json` lists each hazard at its line with the property
that would catch it, or with the reason none does yet.

Each part is correct when:

- EventLoop: posted work runs once, in order and eventually, unless removed;
  `quit` ends `loop` after the work that preceded it; no eventfd is read
  without a token; no event is dispatched to a channel that has left the epoll
  set, unless another callback or thread took it out during the batch.
- TimeWheel: a task is in one list, fires on its tick as often as asked.
- WQThreadpool, Semaphore: no thread sleeps beside something to do with
  nobody awake; `quit` returns, after the earlier work.
- TcpConnection: a completed send was sent whole, messages do not mix, every
  request is answered, the end of the connection is reported.
- Pools of loops: loops are handed out in turn, `quit` joins every thread.
- The other endpoints: a callback of a send means the bytes have left; an
  accept request meets a client; FIFOs open without waiting for each other.
- Multiplexer: messages come out of the stream as they went in; the map holds
  only entities that are there.
- DTP: success that was notified stands, timeout and completion do not
  both free, a transfer that began ends.
- Dns: a query is posted once, however often it is answered, and its task is
  deleted once, with nothing left that points at it.
- SignalHandler: a signal found pending is ignored once.
- RDMA: a callback for a completion, no completion unpolled, one connection
  for each client, until it was told.

## Modules

### EventLoop, WorkService, EventLoopProofs

`EventLoop` has one thread in `loop()` (`pc`, `scan`, `channels`, `haswork`,
`quit` are its position and locals) and any number of others. `queue_` and
`getQueue` are the lists of `WorkQueue`; `queFd` and `intrFd` the eventfd
counters; `call[t]` is the item a thread has enqueued and not yet signalled.
A section under `queueMutex_` is one action: `enqueue`, `removeWork`,
`onQueue` (the emptiness test), `swap`. `addWork` is two actions, `enqueue`
and `onWrite`; this gap is where a wake-up could be lost.

epoll is external. It is modelled as the kernel has it: a ready list whose
entries are polled one at a time when `epoll_wait` harvests them
(`waitScan`), dropped when no longer ready, and put back at the tail when
reported level-triggered. Batches hold `MaxEvents` entries, so a busy channel,
the queue and the interrupt compete for places. `waitError` is `loop()`
returning `S_FALSE`. EINTR retries inside `Epoll::wait` and changes nothing.

A user channel is enrolled and erased by any thread, work item or callback, its
own or another channel's. The library itself erases and deletes other channels:
`DTP::stopListen` and `stopListenOfData` do so from the timer's callback,
`sendDataCallback` from the connection's handler. A channel erased while the
batch is fetched or dispatched (`cut`) leaves a dangling pointer in `channels[]`;
the code has no defence, and when its turn comes the callback still runs or the
process ends (`pc = "undefined"`). `DispatchEnrolled` says that nothing else leaves
such an event behind: not an erase by the channel's own callback, by a work item
or before `epoll_wait` woke up.

`WorkService` is what a client sees: a line of items, started from the head
or cancelled. `EventLoop` implements it with `pending <- getQueue \o queue_`.

### TimeWheel, TimeWheelProofs

Slots, tick and timerfd as in the code. `onTick` is cut at the callback:
`onTick` (read, advance, swap the list out), then per entry `tickPostpone`,
or `tickFire` followed by `tickDelete` or `tickRepeat`, then `tickDone`.
Between `tickFire` and the next step the callback may call `addTask`,
`removeTask`, `stop` and `start`. A task's `owner` says who may use the
pointer; `age` counts ticks since it was armed. `tickPostpone` does not
advance the iterator, as in the source. When `onTick` meets an entry of a task
it has deleted, the code reads freed memory and the model stops
(`ReadsDeleted`).

`start` covers the failures after the slots were emptied: the tasks in them
are forgotten (`owner = "lost"`). `EventLoop::runAfter` is `start` if needed
and `addTask`; `cancelRunAfter` is `removeTask`.

### WQThreadpool, WQThreadpoolProofs

Workers, posters and the thread that owns the pool. A section under `mutex_`
is one action. `addWork` reads `isRunning_` before it locks, so that test
(`addWorkTest`) is an action of its own. `pthread_cond_signal` wakes an
arbitrary waiter and `pthread_cond_wait` may wake spuriously. One life of the
pool (`start` to `quit`) with a fixed `maxThreads_`; the threads of `start`
appear in one step, which hides nothing since the queue stays empty until
`isRunning_` is set. `pthread_create` may fail for any of them, which `start` does
not notice; `quit` then returns early, at the thread it cannot join
(`quitJoinFails`).

### TcpConnection, TcpConnectionProofs

`qSendInfo_` and `recvInUse_` as in the code. The socket has a bounded send
buffer, pending input as a flag, close and reset; `edge` is its place on
epoll's ready list, `revents` what `epoll_wait` returned and `handleEvent` has
not processed. Other callbacks of the same batch may call `onSend` and
`onRecv` in between, on the same thread. Bytes carry their message and
position, so order, loss, duplication and mixing can be told apart. Freed
buffer space is an event only after a send that fell short, as in the kernel.
`offset_` is a `size_t` that can hold -1; the sum wraps in the code exactly as
integer addition of -1, which is what the model uses.

### Semaphore

`take` and `give` of several units under `mutex_` and `cond_`. `ThreadsProofs` has
the proofs about this module, `ELThreadpool` and `Dns`.

### ELThreadpool

Both pools of event loops, `ELThreadpool` and the older `EventLoopThreadpool`
(`variant`), with `Thread`. One caller follows the order of the tests; the
threads of the loops run beside it. `init()` and `pthread_create` may fail, and
the model keeps what the code keeps then: a loop without a thread stays in
`loops_`. `quit` is cut at each destructor into request, join and delete. A
null pointer used, a thread joined that was never created, or `% 0` sets
`crashed`. The history `since` keeps, of each loop handed out since `start`, the
loops handed out after it.

### Dns

The table of outstanding queries in buckets, `count_`, and the datagrams. The
server and the network lose, repeat and reorder answers, and other packets
arrive. `handle_read` is a loop of steps: one takes up a datagram (`response`), then
one for each of its records. An entry carries the number of its request, so that
two requests of the same task are told apart. A name is the
lengths of its labels, which is all that `coding` decides on; a packet the
types of its records.

An answered task is work of the loop, and `WorkQueue::doit` deletes it (`runTask`).
A task that was asked twice has two entries: after the first answer the other one
dangles, and `find_query` may stop there (`Stops`, `recordDangles`), or a second
answer posts and deletes the task again. Nothing locks the table: a `request`
of another thread that meets `handle_read` succeeds, or it or another call tears
what `handle_read` uses (`callRaces`). `undefined` ends the behaviour.

### Endpoint, UnixConnection, PipeAndFifo, UdpEndpoint, Endpoints

`Endpoint` has what the three classes share: a socket with room for `Room`
bytes, input as a count, the edge (or level, for a UDP server) and the event
that `epoll_wait` returned. The three modules have the operations of the class.
They differ in what they do with an error: a `UnixConnection` gives the send
up, the other two queue it at offset `(size_t)-1`, so that the byte in front
of the buffer goes out first (place 0 of the message). `Endpoints` is a
process that uses one of the three (`kind` says which), with `EndpointSpec`.
`errorHandle_` without `onError`, and `RecvInfo_` before `onRecv`, hold
whatever the memory held: the process ends, or anything the branch can do happens.

### Acceptor, FifoOpen, SignalHandler, EventfdConnection

`Acceptor` is `TcpAcceptor` and `UnixAcceptor` (`family`) with clients that come
and give up; the callback may register the next request, inside the handler's
step. `FifoOpen` is two processes in blocking `open()` calls, with the three
pairs of functions that `FifoIpc` and `PipeAndFifo` offer. `SignalHandler` has
the signal mask, the number of pending instances of each signal and the
signalfd, which blocks. A standard signal is pending once, a real-time signal is
queued; when the mask is emptied every instance is delivered, and a second one meets
the default action that `handleSignalEnd` put back. In
`EventfdConnection` the registered callback is never called by the handler;
the module is exercised, and no property is stated of it.

### Multiplexer

`dispatch` byte by byte: bytes that `recv()` returns are cut anywhere, and the
header, the payload and the position are kept as in `incompleteBuf`. The
module follows the code where it reads past what it was given: the test for a
short header compares with all that was received and not with the rest
(`HeadStaysOpen`), the payload is copied whether received or not, and its
length is what `strlen` finds. What lies behind the buffer is 0 or `Junk`.
`overread` says that this happened. Entities come and go through work items.

### DTP, DTPProofs

A job is one call of `sendFile`, `recvFile` or `sendData` (TCP, UDP), between
one sending and one receiving client. Control messages are a reliable queue
in each direction (`Multiplexer` stands below it), until a transfer that comes
in pieces puts its own receive in the place of `dispatch`: what arrives then is
lost (`controlMessageLost`). Every object the code deletes has a state
(`live`, `freed`, `twice`); a job's timer may fire when its object is gone,
and then what is read is anything. `acceptorCallback` deletes the acceptor, and
`sendDataCallback` acceptor and connection, under handlers of these objects
that read them afterwards: the sender may end there (`OwnerDeleted`). A peer whose
connection was not accepted is reset when the acceptor goes, as `TcpChannel`'s
destructor shuts the listening socket down. `Contents` lets the data change between
checksum and transfer.

### RdmaConnection, RdmaAcceptor, RdmaProofs

The device is external: posted requests complete in order, well or badly, and
a completion signals the channel once if the queue is armed. `pollIncomingData`
is cut at fetching the signal, arming, and each poll, so that completions
arrive between any two of them. The device may refuse to arm or to poll a queue
of `Unreliable` (`armFails`, `pollFails`): `pollIncomingData` then returns with
completions left in it. In `RdmaAcceptor` the connection manager is
external: events are fetched and acknowledged, one by one, by acceptor and
clients. A disconnect is told to both ends, each in its own time (`hangUp`), so that
the server may have deleted its connection before the client hears of it.

### MC modules

`MCEventLoop`, `MCTimeWheel`, `MCTcpConnection`, `MCDTP` add symmetry sets and
the requests of the time wheel. `MCThreads` (`Semaphore`, `ELThreadpool`, `Dns`),
`MCIpc` (`Endpoints`, acceptors, FIFOs, signals, eventfds, multiplexer) and
`MCRdma` put components that do not interact under one run: `part`, chosen in
the initial state and never changed, says which of them the process uses, so
that a run is the sum and not the product of its components.

Definitions preceded by a comment "A bug: ..." are not part of a
specification. Each is the mutation of the definition that follows it, used to
show that a property can fail.

## Runs

Passing runs:

| run | instance | shows |
|---|---|---|
| `eventloop_safety` | 2 items, 2 threads and the loop thread, 2 channels, batches of 2, 1 `quit`, 1 call of `loop` | `ReadsToken`, `NoLostWakeup`, `FifoNoLoss`, `QuitRunsEarlierWork`, `DispatchEnrolled`, refinement of `WorkService` |
| `eventloop_live` | 2 items, 1 thread, 1 channel, batches of 1, 2 `quit`s, 2 calls of `loop` | `WorkServed`, `QuitServed` although a channel may stay ready for ever |
| `timewheel` | 2 tasks, 3 slots, intervals 0, 1, 2, 3 and 4, up to 2 unread expirations | `ListedOnce`, `FiresWhenDue`, `FiresExactlyTimes`, `TaskFires` |
| `wqthreadpool` | 3 workers, 2 posters, 2 items | `NoIdleWhileWork`, `EarlierWorkDone`, `QuitReturns` |
| `tcpconnection` | 3 messages of 2 bytes, buffer of 3 | `CallbackMeansSent`, `RecvArmed`, `CloseReported` |
| `threads` | 5 takers of single units, up to 6; 2 processors, limits 0 to 5, 5 loops created; 2 DNS tasks, 3 requests, 1 datagram in the socket | `NoSleeperBesideUnits`, `UnitsUsed`; `HandedOutInTurn`, `PoolQuitReturns`; `PostedOnce` |
| `dtp` | 2 jobs of any kind, 2 names, 2 bytes | `VerdictStands`, `DataDeletedOnce`, `TimeoutEndsListening`, `TransferConcludes` |
| `ipc` | sends of 2 and 4 bytes, room for 4; 3 clients, 3 requests; 3 signals, one of them real-time and queued twice; 3 messages of 4 and 5 bytes, 2 entities, a receive buffer of 6 | `CallbackAfterBytes`, `DatagramsServed`; `RequestMeetsClient`; `FifoIpcOpens`; `PendingNotFatal`; `FramesIntact`, `RegisteredAlive`, `DispatchReturns` |
| `rdma` | 2 buffers, 3 posts, 2 pending, the receive queue unreliable; 2 clients, 2 connections | `CallbacksCovered`, `CompletionsPolled`; `EachItsConnection` |

Several of these hold with an exception that their comment names, because the
code makes it: `FramesIntact` except after `overread`, `DispatchReturns` except
on a message of a user, which `dispatch` passes on again and again,
`TransferConcludes` except for the rest of a file that did not fit into the
socket's buffer and for a process that is down, `RequestMeetsClient` and
`HandedOutInTurn` for the TCP acceptor and `ELThreadpool` and not for their
siblings, `CompletionsPolled` except for a queue the device refused to arm or poll,
`WorkServed` and `QuitServed` except when an event of a deleted channel ends the
process, `QuitReturns` except when a thread could not be created. `VerdictStands`
excepts a `recvFile` whose entry in `timeMp_` was taken by another one: its timer is
not cancelled and reports failure after the success. `PostedOnce` names the two
things that lead to the use of freed memory (a task asked twice, a call from
another thread during `handle_read`) and says that nothing else does.
`PendingNotFatal` names the queued real-time signal as the one that is not ignored.
`CallbacksCovered` counts the completions of a buffer on both queues, atomic operations
included. The clause of `TimeoutEndsListening` on a file being served is about a
`ListenMgr` that still exists.

Runs whose property is violated, because the code departs from what a comment
or a test of the repository says (quoted in `PROJECT.json`):

| run | property | what happens |
|---|---|---|
| `timewheel_turns_early` | `FiresOnTick` | an interval of more than a turn: the entry is put back and, the iterator not having moved, looked at again until it is due, in the same call |
| `tcpconnection_mix` | `StreamIntact` | `onSend` sends past a half-sent message of the queue |
| `dtp_dispatch` | `DispatchNeverStops` | a buffer that comes in pieces: the receive of the rest is registered on the control connection and replaces `dispatch` |

Further statements of the repository that the code does not keep are defined
in the modules and are not runs of their own. Adding one to the cfg of its
component's run shows the behaviour:

| definition | what happens |
|---|---|
| `TimeWheel.WheelKeepsTime` | two expirations read at once count as one tick |
| `WQThreadpool.NothingAddedAfterQuit` | an `addWork` past its test of `isRunning_` enqueues after `quit` returned |
| `TcpConnection.GivenUpMeansReset` | EAGAIN in `handleWrite` drops the message |
| `TcpConnection.SendCompletes` | an edge with EPOLLIN and EPOLLOUT is used for reading only |
| `FifoOpen.PipeAndFifoOpens` | `createAndOpenFifo` and `openAndMatchFifo` both open the first path for reading, and each waits for a writer |

Bounds. Two items and two posters let one item be running, or in the batch,
and the other queued while a poster is between enqueue and signal. Two slots of a
batch let the queue and a channel be reported together, or two channels, of which
the callback of one erases the other; one slot makes them compete. Three slots of the wheel have an interval below, at and above a turn.
A buffer of three bytes and messages of two make a message fit, fit in part
and not fit; for the other endpoints room for 4 does it with 2 and 4 bytes. Five
loops, and limits below, at and above the capacity of 4, let the index
wrap, meet a loop that failed, and restart after `quit`. Two buckets
(the constant `DNS_BUCKET_SIZE`, 64 in the code) and three requests make queries share a
bucket; `IdCount` is 8 instead of 2^16 and is not exhausted, so that
identifiers do not repeat within a run. Headers of `Multiplexer` have one byte for
each of their two fields, so that a header, too, is cut; six bytes hold one
message and the beginning of another. Two transfers suffice for the cases in
which one takes the other's entry under a shared name, two bytes for a
transfer in pieces. A signal queued twice is what meets both the handler and the
default. One queue that may fail beside one that does not shows that
the failure of one does not stop the other. Three posts of two buffers put two requests for the same
buffer, with an atomic operation between, on the send queue. `MaxQuits`,
`MaxLoops`, `MaxExp`, `MaxUnits`, `MaxIn`, `MaxRequests`, `MaxSocket`, `MaxTotal`, `MaxQueued`
and `MaxPosts` cap counters; a task that was put back is not added again, as
each time would leave further entries in the lists. Deadlock is not checked
where the bounded environment may stop (`CHECK_DEADLOCK FALSE`).

`QuitRunsEarlierWork` is about the first call of `loop()`. When `loop()` is
called again, the ready list may still hold the interrupt channel's old entry
ahead of the queue's; with a batch boundary between them `quit` is then served
first.

Fairness. `loop()` keeps running once called (weak fairness of its steps as a
whole: it is one thread, and callbacks return); a thread inside `addWork`
reaches the eventfd write; workers, takers and `quit` go on when they can; so do
the threads of a pool's loops (`ThreadStep`) and the thread in its `quit`
(`QuitStep`), and the two processes that open FIFOs. The loop's thread goes on
with the handler it is in (`DispatchStep`, `HandlerStep`) and takes up an event
that stays (`EpollWait` with `handleRead` of UDP, `handle` of RDMA). The timer
expires (`TimerStep` in DTP), the transfers of DTP go on (`JobStep`) and the peer
reads what it was sent. No fairness is assumed of `addWork`, `quit`, `removeWork`,
`erase`, of a channel's input, of control messages or of anything a user may
call, and nothing strong: a mutex is never assumed to be granted to a thread
whose step is only intermittently enabled.

## Proofs

All proofs are checked by TLAPS without assumptions other than the named
`ASSUME`s on the constants and the two hypotheses named below, for every number
of threads, items, channels, messages, tasks, clients, jobs and units. The
invariants were checked with TLC on the runs' instances before they were
proved.

- `EventLoopProofs`: `TypeCorrect`, `NoLostWakeupHolds`, `OnlyPostedHolds`,
  `Refinement`. `NoLostWakeup` is not inductive: it speaks of the loop asleep,
  and says nothing of how it got there. The invariant `IInv` adds
  `Announced` (while the loop is anywhere but in the drain, queued work means
  a token in the eventfd or a thread about to write one), `Armed` (a token
  means the queue's descriptor is on epoll's list), `Wellformed` (the scan never runs past
  the list) and `BatchInDoit` (the swapped list is empty outside `doit`).
  Refinement maps `swap` to a stutter because `getQueue` is then empty, and
  needs `OnlyPosted` so that a posted item is new to the abstract service.
  `FifoNoLossHolds`: what has run, the batch and the queue are, end to end, the
  posted items that were not removed, in order; every step moves one item
  across a border or appends one. `ReadsTokenHolds`
  (`TokenInv`: an eventfd that is in the batch, or whose flag is set, has a token,
  which only this thread takes). `DispatchEnrolledHolds`
  (`DispatchInv` adds `BatchInv`: a descriptor is listed once and reported once, only
  enrolled channels are ready, and there is no batch outside `epoll_wait` and the
  loop over it). `QuitRunsEarlierWorkHolds` (`QuitInv`): while work from before a `quit`
  is owed, the queue's entry is ahead of the interrupt's on epoll's list or in
  the batch, and the drain takes all that is there.
- `WQThreadpoolProofs`: `TypeCorrect`, `NoIdleWhileWorkHolds`. The property is
  inductive with the type invariant: whoever enqueues, or takes an item and
  leaves work behind, wakes a waiter in the same critical section.
  `EarlierWorkDoneHolds`: the items of `quit` are behind every earlier one in the
  queue, a worker leaves only with one of them, and `quit` joins all. Its
  hypothesis is `Workers # {}`: `setMaxThreads(0)` is accepted by the code, and a
  pool without threads leaves its queue as it is.
- `ThreadsProofs`: `TypeCorrect` (for any units), `NoSleeperBesideUnitsHolds`
  (single units) of `Semaphore`. `HandedOutInTurnHolds` of `ELThreadpool`: `PoolInv`
  says that each loop is in `loops_` once and alive, that the number of loops in
  turn is within the capacity, where `quit` is in its walk, and `Turn`: the
  loops had since `start` go from some place to the end and on from the
  first, up to `nextThread_`, and their order in `since` is that of their last
  turns. `PostedOnceHolds` of `Dns`: `DnsInv` says that no entry is in the table twice
  and each has a request number already used (`EntriesOnce`), and that what a
  task had posted and the entries it still has are together at most what was
  requested (`Accounted`), with `count_` the cardinality of the table. `HeapInv` adds
  that a task is run at most as often as it was posted and that `undefined` has one
  of its two causes: a deleted task that is queued again or still has an entry
  was, by `Accounted`, asked twice. It holds for
  any numbers of buckets and identifiers, so also when identifiers repeat.
- `TcpConnectionProofs`: `RecvArmedHolds`. An edge leaves the ready list only
  into `revents`, and an event with EPOLLIN is consumed only by `handleRead`,
  which ends the request. `TypeCorrect`, `CallbackMeansSentHolds`: `StreamInv` says of
  every message how many of its bytes the stream holds (`offset_`, with the -1 of
  a failed send), in order and once, and that a message is in the queue
  once.
- `TimeWheelProofs`: `TypeCorrect`, `ListedOnceHolds`, `FiresExactlyTimesHolds`.
  `ListInv` places every task: in its slot, in the list being walked, or nowhere,
  with the calls it has had and still to have. `FiresWhenDueHolds` adds that
  the slot of a task is its due tick modulo the number of slots (`OnTime`). Its
  hypothesis `ZeroOnlyOnce` excludes repeated tasks of interval zero, which the
  wheel puts into the slot it has just emptied, to be called a whole turn later
  (a listed hazard; the run's instance has interval zero only once, too).
- `IpcProofs`: `ClientServedOnce`, `ClientsKept`, `RequestMeetsClientHolds` (the
  acceptors); `PendingNotFatalHolds`, an action property, from `SignalInv` (signals
  that were seen pending stay blocked and have the handler until the mask is
  emptied, and a standard signal is pending at most once);
  `RegisteredAliveHolds` (`LifeInv`: the items in the work queue and the life of
  an entity agree); `FramesIntactHolds`, whose invariant says at every byte of the
  stream what `dispatch` has of the header and of the payload, and that what
  it holds and what is to come are a message of the sender;
  `CallbackAfterBytesHolds` for all three endpoints (`EndpointInv`, as for TCP): every
  byte has left. That they left in order and once each is part of it for
  `UnixConnection` only; `PipeAndFifo` starts over at offset `(size_t)-1` and may repeat
  bytes, a datagram is one send.
- `DTPProofs`: `LifeHolds`, with `DTPInv`: the manager of a job is at one of eight
  places of its life, which say together what its timer, acceptor, connection and
  work item are. From it `DataDeletedOnceHolds`, `TimeoutEndsListeningHolds`.
  `VerdictStandsHolds`, an action property, adds `VerdictInv`: a job is announced at
  most once, in a message or in the map and never again after the user agreed;
  a `recvFile` whose user agreed has its timer cancelled unless `timeMp_` names
  another; a job that was told success has no receive registered any more.
  Checksums are taken as exact: nothing is said of collisions of MD5.
- `RdmaProofs`: `PhasesHold` and `EachItsConnectionHolds`: `CmInv` puts each client
  into one of seven phases that fix its own state, the events on their way to it
  and to the acceptor, the ends a disconnect has not reached, and its connection. `SuccessesCounted` and
  `CallbacksCoveredHolds`: callbacks run, completions polled and completions
  waiting on both queues are together at most the successful completions of
  a buffer; the lemmas on `Hits` count places of a sequence through `Append` and
  `Tail`.

Every safety invariant and every action property that a passing run checks has a
theorem. Only model-checked is

- liveness (`WorkServed`, `QuitServed`, `TaskFires`, `QuitReturns`,
  `CloseReported`, `UnitsUsed`, `PoolQuitReturns`, `DispatchReturns`,
  `DatagramsServed`, `FifoIpcOpens`, `TransferConcludes`, `CompletionsPolled`),
  which is outside what the prover handles.

## Not modelled

- Object lifetime in general: destructors, and what a component does after its
  channel was deleted under it. Where the code deletes as part of an operation (DTP,
  Dns, RDMA, pools, time wheel) the deletion is in the module, and `EventLoop`
  has channels erased by anyone; what follows a use of freed memory is not explored.
- A second life of `WQThreadpool`, and its destructor.
- The RDMA branch of `sendData` and `recvDataCallback`, which joins `DTP` to
  `RdmaAcceptor` and `RdmaClient`; the two are modelled each for itself.
- Errors of `socket`, `bind`, `listen`, `setsockopt` and of enrolment, which return
  `S_FALSE` before anything has changed.
- `Log`, `Error`, `Guid`, `Endian`, `TimeStamp`, `SocketAddress`, `SocketOpt`,
  `Interrupter`: single library calls, conversions to system structures, output.
  `SignalChannel.cc` is a constructor and commented-out code.
- `pugixml`, vendored, and the wrappers `Xml` and `xmlconfig`; `Plugin` and the V8
  glue.
- Examples, tests and benchmarks, which are applications of the library.

pugixml is nearly half of the repository's implementation lines, examples and
wrappers a large part of the rest. The modules above cover the stateful code
of `src/ndsl/net` and the thread utilities of `src/ndsl/utils`; what remains is
declarations, wrappers and error texts, and code that belongs to others.

## Plan

Every safety property of the runs is proved; liveness stays with TLC. What would
add most is the RDMA branch of `sendData` and `recvDataCallback`, which joins the
phases of `DTPInv` to those of `CmInv`.
