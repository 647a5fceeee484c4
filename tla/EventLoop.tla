------------------------------ MODULE EventLoop ------------------------------
(***************************************************************************)
(* The event loop of ndsl::net: EventLoop::loop with its work queue        *)
(* (QueueChannel / WorkQueue), its interrupt channel and the user channels *)
(* enrolled in its Epoll.                                                  *)
(*                                                                         *)
(* LoopThread executes loop(); every thread of Threads, and LoopThread     *)
(* itself from inside a callback or while loop() is not running, may call  *)
(* addWork, removeWork, quit, enroll and erase.  Sections under            *)
(* queueMutex_ are one step each; addWork is two steps (enqueue, then the  *)
(* eventfd write), as in the code.                                         *)
(*                                                                         *)
(* Epoll is external: a list of descriptors the kernel believes ready.     *)
(* epoll_wait examines entries one at a time, drops those that are no      *)
(* longer ready, and puts a reported level-triggered entry at the tail.    *)
(***************************************************************************)
EXTENDS Naturals, Sequences, FiniteSets

CONSTANTS
    Items,       \* WorkItems; each is allocated, and so posted, at most once
    Channels,    \* user channels that may be enrolled
    Threads,     \* threads other than the one that runs loop()
    LoopThread,
    NoItem,
    pQueCh_, pIntrCh_,
    MaxEvents,   \* Epoll::MAX_EVENTS
    MaxQuits,    \* bound: calls of quit()
    MaxLoops     \* bound: calls of loop()

ASSUME MaxEventsAssumption == MaxEvents \in Nat \ {0}
ASSUME BoundsAssumption == MaxQuits \in Nat /\ MaxLoops \in Nat
ASSUME NamesAssumption ==
    /\ NoItem \notin Items
    /\ LoopThread \notin Threads
    /\ pQueCh_ \notin Channels
    /\ pIntrCh_ \notin Channels
    /\ pQueCh_ # pIntrCh_

VARIABLES
    queue_,      \* WorkQueue::queue_
    getQueue,    \* the list WorkQueue::doit swapped out and is executing
    queFd,       \* counter of the queue eventfd (EFD_SEMAPHORE)
    intrFd,      \* counter of the interrupt eventfd (EFD_SEMAPHORE)
    readyList,   \* kernel: descriptors to examine at the next epoll_wait
    chReady,     \* enrolled user channels with an event pending
    enrolled,    \* user channels in the epoll set
    pc,          \* where LoopThread is in loop()
    scan,        \* entries epoll_wait has still to examine
    channels,    \* the events of this iteration not yet dispatched
    haswork,     \* local of loop()
    quit,        \* local of loop()
    call,        \* thread -> the item whose addWork has enqueued, not written
    quits, loops,
    posted,      \* history: items in the order of enqueue
    executed,    \* history: items in the order their callback started
    removed,     \* history: items removeWork deleted with S_OK
    owed,        \* history: items whose addWork had returned when quit() wrote
    cut          \* history: channels erased between the wake-up of epoll_wait and
                 \* the end of the for loop, other than by their own callback

kernelVars == <<queFd, intrFd, readyList, chReady, enrolled>>
loopVars   == <<pc, scan, channels, haswork, quit>>
queueVars  == <<queue_, getQueue>>
histVars   == <<posted, executed, removed, owed, cut>>
vars == <<queueVars, kernelVars, loopVars, call, quits, loops, histVars>>

AllThreads == Threads \cup {LoopThread}
Fds == Channels \cup {pQueCh_, pIntrCh_}

(* The elements of a sequence, as a set. *)
Elems(s) == {s[k] : k \in 1 .. Len(s)}

(* A descriptor joins the kernel's list when it becomes ready, once. *)
Listed(fd) == IF fd \in Elems(readyList) THEN readyList ELSE Append(readyList, fd)

(* The level epoll_wait polls: an eventfd counter above zero, or input
   pending on an enrolled user channel. *)
IsReady(fd) ==
    \/ fd = pQueCh_ /\ queFd > 0
    \/ fd = pIntrCh_ /\ intrFd > 0
    \/ fd \in chReady

(* Items whose addWork has returned to its caller. *)
Accepted == Elems(posted) \ {call[t] : t \in AllThreads}

(* LoopThread runs user code inside a channel callback ("handle") or a work
   item ("callback"), and before and after loop(). *)
InUserCode(t) == t = LoopThread => pc \in {"stopped", "handle", "callback"}
CanCall(t) == call[t] = NoItem /\ InUserCode(t) /\ pc # "undefined"

-----------------------------------------------------------------------------
(* The state EventLoop::init(false) leaves: both eventfds zero and enrolled. *)
Init ==
    /\ queue_ = <<>> /\ getQueue = <<>>
    /\ queFd = 0 /\ intrFd = 0
    /\ readyList = <<>> /\ chReady = {} /\ enrolled = {}
    /\ pc = "stopped" /\ scan = 0 /\ channels = <<>>
    /\ haswork = FALSE /\ quit = FALSE
    /\ call = [t \in AllThreads |-> NoItem]
    /\ quits = 0 /\ loops = 0
    /\ posted = <<>> /\ executed = <<>> /\ removed = {} /\ owed = {} /\ cut = {}

-----------------------------------------------------------------------------
(* Calls of the application *)

(* addWork, first half: enqueue under queueMutex_. *)
enqueue(t, item) ==
    /\ CanCall(t)
    /\ item \notin Elems(posted)
    /\ queue_' = Append(queue_, item)
    /\ posted' = Append(posted, item)
    /\ call' = [call EXCEPT ![t] = item]
    /\ UNCHANGED <<getQueue, kernelVars, loopVars, quits, loops, executed, removed, owed, cut>>

(* A bug: addWork signals only when it found the queue empty. *)
onWriteIfEmpty(t) ==
    /\ call[t] # NoItem /\ pc # "undefined"
    /\ queFd' = IF Len(queue_) > 1 THEN queFd ELSE queFd + 1
    /\ readyList' = IF Len(queue_) > 1 THEN readyList ELSE Listed(pQueCh_)
    /\ call' = [call EXCEPT ![t] = NoItem]
    /\ UNCHANGED <<queueVars, intrFd, chReady, enrolled, loopVars, quits, loops, histVars>>

(* addWork, second half: QueueChannel::onWrite adds one to the eventfd. *)
onWrite(t) ==
    /\ call[t] # NoItem /\ pc # "undefined"
    /\ queFd' = queFd + 1
    /\ readyList' = Listed(pQueCh_)
    /\ call' = [call EXCEPT ![t] = NoItem]
    /\ UNCHANGED <<queueVars, intrFd, chReady, enrolled, loopVars, quits, loops, histVars>>

(* A bug: the item is deleted but left in the list. *)
removeWorkNoErase(t, item) ==
    /\ CanCall(t)
    /\ \E k \in 1 .. Len(queue_) : queue_[k] = item
    /\ item \notin removed
    /\ removed' = removed \cup {item}
    /\ UNCHANGED <<queueVars, kernelVars, loopVars, call, quits, loops, posted, executed, owed, cut>>

(* removeWork: finds the pointer under queueMutex_, erases and deletes it.
   When it is absent the call returns S_FALSE and changes nothing. *)
removeWork(t, item) ==
    /\ CanCall(t)
    /\ \E k \in 1 .. Len(queue_) :
          /\ queue_[k] = item
          /\ queue_' = SubSeq(queue_, 1, k - 1) \o SubSeq(queue_, k + 1, Len(queue_))
    /\ removed' = removed \cup {item}
    /\ UNCHANGED <<getQueue, kernelVars, loopVars, call, quits, loops, posted, executed, owed, cut>>

(* quit: InterruptChannel::onWrite adds one to the interrupt eventfd.  The
   first quit not yet seen by the loop fixes the work it owes. *)
quitLoop(t) ==
    /\ CanCall(t)
    /\ quits < MaxQuits
    /\ quits' = quits + 1
    /\ intrFd' = intrFd + 1
    /\ readyList' = Listed(pIntrCh_)
    /\ owed' = IF intrFd = 0 THEN Accepted ELSE owed
    /\ UNCHANGED <<queueVars, queFd, chReady, enrolled, loopVars, call, loops, posted, executed, removed, cut>>

(* enroll: EPOLL_CTL_ADD, from any thread. *)
enroll(t, ch) ==
    /\ CanCall(t)
    /\ ch \notin enrolled
    /\ enrolled' = enrolled \cup {ch}
    /\ UNCHANGED <<queueVars, queFd, intrFd, readyList, chReady, loopVars, call, quits, loops, histVars>>

(* erase: EPOLL_CTL_DEL, from any thread and any callback; the owner deletes
   the channel next.  A dead entry of readyList is dropped by the next
   epoll_wait. *)
erase(t, ch) ==
    /\ CanCall(t)
    /\ ch \in enrolled
    /\ enrolled' = enrolled \ {ch}
    /\ chReady' = chReady \ {ch}
    /\ cut' = IF \/ pc \in {"scan", "dispatch"}
                 \/ pc = "handle" /\ (t = LoopThread => ch # Head(channels))
              THEN cut \cup {ch} ELSE cut
    /\ UNCHANGED <<queueVars, queFd, intrFd, readyList, loopVars, call, quits, loops,
                   posted, executed, removed, owed>>

(* The environment: input arrives on an enrolled channel. *)
ChannelEvent(ch) ==
    /\ ch \in enrolled \ chReady
    /\ chReady' = chReady \cup {ch}
    /\ readyList' = Listed(ch)
    /\ UNCHANGED <<queueVars, queFd, intrFd, enrolled, loopVars, call, quits, loops, histVars>>

-----------------------------------------------------------------------------
(* LoopThread inside loop() *)

(* The application calls loop(). *)
loopStart ==
    /\ pc = "stopped" /\ call[LoopThread] = NoItem
    /\ loops < MaxLoops
    /\ loops' = loops + 1
    /\ pc' = "wait"
    /\ UNCHANGED <<queueVars, kernelVars, scan, channels, haswork, quit, call, quits, histVars>>

(* epoll_wait fails with something other than EINTR: loop() returns S_FALSE. *)
waitError ==
    /\ pc = "wait"
    /\ pc' = "stopped"
    /\ owed' = {}
    /\ UNCHANGED <<queueVars, kernelVars, scan, channels, haswork, quit, call, quits, loops,
                   posted, executed, removed, cut>>

(* epoll_wait wakes up: it will examine the entries now listed.  EINTR retries
   the call and so leaves LoopThread here. *)
waitWakeup ==
    /\ pc = "wait"
    /\ readyList # <<>>
    /\ pc' = "scan"
    /\ scan' = Len(readyList)
    /\ cut' = {}
    /\ UNCHANGED <<queueVars, kernelVars, channels, haswork, quit, call, quits, loops,
                   posted, executed, removed, owed>>

(* epoll_wait examines one entry. *)
waitScan ==
    /\ pc = "scan"
    /\ scan > 0
    /\ Len(channels) < MaxEvents
    /\ scan' = scan - 1
    /\ LET fd == Head(readyList)
       IN  IF IsReady(fd)
           THEN /\ channels' = Append(channels, fd)
                /\ readyList' = Append(Tail(readyList), fd)
           ELSE /\ readyList' = Tail(readyList)
                /\ UNCHANGED channels
    /\ UNCHANGED <<queueVars, queFd, intrFd, chReady, enrolled, pc, haswork, quit, call, quits, loops,
                   histVars>>

(* A bug: the flags are declared outside the loop. *)
waitReturnOldFlags ==
    /\ pc = "scan"
    /\ scan = 0 \/ Len(channels) = MaxEvents
    /\ pc' = IF channels = <<>> THEN "wait" ELSE "dispatch"
    /\ scan' = 0
    /\ UNCHANGED <<queueVars, kernelVars, channels, haswork, quit, call, quits, loops, histVars>>

(* epoll_wait returns the events, or sleeps again when there are none; the
   flags of the iteration are declared afresh. *)
waitReturn ==
    /\ pc = "scan"
    /\ scan = 0 \/ Len(channels) = MaxEvents
    /\ pc' = IF channels = <<>> THEN "wait" ELSE "dispatch"
    /\ scan' = 0
    /\ haswork' = FALSE /\ quit' = FALSE
    /\ UNCHANGED <<queueVars, kernelVars, channels, call, quits, loops, histVars>>

(* One turn of the for loop over channels[].  A channel that was erased since
   has been deleted, perhaps: handleEvent still runs, or the process ends. *)
dispatch ==
    /\ pc = "dispatch"
    /\ channels # <<>>
    /\ \/ /\ Head(channels) = pIntrCh_
          /\ quit' = TRUE
          /\ channels' = Tail(channels)
          /\ UNCHANGED <<pc, haswork>>
       \/ /\ Head(channels) = pQueCh_
          /\ haswork' = TRUE
          /\ channels' = Tail(channels)
          /\ UNCHANGED <<pc, quit>>
       \/ /\ Head(channels) \in Channels
          /\ \/ pc' = "handle"
             \/ Head(channels) \notin enrolled /\ pc' = "undefined"
          /\ UNCHANGED <<channels, haswork, quit>>
    /\ UNCHANGED <<queueVars, kernelVars, scan, call, quits, loops, histVars>>

(* handleEvent of a user channel returns; it may have consumed the event, or
   left it pending (an acceptor without a request does). *)
handleReturn ==
    /\ pc = "handle" /\ call[LoopThread] = NoItem
    /\ pc' = "dispatch"
    /\ channels' = Tail(channels)
    /\ chReady' \in {chReady, chReady \ {Head(channels)}}
    /\ UNCHANGED <<queueVars, queFd, intrFd, readyList, enrolled, scan, haswork, quit, call, quits, loops,
                   histVars>>

(* A bug: the work queue is served before the remaining events. *)
dispatchDoneEarly ==
    /\ pc = "dispatch"
    /\ channels = <<>> \/ haswork
    /\ pc' = IF haswork THEN "read" ELSE "quit"
    /\ UNCHANGED <<queueVars, kernelVars, scan, channels, haswork, quit, call, quits, loops, histVars>>

(* A bug: quit is served before the work. *)
dispatchDoneQuitFirst ==
    /\ pc = "dispatch"
    /\ channels = <<>>
    /\ pc' = IF haswork /\ ~quit THEN "read" ELSE "quit"
    /\ UNCHANGED <<queueVars, kernelVars, scan, channels, haswork, quit, call, quits, loops, histVars>>

(* All events dispatched. *)
dispatchDone ==
    /\ pc = "dispatch"
    /\ channels = <<>>
    /\ pc' = IF haswork THEN "read" ELSE "quit"
    /\ UNCHANGED <<queueVars, kernelVars, scan, channels, haswork, quit, call, quits, loops, histVars>>

(* read() of the queue eventfd: a semaphore, so it takes one; non-blocking. *)
readQueFd ==
    /\ pc = "read"
    /\ queFd' = IF queFd > 0 THEN queFd - 1 ELSE 0
    /\ pc' = "onQueue"
    /\ UNCHANGED <<queueVars, intrFd, readyList, chReady, enrolled, scan, channels, haswork, quit,
                   call, quits, loops, histVars>>

(* onQueue: while (!empty()). *)
onQueue ==
    /\ pc = "onQueue"
    /\ pc' = IF queue_ = <<>> THEN "quit" ELSE "swap"
    /\ UNCHANGED <<queueVars, kernelVars, scan, channels, haswork, quit, call, quits, loops, histVars>>

(* A bug: doit copies the queue and does not clear it. *)
swapCopy ==
    /\ pc = "swap"
    /\ getQueue' = queue_
    /\ pc' = "run"
    /\ UNCHANGED <<queue_, kernelVars, scan, channels, haswork, quit, call, quits, loops, histVars>>

(* doit: getQueue.swap(queue_) under queueMutex_; removeWork may have emptied
   queue_ since the test. *)
swap ==
    /\ pc = "swap"
    /\ getQueue' = queue_
    /\ queue_' = <<>>
    /\ pc' = "run"
    /\ UNCHANGED <<kernelVars, scan, channels, haswork, quit, call, quits, loops, histVars>>

(* doit: take the first item and call it, or return when the list is done. *)
run ==
    /\ pc = "run"
    /\ IF getQueue = <<>>
       THEN pc' = "onQueue" /\ UNCHANGED <<getQueue, executed>>
       ELSE /\ pc' = "callback"
            /\ getQueue' = Tail(getQueue)
            /\ executed' = Append(executed, Head(getQueue))
    /\ UNCHANGED <<queue_, kernelVars, scan, channels, haswork, quit, call, quits, loops,
                   posted, removed, owed, cut>>

(* The callback returns and the item is deleted. *)
runReturn ==
    /\ pc = "callback" /\ call[LoopThread] = NoItem
    /\ pc' = "run"
    /\ UNCHANGED <<queueVars, kernelVars, scan, channels, haswork, quit, call, quits, loops, histVars>>

(* A bug: the interrupt is read but the loop is not left. *)
quitCheckNoBreak ==
    /\ pc = "quit"
    /\ pc' = "wait"
    /\ intrFd' = IF quit /\ intrFd > 0 THEN intrFd - 1 ELSE intrFd
    /\ UNCHANGED <<queueVars, queFd, readyList, chReady, enrolled, scan, channels, haswork, quit,
                   call, quits, loops, histVars>>

(* End of the iteration: leave loop() or wait again. *)
quitCheck ==
    /\ pc = "quit"
    /\ IF quit
       THEN pc' = "stopped" /\ intrFd' = IF intrFd > 0 THEN intrFd - 1 ELSE 0
       ELSE pc' = "wait" /\ UNCHANGED intrFd
    /\ UNCHANGED <<queueVars, queFd, readyList, chReady, enrolled, scan, channels, haswork, quit,
                   call, quits, loops, histVars>>

-----------------------------------------------------------------------------
Calls ==
    \E t \in AllThreads :
        \/ \E i \in Items : enqueue(t, i) \/ removeWork(t, i)
        \/ onWrite(t)
        \/ quitLoop(t)
        \/ \E ch \in Channels : enroll(t, ch) \/ erase(t, ch)

LoopStep ==
    \/ waitWakeup \/ waitScan \/ waitReturn
    \/ dispatch \/ handleReturn \/ dispatchDone
    \/ readQueFd \/ onQueue \/ swap \/ run \/ runReturn \/ quitCheck

Next ==
    \/ Calls
    \/ \E ch \in Channels : ChannelEvent(ch)
    \/ loopStart
    \/ waitError
    \/ LoopStep

Spec == Init /\ [][Next]_vars

(* Threads are scheduled: loop() keeps running once called, and a thread
   inside addWork reaches the eventfd write.  Callbacks return. *)
Fairness == WF_vars(LoopStep) /\ \A t \in AllThreads : WF_vars(onWrite(t))
FairSpec == Spec /\ Fairness

-----------------------------------------------------------------------------
(* Properties *)

PCs == {"stopped", "wait", "scan", "dispatch", "handle", "read", "onQueue",
        "swap", "run", "callback", "quit", "undefined"}

(* Every variable has its type; the type invariant of EventLoop, WorkQueue
   and the epoll set. *)
TypeOK ==
    /\ queue_ \in Seq(Items) /\ getQueue \in Seq(Items)
    /\ queFd \in Nat /\ intrFd \in Nat
    /\ readyList \in Seq(Fds)
    /\ chReady \subseteq Channels /\ enrolled \subseteq Channels
    /\ pc \in PCs
    /\ scan \in Nat
    /\ channels \in Seq(Fds)
    /\ haswork \in BOOLEAN /\ quit \in BOOLEAN
    /\ call \in [AllThreads -> Items \cup {NoItem}]
    /\ quits \in Nat /\ loops \in Nat
    /\ posted \in Seq(Items) /\ executed \in Seq(Items)
    /\ removed \subseteq Items /\ owed \subseteq Items /\ cut \subseteq Channels

(* No lost wakeup (EventLoop::addWork against EventLoop::loop): while loop()
   sleeps in epoll_wait or is not running, queued work implies that the queue
   eventfd is readable and known to epoll, or that a thread is between the
   enqueue and the eventfd write. *)
NoLostWakeup ==
    pc \in {"wait", "stopped"} /\ queue_ # <<>> =>
        \/ queFd > 0 /\ pQueCh_ \in Elems(readyList)
        \/ \E t \in AllThreads : call[t] # NoItem

(* line is the sequence all, whose elements differ, less the elements in gone:
   it has the other elements, each once, in the same order. *)
IsRest(line, all, gone) ==
    /\ Elems(line) = Elems(all) \ gone
    /\ \A a, b \in 1 .. Len(line) : line[a] = line[b] => a = b
    /\ \A a, b \in 1 .. Len(line) :
          a < b => \E c, d \in 1 .. Len(all) : c < d /\ all[c] = line[a] /\ all[d] = line[b]

(* Conservation and order (WorkQueue): the executed items, then the rest of
   the batch doit swapped out, then the queue, are the posted items in the
   order they were enqueued, less those removeWork deleted.  So nothing is
   lost, nothing runs twice, a removed item never runs, and work is FIFO. *)
FifoNoLoss ==
    IsRest(executed \o (getQueue \o queue_), posted, removed)

(* quit() is served after the work (EventLoop::loop, lines 118-132): when
   the loop() that quit() ends has returned, every item whose addWork had
   returned before quit() has run or was removed.  Stated of the first call
   of loop(): a later one inherits a stale entry for the interrupt channel in
   the kernel's list, and epoll_wait may report it before the queue's. *)
QuitRunsEarlierWork ==
    pc = "stopped" /\ loops = 1 /\ intrFd = 0 => owed \subseteq Elems(executed) \cup removed

(* The loop reads an eventfd only for a token that is there (EventLoop::loop,
   lines 119-132): tokens outlive the work they announced, since a wake-up
   takes one however many items it runs, and the flags must be those of the
   events of this iteration. *)
ReadsToken ==
    /\ pc = "read" => queFd > 0
    /\ pc = "quit" /\ quit => intrFd > 0

(* An event is dispatched to a channel that has left the epoll set, and which
   may be deleted, only if another thread or the callback of another channel
   erased it while the batch was being fetched or dispatched: an erase by the
   channel's own callback, by a work item (these run after the for loop over
   channels[]) or before epoll_wait woke up leaves no event behind. *)
DispatchEnrolled ==
    LET rest == IF pc = "handle" THEN Tail(channels) ELSE channels
    IN  /\ Elems(rest) \subseteq enrolled \cup {pQueCh_, pIntrCh_} \cup cut
        /\ pc = "undefined" => cut # {}

(* EventLoop implements WorkService: the line is the rest of doit's batch
   followed by the queue. *)
Service == INSTANCE WorkService
             WITH pending <- getQueue \o queue_, started <- executed, cancelled <- removed

(* Every step of addWork, removeWork and doit, in any interleaving, is a step
   of the abstract service or leaves it alone: the swap of the whole queue out
   of the lock is invisible to clients. *)
ImplementsWorkService == Service!Spec

(* Posted work is served (addWork): an item whose addWork returned while the
   loop is running is eventually executed or removed, unless loop() returns or
   an event of a deleted channel ends the process. *)
WorkServed ==
    \A i \in Items :
        i \in Accepted /\ pc # "stopped" ~>
            i \in Elems(executed) \cup removed \/ pc \in {"stopped", "undefined"}

(* quit() ends loop(): an interrupt pending while loop() runs is followed by
   its return, whatever other channels are ready (or an event of a deleted
   channel ends the process). *)
QuitServed ==
    intrFd > 0 /\ pc # "stopped" ~> pc \in {"stopped", "undefined"}
=============================================================================
