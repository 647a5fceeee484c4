----------------------------- MODULE WQThreadpool -----------------------------
(***************************************************************************)
(* ndsl::net::WQThreadpool: maxThreads_ workers take items from one work   *)
(* queue under mutex_/cond_; quit() posts one quitFunc item per worker and *)
(* joins them.  A section under mutex_ is one step; addWork reads          *)
(* isRunning_ before it takes the mutex, so that read is a step of its     *)
(* own.  pthread_cond_signal wakes one waiter of its choice, and waits may *)
(* also end spuriously.                                                    *)
(***************************************************************************)
EXTENDS Naturals, Sequences, FiniteSets

CONSTANTS
    Workers,     \* the threads start() creates: maxThreads_ of them
    Posters,     \* other threads that call addWork
    Items,       \* WorkItems, each posted at most once
    quitFunc,    \* the item quit() posts
    NoItem,
    MaxThreads   \* maxThreads_

ASSUME ThreadsAssumption == MaxThreads \in Nat /\ Cardinality(Workers) = MaxThreads
ASSUME NamesAssumption ==
    /\ quitFunc \notin Items
    /\ NoItem \notin Items
    /\ NoItem # quitFunc
    /\ Workers \cap Posters = {}

VARIABLES
    workqueue_,
    isRunning_,
    pc,          \* worker -> "none", "lock", "wait" (on cond_), "run", "exited"
    item,        \* worker -> the item it executes
    call,        \* caller -> the item of an addWork that found isRunning_ true
    owner,       \* where the thread that calls start() and quit() is
    pushes,      \* quitFunc items quit() has still to post
    offered,     \* history: items given to addWork
    early,       \* history: items enqueued before quit() posted its first item
    done         \* history: items whose callback has returned

vars == <<workqueue_, isRunning_, pc, item, call, owner, pushes, offered, early, done>>

Callers == Posters \cup Workers
Waiting(p) == {w \in Workers : p[w] = "wait"}

(* pthread_cond_signal(&cond_): one waiter, if there is any, goes for the mutex. *)
Signal(p, q) ==
    IF Waiting(p) = {} THEN q = p
    ELSE \E w \in Waiting(p) : q = [p EXCEPT ![w] = "lock"]

Init ==
    /\ workqueue_ = <<>>
    /\ isRunning_ = FALSE
    /\ pc = [w \in Workers |-> "none"]
    /\ item = [w \in Workers |-> NoItem]
    /\ call = [c \in Callers |-> NoItem]
    /\ owner = "new"
    /\ pushes = 0
    /\ offered = {} /\ early = {} /\ done = {}

-----------------------------------------------------------------------------
(* start: the threads run before isRunning_ is set.  pthread_create may fail
   for any of them; start() ignores the result of Thread::run. *)
startThreads ==
    /\ owner = "new"
    /\ \E up \in SUBSET Workers : pc' = [w \in Workers |-> IF w \in up THEN "lock" ELSE "none"]
    /\ owner' = "starting"
    /\ UNCHANGED <<workqueue_, isRunning_, item, call, pushes, offered, early, done>>

(* start: isRunning_ is set and the call returns. *)
startReturn ==
    /\ owner = "starting"
    /\ isRunning_' = TRUE
    /\ owner' = "started"
    /\ UNCHANGED <<workqueue_, pc, item, call, pushes, offered, early, done>>

(* A bug: quit() posts one item too few. *)
quitBeginShort ==
    /\ owner = "started"
    /\ isRunning_
    /\ owner' = "push"
    /\ pushes' = MaxThreads - 1
    /\ UNCHANGED <<workqueue_, isRunning_, pc, item, call, offered, early, done>>

(* quit: tests isRunning_; then one quitFunc item per thread. *)
quitBegin ==
    /\ owner = "started"
    /\ isRunning_
    /\ owner' = "push"
    /\ pushes' = MaxThreads
    /\ UNCHANGED <<workqueue_, isRunning_, pc, item, call, offered, early, done>>

(* A bug: the quit item overtakes the work in the queue. *)
quitPushFront ==
    /\ owner = "push" /\ pushes > 0
    /\ workqueue_' = <<quitFunc>> \o workqueue_
    /\ Signal(pc, pc')
    /\ pushes' = pushes - 1
    /\ UNCHANGED <<isRunning_, item, call, owner, offered, early, done>>

(* A bug: the loop over the threads runs once too often. *)
quitPushOnceMore ==
    /\ owner = "push" /\ pushes >= 0
    /\ workqueue_' = Append(workqueue_, quitFunc)
    /\ Signal(pc, pc')
    /\ pushes' = pushes - 1
    /\ UNCHANGED <<isRunning_, item, call, owner, offered, early, done>>

(* One turn of the loop: enqueue and signal under mutex_. *)
quitPush ==
    /\ owner = "push" /\ pushes > 0
    /\ workqueue_' = Append(workqueue_, quitFunc)
    /\ Signal(pc, pc')
    /\ pushes' = pushes - 1
    /\ UNCHANGED <<isRunning_, item, call, owner, offered, early, done>>

(* quit: isRunning_ is cleared without the mutex, then the threads are joined. *)
quitFlag ==
    /\ owner = "push" /\ pushes = 0
    /\ isRunning_' = FALSE
    /\ owner' = "join"
    /\ UNCHANGED <<workqueue_, pc, item, call, pushes, offered, early, done>>

(* quit: the join of a thread that was never created fails, and quit() returns
   S_FALSE with the threads behind it unjoined (or the process ends: id_ is 0). *)
quitJoinFails ==
    /\ owner = "join"
    /\ \E w \in Workers : pc[w] = "none"
    /\ owner' = "joinFailed"
    /\ UNCHANGED <<workqueue_, isRunning_, pc, item, call, pushes, offered, early, done>>

(* quit: every thread joined and deleted. *)
quitReturn ==
    /\ owner = "join"
    /\ \A w \in Workers : pc[w] = "exited"
    /\ owner' = "joined"
    /\ UNCHANGED <<workqueue_, isRunning_, pc, item, call, pushes, offered, early, done>>

-----------------------------------------------------------------------------
(* addWork: the unlocked test of isRunning_.  When it is false the call returns
   S_FALSE and changes nothing. *)
addWorkTest(c, i) ==
    /\ call[c] = NoItem
    /\ c \in Workers => pc[c] = "run"
    /\ i \notin offered
    /\ isRunning_
    /\ call' = [call EXCEPT ![c] = i]
    /\ offered' = offered \cup {i}
    /\ UNCHANGED <<workqueue_, isRunning_, pc, item, owner, pushes, early, done>>

(* A bug: the test of the queue's size before the signal is off by one. *)
addWorkEnqueueQuiet(c) ==
    /\ call[c] # NoItem
    /\ workqueue_' = Append(workqueue_, call[c])
    /\ IF Len(workqueue_') > 1 THEN Signal(pc, pc') ELSE pc' = pc
    /\ early' = IF owner = "started" THEN early \cup {call[c]} ELSE early
    /\ call' = [call EXCEPT ![c] = NoItem]
    /\ UNCHANGED <<isRunning_, item, owner, pushes, offered, done>>

(* addWork under mutex_: enqueue and signal. *)
addWorkEnqueue(c) ==
    /\ call[c] # NoItem
    /\ workqueue_' = Append(workqueue_, call[c])
    /\ Signal(pc, pc')
    /\ early' = IF owner = "started" THEN early \cup {call[c]} ELSE early
    /\ call' = [call EXCEPT ![c] = NoItem]
    /\ UNCHANGED <<isRunning_, item, owner, pushes, offered, done>>

-----------------------------------------------------------------------------
(* doWork, nothing to do: wait on cond_. *)
doWorkWait(w) ==
    /\ pc[w] = "lock"
    /\ workqueue_ = <<>>
    /\ pc' = [pc EXCEPT ![w] = "wait"]
    /\ UNCHANGED <<workqueue_, isRunning_, item, call, owner, pushes, offered, early, done>>

(* pthread_cond_wait may return without a signal. *)
SpuriousWakeup(w) ==
    /\ pc[w] = "wait"
    /\ pc' = [pc EXCEPT ![w] = "lock"]
    /\ UNCHANGED <<workqueue_, isRunning_, item, call, owner, pushes, offered, early, done>>

(* doWork under mutex_: take the head, pass the signal on while work is left;
   the quit item ends the thread, any other is executed. *)
doWorkTake(w) ==
    /\ pc[w] = "lock"
    /\ workqueue_ # <<>>
    /\ workqueue_' = Tail(workqueue_)
    /\ LET next == IF Head(workqueue_) = quitFunc THEN "exited" ELSE "run"
           p == [pc EXCEPT ![w] = next]
       IN  IF workqueue_' = <<>> THEN pc' = p ELSE Signal(p, pc')
    /\ item' = [item EXCEPT ![w] = Head(workqueue_)]
    /\ UNCHANGED <<isRunning_, call, owner, pushes, offered, early, done>>

(* The item's callback returns and the item is deleted. *)
doWorkReturn(w) ==
    /\ pc[w] = "run"
    /\ call[w] = NoItem
    /\ done' = done \cup {item[w]}
    /\ item' = [item EXCEPT ![w] = NoItem]
    /\ pc' = [pc EXCEPT ![w] = "lock"]
    /\ UNCHANGED <<workqueue_, isRunning_, call, owner, pushes, offered, early>>

-----------------------------------------------------------------------------
QuitStep == quitPush \/ quitFlag \/ quitJoinFails \/ quitReturn
WorkerStep(w) == doWorkWait(w) \/ doWorkTake(w) \/ doWorkReturn(w)

Next ==
    \/ startThreads \/ startReturn \/ quitBegin
    \/ QuitStep
    \/ \E c \in Callers : addWorkEnqueue(c) \/ \E i \in Items : addWorkTest(c, i)
    \/ \E w \in Workers : WorkerStep(w) \/ SpuriousWakeup(w)

Spec == Init /\ [][Next]_vars

(* Threads that can go on do: quit(), addWork and the workers are not stopped
   in the middle, and callbacks return. *)
FairSpec ==
    /\ Spec
    /\ WF_vars(QuitStep)
    /\ \A c \in Callers : WF_vars(addWorkEnqueue(c))
    /\ \A w \in Workers : WF_vars(WorkerStep(w))

-----------------------------------------------------------------------------
(* Properties *)

(* Every variable has its type. *)
TypeOK ==
    /\ workqueue_ \in Seq(Items \cup {quitFunc})
    /\ isRunning_ \in BOOLEAN
    /\ pc \in [Workers -> {"none", "lock", "wait", "run", "exited"}]
    /\ item \in [Workers -> Items \cup {quitFunc, NoItem}]
    /\ call \in [Callers -> Items \cup {NoItem}]
    /\ owner \in {"new", "starting", "started", "push", "join", "joinFailed", "joined"}
    /\ pushes \in Nat
    /\ offered \subseteq Items /\ early \subseteq Items
    /\ done \subseteq Items \cup {quitFunc, NoItem}

(* No lost signal (addWork and doWork): while the queue holds work, either no
   worker sleeps on cond_ or one is awake and about to look at the queue.  It
   rests on the signal of every enqueue; the one a taker passes on makes it
   inductive. *)
NoIdleWhileWork ==
    workqueue_ # <<>> /\ Waiting(pc) # {} => \E w \in Workers : pc[w] = "lock"

(* Everything enqueued before quit() has been executed when quit() returns:
   the queue is FIFO and the workers are joined (quit, doWork). *)
EarlierWorkDone ==
    owner = "joined" => early \subseteq done

(* After quit() no work can be added (WQThreadpoolTest.cc, section "quit"). *)
NothingAddedAfterQuit ==
    [][owner = "joined" => UNCHANGED workqueue_]_vars

(* quit() returns: every worker gets its quit item and ends, whatever else is
   queued or still being posted, and the join fails only when pthread_create
   did. *)
QuitReturns ==
    owner = "push" ~> owner = "joined" \/ (owner = "joinFailed" /\ \E w \in Workers : pc[w] = "none")
=============================================================================
