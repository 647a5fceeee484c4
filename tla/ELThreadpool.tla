---------------------------- MODULE ELThreadpool ----------------------------
(***************************************************************************)
(* ELThreadpool, its older variant EventLoopThreadpool, and the Thread they  *)
(* share.  One thread calls the pool; the threads of the loops run beside    *)
(* it.  variant says which pool the process uses.  The caller follows the    *)
(* order of the tests: start, then the other calls, then quit, and perhaps   *)
(* start again; it does not repeat a start() that left a loop behind.        *)
(***************************************************************************)
EXTENDS Integers, Sequences, SequencesExt

CONSTANTS Processors,  \* what sysconf reports
          Limits,      \* the arguments of setMaxThreads
          MaxLoops     \* bound: event loops ever created

ASSUME PoolAssumption == Processors \in Nat \ {0} /\ Limits \subseteq Nat /\ MaxLoops \in Nat

VARIABLES
  variant,      \* "EL" or "EventLoop"
  processors,   \* the answer of sysconf, the same at every call
  MaxThreads_,
  nextThread_,
  loops_,       \* loops_ and loopThreads_, as numbers of the loops created
  loop,         \* the loops created: [live, inited, quit: BOOLEAN, thread]
  open,         \* between a start() that succeeded and quit()
  quitting,     \* quit(): index in loops_ and step of it; <<0, "no">> outside
  since,        \* history: a loop handed out since start() -> those handed out after it
  crashed       \* an invalid pointer was used, or a division by zero made

poolVars == <<variant, processors, MaxThreads_, nextThread_, loops_, loop, open, quitting, since, crashed>>

Redundancy == 2
NotQuitting == <<0, "no">>
Calling == ~crashed /\ quitting = NotQuitting

(* sysconf may fail: S_FALSE, which is -1. *)
getNumberOfProcessors == {Processors, -1}

(* ELThreadpool::capacity: 1 when sysconf failed. *)
capacity == IF processors = -1 THEN 1 ELSE Redundancy * processors

(* EventLoopThreadpool keeps the product as an unsigned int; MaxLoops + 1
   stands for 2^32 - 2, which no number of loops reaches either. *)
unsignedCapacity == IF processors = -1 THEN MaxLoops + 1 ELSE Redundancy * processors

Capacity == IF variant = "EL" THEN capacity ELSE unsignedCapacity

PoolInit ==
  /\ variant \in {"EL", "EventLoop"} /\ processors \in getNumberOfProcessors
  /\ MaxThreads_ = 0 /\ nextThread_ = 0
  /\ loops_ = <<>> /\ loop = <<>> /\ open = FALSE
  /\ quitting = NotQuitting /\ since = <<>> /\ crashed = FALSE

(* Thread::run: pthread_create starts runInThread, or fails. *)
runThread == {"running", "none"}

NewLoop(inited, thread) == [live |-> TRUE, inited |-> inited, quit |-> FALSE, thread |-> thread]

Crash == crashed' = TRUE /\ UNCHANGED <<variant, processors, MaxThreads_, nextThread_, loops_, loop, open, quitting, since>>

-----------------------------------------------------------------------------
(* start and getNextEventLoop of ELThreadpool: a loop whose init fails is not
   kept; one whose thread cannot be created is. *)
ELOpenLoop(index, OnSuccess) ==
  \E inited \in BOOLEAN, thread \in runThread :
    /\ loop' = Append(loop, NewLoop(inited, IF inited THEN thread ELSE "none"))
    /\ loops_' = IF inited THEN Append(loops_, Len(loop')) ELSE loops_
    /\ IF inited /\ thread = "running" THEN OnSuccess
       ELSE nextThread_' = index /\ UNCHANGED <<open, since>>

(* EventLoopThreadpool ignores every result, and its start does not call
   init. *)
EventLoopOpenLoop(initialises, OnSuccess) ==
  \E inited \in (IF initialises THEN BOOLEAN ELSE {FALSE}), thread \in runThread :
    /\ loop' = Append(loop, NewLoop(inited, thread))
    /\ loops_' = Append(loops_, Len(loop'))
    /\ OnSuccess

Started == open' = TRUE /\ since' = <<>> /\ UNCHANGED nextThread_

elStart ==
  /\ Calling /\ loops_ = <<>> /\ variant = "EL" /\ Len(loop) < MaxLoops
  /\ MaxThreads_' = IF MaxThreads_ = 0 THEN capacity ELSE MaxThreads_
  /\ ELOpenLoop(nextThread_, Started)
  /\ UNCHANGED <<variant, processors, quitting, crashed>>

eventLoopStart ==
  /\ Calling /\ ~open /\ variant = "EventLoop" /\ Len(loop) < MaxLoops
  /\ MaxThreads_' = IF MaxThreads_ = 0 THEN unsignedCapacity ELSE MaxThreads_
  /\ EventLoopOpenLoop(FALSE, Started)
  /\ UNCHANGED <<variant, processors, quitting, crashed>>

-----------------------------------------------------------------------------
HandOut(i, l) ==
  /\ nextThread_' = i + 1
  /\ since' = [k \in DOMAIN since \cup {l} |-> IF k = l THEN {} ELSE since[k] \cup {l}]
  /\ UNCHANGED open

(* A bug: the counter restarts where the limit would only be reached by the
   next call. *)
NextIndexEarly == nextThread_ % (IF MaxThreads_ = 1 THEN 1 ELSE MaxThreads_ - 1)

(* nextThread_ %= MaxThreads_. *)
NextIndex == nextThread_ % MaxThreads_

elGetNextEventLoop ==
  LET i == NextIndex
  IN  /\ Calling /\ open /\ variant = "EL"
      /\ \/ /\ i < Len(loops_)
            /\ HandOut(i, loops_[i + 1]) /\ UNCHANGED <<loops_, loop>>
         \/ /\ i = Len(loops_) /\ Len(loop) < MaxLoops
            /\ ELOpenLoop(i, HandOut(i, Len(loop) + 1))
         \/ /\ i > Len(loops_)
            /\ nextThread_' = i /\ UNCHANGED <<loops_, loop, open, since>>
      /\ UNCHANGED <<variant, processors, MaxThreads_, quitting, crashed>>

(* nextThread_ never passes loops_ here, which quit() does not shorten. *)
eventLoopGetNextEventLoop ==
  LET i == NextIndex
  IN  /\ Calling /\ open /\ variant = "EventLoop"
      /\ \/ /\ i < Len(loops_)
            /\ HandOut(i, loops_[i + 1]) /\ UNCHANGED <<loops_, loop>>
         \/ /\ i = Len(loops_) /\ Len(loop) < MaxLoops
            /\ EventLoopOpenLoop(TRUE, HandOut(i, Len(loop) + 1))
      /\ UNCHANGED <<variant, processors, MaxThreads_, quitting, crashed>>

(* nextThread_ %= MaxThreads_ before the limit was ever set. *)
getNextEventLoopUnset == Calling /\ ~open /\ MaxThreads_ = 0 /\ Crash

(* Not below the number of threads, not above the capacity. *)
setMaxThreads(n) ==
  /\ Calling /\ n >= Len(loops_)
  /\ MaxThreads_' = IF n > Capacity THEN Capacity ELSE n
  /\ UNCHANGED <<variant, processors, nextThread_, loops_, loop, open, quitting, since, crashed>>

-----------------------------------------------------------------------------
(* quit of ELThreadpool goes from the last loop to the first.  That of
   EventLoopThreadpool begins with the first, the one start() did not
   initialise, and does not survive it. *)
elQuit ==
  /\ Calling /\ variant = "EL" /\ loops_ # <<>>
  /\ quitting' = <<Len(loops_), "request">>
  /\ UNCHANGED <<variant, processors, MaxThreads_, nextThread_, loops_, loop, open, since, crashed>>

eventLoopQuit ==
  /\ Calling /\ variant = "EventLoop" /\ open
  /\ quitting' = <<1, "request">>
  /\ UNCHANGED <<variant, processors, MaxThreads_, nextThread_, loops_, loop, open, since, crashed>>

At(what) == ~crashed /\ quitting[1] \in DOMAIN loops_ /\ quitting[2] = what
Current == loops_[quitting[1]]

(* A bug: the destructor of the thread only joins. *)
requestQuitOmitted ==
  /\ At("request")
  /\ quitting' = <<quitting[1], "join">>
  /\ UNCHANGED <<variant, processors, MaxThreads_, nextThread_, loops_, loop, open, since, crashed>>

(* ~ELThread and ~EventLoopThread begin with loop_->quit(), which writes to
   pIntrCh_: NULL in a loop without init. *)
requestQuit ==
  /\ At("request")
  /\ IF loop[Current].live /\ loop[Current].inited
     THEN /\ loop' = [loop EXCEPT ![Current].quit = TRUE]
          /\ quitting' = <<quitting[1], "join">>
          /\ UNCHANGED <<variant, processors, MaxThreads_, nextThread_, loops_, open, since, crashed>>
     ELSE Crash

(* Thread::join waits for the thread; without one id_ is 0. *)
joinThread ==
  /\ At("join")
  /\ \/ loop[Current].thread = "none" /\ Crash
     \/ /\ loop[Current].thread = "returned"
        /\ loop' = [loop EXCEPT ![Current].thread = "joined"]
        /\ quitting' = <<quitting[1], "delete">>
        /\ UNCHANGED <<variant, processors, MaxThreads_, nextThread_, loops_, open, since, crashed>>

elDeleteLoop ==
  /\ At("delete")
  /\ loop' = [loop EXCEPT ![Current].live = FALSE]
  /\ loops_' = Front(loops_)
  /\ quitting' = <<quitting[1] - 1, "request">>
  /\ UNCHANGED <<variant, processors, MaxThreads_, nextThread_, open, since, crashed>>

quitReturn ==
  /\ ~crashed /\ quitting # NotQuitting /\ quitting[1] \notin DOMAIN loops_
  /\ quitting' = NotQuitting /\ open' = FALSE
  /\ UNCHANGED <<variant, processors, MaxThreads_, nextThread_, loops_, loop, since, crashed>>

(* Thread::runInThread: EventLoop::loop returns when it was told to quit, or
   at once when epoll was never set up. *)
runInThread(l) ==
  /\ ~crashed /\ loop[l].thread = "running"
  /\ loop[l].quit \/ ~loop[l].inited
  /\ loop' = [loop EXCEPT ![l].thread = "returned"]
  /\ UNCHANGED <<variant, processors, MaxThreads_, nextThread_, loops_, open, quitting, since, crashed>>

-----------------------------------------------------------------------------
QuitStep == requestQuit \/ joinThread \/ elDeleteLoop \/ quitReturn
ThreadStep == \E l \in DOMAIN loop : runInThread(l)

PoolNext ==
  \/ elStart \/ eventLoopStart
  \/ elGetNextEventLoop \/ eventLoopGetNextEventLoop \/ getNextEventLoopUnset
  \/ \E n \in Limits : setMaxThreads(n)
  \/ elQuit \/ eventLoopQuit \/ QuitStep
  \/ ThreadStep

PoolSpec == PoolInit /\ [][PoolNext]_poolVars

-----------------------------------------------------------------------------
(* Properties *)

(* ELThreadpool::getNextEventLoop hands the loops out in turn: none again before
   every other loop of the pool has had its turn, and none that is deleted, in
   whatever order loops are created, fail to start, and the limit changes. *)
HandedOutInTurn ==
  [][ variant = "EL" /\ since' # since =>
        \A l \in DOMAIN since' :
          since'[l] = {} => /\ loop'[l].live
                            /\ l \in DOMAIN since => Range(loops_) \ {l} \subseteq since[l] ]_poolVars

(* ELThreadpool::quit returns with no loop left, or the process has crashed on
   a loop without a thread. *)
PoolQuitReturns ==
  variant = "EL" /\ quitting # NotQuitting ~> (quitting = NotQuitting /\ loops_ = <<>>) \/ crashed
=============================================================================
