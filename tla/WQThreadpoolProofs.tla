-------------------------- MODULE WQThreadpoolProofs --------------------------
(* Proofs about WQThreadpool for any number of workers, posters and items.
   TypeOK and NoIdleWhileWork together are inductive; EarlierWorkDone needs
   FifoInv besides. *)
EXTENDS WQThreadpool, SequenceTheorems, TLAPS

IInv == TypeOK /\ NoIdleWhileWork

States == {"none", "lock", "wait", "run", "exited"}

(* A signal keeps the type of pc, and wakes a worker when one waits. *)
LEMMA SignalFacts ==
    ASSUME NEW p \in [Workers -> States], NEW q, Signal(p, q)
    PROVE  /\ q \in [Workers -> States]
           /\ Waiting(p) # {} => \E w \in Workers : q[w] = "lock"
           /\ Waiting(p) = {} => q = p
  <1>1. CASE Waiting(p) = {}
    BY <1>1 DEF Signal
  <1>2. CASE Waiting(p) # {}
    <2>1. PICK w \in Waiting(p) : q = [p EXCEPT ![w] = "lock"]
      BY <1>2 DEF Signal
    <2>2. w \in Workers
      BY <2>1 DEF Waiting
    <2>3. q \in [Workers -> States] /\ q[w] = "lock"
      BY <2>1, <2>2 DEF States
    <2>4. QED
      BY <1>2, <2>2, <2>3
  <1>3. QED
    BY <1>1, <1>2

(* Initially nothing is queued. *)
LEMMA InitIInv == Init => IInv
  <1> SUFFICES ASSUME Init PROVE IInv
    OBVIOUS
  <1> USE DEF Init
  <1>1. workqueue_ \in Seq(Items \cup {quitFunc})
    BY EmptySeq
  <1>2. TypeOK
    BY <1>1 DEF TypeOK
  <1>3. NoIdleWhileWork
    BY DEF NoIdleWhileWork
  <1>4. QED
    BY <1>2, <1>3 DEF IInv

(* Posting, whether by addWork or by quit, signals. *)
LEMMA PostIInv ==
    ASSUME IInv, NEW x \in Items \cup {quitFunc},
           workqueue_' = Append(workqueue_, x), Signal(pc, pc')
    PROVE  /\ workqueue_' \in Seq(Items \cup {quitFunc})
           /\ pc' \in [Workers -> States]
           /\ NoIdleWhileWork'
  <1>1. workqueue_ \in Seq(Items \cup {quitFunc}) /\ pc \in [Workers -> States]
    BY DEF IInv, TypeOK, States
  <1>2. workqueue_' \in Seq(Items \cup {quitFunc})
    BY <1>1, AppendProperties
  <1>3. /\ pc' \in [Workers -> States]
        /\ Waiting(pc) # {} => \E w \in Workers : pc'[w] = "lock"
        /\ Waiting(pc) = {} => pc' = pc
    BY <1>1, SignalFacts
  <1>4. NoIdleWhileWork'
    BY <1>3 DEF NoIdleWhileWork
  <1>5. QED
    BY <1>2, <1>3, <1>4

(* A worker that takes an item and leaves others behind wakes another. *)
LEMMA TakeIInv ==
    ASSUME IInv, NEW w \in Workers, doWorkTake(w)
    PROVE  IInv'
  <1> DEFINE next == IF Head(workqueue_) = quitFunc THEN "exited" ELSE "run"
             p == [pc EXCEPT ![w] = next]
  <1>1. workqueue_ \in Seq(Items \cup {quitFunc}) /\ workqueue_ # <<>> /\ pc \in [Workers -> States]
    BY DEF IInv, TypeOK, States, doWorkTake
  <1>2. Head(workqueue_) \in Items \cup {quitFunc} /\ workqueue_' \in Seq(Items \cup {quitFunc})
    BY <1>1, HeadTailProperties DEF doWorkTake
  <1>3. p \in [Workers -> States]
    BY <1>1 DEF States
  <1>4. CASE workqueue_' = <<>>
    <2>1. pc' = p
      BY <1>4 DEF doWorkTake
    <2>2. TypeOK'
      BY <1>2, <1>3, <2>1 DEF IInv, TypeOK, States, doWorkTake
    <2>3. QED
      BY <1>4, <2>2 DEF IInv, NoIdleWhileWork
  <1>5. CASE workqueue_' # <<>>
    <2>1. Signal(p, pc')
      BY <1>5 DEF doWorkTake
    <2>2. /\ pc' \in [Workers -> States]
          /\ Waiting(p) # {} => \E v \in Workers : pc'[v] = "lock"
          /\ Waiting(p) = {} => pc' = p
      <3> HIDE DEF p
      <3>1. QED
        BY <1>3, <2>1, SignalFacts
    <2>3. TypeOK'
      BY <1>2, <2>2 DEF IInv, TypeOK, States, doWorkTake
    <2>4. NoIdleWhileWork'
      BY <2>2 DEF NoIdleWhileWork
    <2>5. QED
      BY <2>3, <2>4 DEF IInv
  <1>6. QED
    BY <1>4, <1>5

(* The other steps of a worker. *)
LEMMA WorkerIInv ==
    ASSUME IInv, NEW w \in Workers, doWorkWait(w) \/ SpuriousWakeup(w) \/ doWorkReturn(w)
    PROVE  IInv'
  <1> USE DEF IInv, TypeOK
  <1>1. CASE doWorkWait(w)
    BY <1>1 DEF doWorkWait, NoIdleWhileWork
  <1>2. CASE SpuriousWakeup(w)
    BY <1>2 DEF SpuriousWakeup, NoIdleWhileWork
  <1>3. CASE doWorkReturn(w)
    <2>1. pc' \in [Workers -> {"none", "lock", "wait", "run", "exited"}] /\ pc'[w] = "lock"
      BY <1>3 DEF doWorkReturn
    <2>2. TypeOK'
      BY <1>3, <2>1 DEF doWorkReturn
    <2>3. QED
      BY <2>1, <2>2 DEF NoIdleWhileWork
  <1>4. QED
    BY <1>1, <1>2, <1>3

(* Every step keeps the invariant. *)
LEMMA NextIInv == IInv /\ [Next]_vars => IInv'
  <1> SUFFICES ASSUME IInv, [Next]_vars
               PROVE  IInv'
    OBVIOUS
  <1>1. CASE startThreads
    <2>1. pc' \in [Workers -> {"none", "lock"}]
      BY <1>1 DEF startThreads
    <2>2. TypeOK'
      BY <1>1, <2>1 DEF startThreads, IInv, TypeOK
    <2>3. Waiting(pc') = {}
      BY <2>1 DEF Waiting
    <2>4. QED
      BY <2>2, <2>3 DEF IInv, NoIdleWhileWork
  <1>2. CASE startReturn
    BY <1>2 DEF startReturn, IInv, TypeOK, NoIdleWhileWork, Waiting
  <1>3. CASE quitBegin
    BY <1>3, ThreadsAssumption DEF quitBegin, IInv, TypeOK, NoIdleWhileWork, Waiting
  <1>4. CASE quitPush
    <2>1. /\ workqueue_' \in Seq(Items \cup {quitFunc})
          /\ pc' \in [Workers -> States]
          /\ NoIdleWhileWork'
      BY <1>4, PostIInv DEF quitPush
    <2>2. QED
      BY <1>4, <2>1 DEF quitPush, IInv, TypeOK, States
  <1>5. CASE quitFlag \/ quitJoinFails \/ quitReturn
    BY <1>5 DEF quitFlag, quitJoinFails, quitReturn, IInv, TypeOK, NoIdleWhileWork, Waiting
  <1>6. CASE \E c \in Callers : addWorkEnqueue(c)
    <2>1. PICK c \in Callers : addWorkEnqueue(c)
      BY <1>6
    <2>2. call[c] \in Items
      BY <2>1 DEF addWorkEnqueue, IInv, TypeOK
    <2>3. /\ workqueue_' \in Seq(Items \cup {quitFunc})
          /\ pc' \in [Workers -> States]
          /\ NoIdleWhileWork'
      BY <2>1, <2>2, PostIInv DEF addWorkEnqueue
    <2>4. QED
      BY <2>1, <2>2, <2>3 DEF addWorkEnqueue, IInv, TypeOK, States
  <1>7. CASE \E c \in Callers, i \in Items : addWorkTest(c, i)
    BY <1>7 DEF addWorkTest, IInv, TypeOK, NoIdleWhileWork, Waiting
  <1>8. CASE \E w \in Workers : WorkerStep(w) \/ SpuriousWakeup(w)
    BY <1>8, TakeIInv, WorkerIInv DEF WorkerStep
  <1>9. CASE UNCHANGED vars
    BY <1>9 DEF vars, IInv, TypeOK, NoIdleWhileWork, Waiting
  <1>10. QED
    BY <1>1, <1>2, <1>3, <1>4, <1>5, <1>6, <1>7, <1>8, <1>9 DEF Next, QuitStep

(* Type correctness, for any number of workers, posters and items. *)
THEOREM TypeCorrect == Spec => []TypeOK
  <1>1. IInv => TypeOK
    BY DEF IInv
  <1>2. QED
    BY <1>1, InitIInv, NextIInv, PTL DEF Spec

(* The pool never sleeps on queued work: addWork's signal, and the signal each
   taker passes on, are enough for any number of workers and posters. *)
THEOREM NoIdleWhileWorkHolds == Spec => []NoIdleWhileWork
  <1>1. IInv => NoIdleWhileWork
    BY DEF IInv
  <1>2. QED
    BY <1>1, InitIInv, NextIInv, PTL DEF Spec
-----------------------------------------------------------------------------
(* Where early work can be.  The items of the queue, as a set. *)
Queued == {workqueue_[k] : k \in 1 .. Len(workqueue_)}

(* An early item is done, being executed, or still queued. *)
Accounted ==
    \A i \in early : \/ i \in done
                     \/ \E w \in Workers : pc[w] = "run" /\ item[w] = i
                     \/ i \in Queued

(* The quit items are behind all early work. *)
QuitBehind ==
    \A a, b \in 1 .. Len(workqueue_) : workqueue_[a] = quitFunc /\ workqueue_[b] \in early => b < a

(* The first worker to leave has found no early work before it. *)
ExitAfterWork ==
    (\E w \in Workers : pc[w] = "exited") => Queued \cap early = {}

(* Nobody leaves, and no quit item is queued, before quit() begins; nothing is
   early before start() begins. *)
NoQuitYet ==
    /\ owner \in {"new", "starting", "started"} =>
           quitFunc \notin Queued /\ \A w \in Workers : pc[w] # "exited"
    /\ owner = "new" => early = {}

(* An item on its way into the queue is not early, and on one way only. *)
CallsFresh ==
    /\ early \subseteq offered
    /\ \A c \in Callers : call[c] # NoItem => call[c] \in offered \ early
    /\ \A c, d \in Callers : call[c] = call[d] /\ call[c] # NoItem => c = d

(* All workers have left when quit() has returned. *)
JoinedLeft == owner = "joined" => \A w \in Workers : pc[w] = "exited"

FifoInv == Accounted /\ QuitBehind /\ ExitAfterWork /\ NoQuitYet /\ CallsFresh /\ JoinedLeft

(* A signal moves a waiting worker and no other, and only to the mutex. *)
LEMMA SignalMoves ==
    ASSUME NEW p \in [Workers -> States], NEW q, Signal(p, q)
    PROVE  \A w \in Workers : q[w] = p[w] \/ (p[w] = "wait" /\ q[w] = "lock")
  <1>1. CASE Waiting(p) = {}
    BY <1>1 DEF Signal
  <1>2. CASE Waiting(p) # {}
    <2>1. PICK v \in Waiting(p) : q = [p EXCEPT ![v] = "lock"]
      BY <1>2 DEF Signal
    <2>2. QED
      BY <2>1 DEF Waiting
  <1>3. QED
    BY <1>1, <1>2

(* What an enqueue and a dequeue do to the positions of the queue. *)
LEMMA QueueAppend ==
    ASSUME NEW S, NEW s \in Seq(S), NEW x \in S, NEW t, t = Append(s, x)
    PROVE  /\ Len(t) = Len(s) + 1 /\ t[Len(s) + 1] = x
           /\ \A k \in 1 .. Len(s) : t[k] = s[k]
           /\ {t[k] : k \in 1 .. Len(t)} = {s[k] : k \in 1 .. Len(s)} \cup {x}
  BY AppendProperties

(* The first item leaves the queue. *)
LEMMA QueueTail ==
    ASSUME NEW S, NEW s \in Seq(S), s # <<>>, NEW t, t = Tail(s)
    PROVE  /\ Len(s) \in Nat \ {0} /\ Len(t) = Len(s) - 1
           /\ Head(s) = s[1]
           /\ \A k \in 1 .. Len(t) : t[k] = s[k + 1]
  <1>1. Len(s) \in Nat \ {0} /\ Len(t) = Len(s) - 1 /\ Head(s) = s[1]
    BY HeadTailProperties, EmptySeq
  <1>2. \A k \in 1 .. Len(t) : t[k] = s[k + 1]
    BY HeadTailProperties
  <1>3. QED
    BY <1>1, <1>2

(* Steps that leave the queue, the early items and the calls alone, and let no
   worker leave, keep what is said of early work. *)
LEMMA QuietFifo ==
    ASSUME TypeOK, FifoInv,
           workqueue_' = workqueue_, early' = early, done \subseteq done', call' = call,
           offered \subseteq offered',
           owner' \in {"new", "starting", "started"} => owner \in {"new", "starting", "started"},
           owner' # "joined", owner' = "new" => owner = "new",
           \A w \in Workers : /\ pc'[w] = "exited" => pc[w] = "exited"
                              /\ pc[w] = "run" /\ ~(pc'[w] = "run" /\ item'[w] = item[w]) => item[w] \in done'
    PROVE  FifoInv'
  <1>1. Queued' = Queued
    BY DEF Queued
  <1>2. Accounted'
    BY <1>1 DEF FifoInv, Accounted
  <1>3. QuitBehind' /\ ExitAfterWork'
    BY <1>1 DEF FifoInv, QuitBehind, ExitAfterWork
  <1>4. NoQuitYet'
    BY <1>1 DEF FifoInv, NoQuitYet
  <1>5. CallsFresh'
    BY DEF FifoInv, CallsFresh
  <1>6. QED
    BY <1>2, <1>3, <1>4, <1>5 DEF FifoInv, JoinedLeft

(* quit() posts behind everything that is queued. *)
LEMMA QuitPushFifo ==
    ASSUME IInv, FifoInv, quitPush
    PROVE  FifoInv'
  <1>1. workqueue_ \in Seq(Items \cup {quitFunc}) /\ pc \in [Workers -> States] /\ early \subseteq Items
    BY DEF IInv, TypeOK, States
  <1>2. /\ Len(workqueue_') = Len(workqueue_) + 1 /\ workqueue_'[Len(workqueue_) + 1] = quitFunc
        /\ \A k \in 1 .. Len(workqueue_) : workqueue_'[k] = workqueue_[k]
        /\ Queued' = Queued \cup {quitFunc}
    BY <1>1, QueueAppend DEF quitPush, Queued
  <1>3. \A w \in Workers : pc'[w] = pc[w] \/ (pc[w] = "wait" /\ pc'[w] = "lock")
    BY <1>1, SignalMoves DEF quitPush
  <1>4. quitFunc \notin early
    BY <1>1, NamesAssumption
  <1>5. Accounted' /\ ExitAfterWork' /\ NoQuitYet' /\ CallsFresh' /\ JoinedLeft'
    BY <1>2, <1>3, <1>4 DEF quitPush, FifoInv, Accounted, ExitAfterWork, NoQuitYet, CallsFresh, JoinedLeft
  <1>6. QuitBehind'
    <2>1. SUFFICES ASSUME NEW a \in 1 .. Len(workqueue_'), NEW b \in 1 .. Len(workqueue_'),
                          workqueue_'[a] = quitFunc, workqueue_'[b] \in early
                   PROVE  b < a
      BY DEF QuitBehind, quitPush
    <2>2. Len(workqueue_) \in Nat /\ b # Len(workqueue_) + 1
      BY <1>1, <1>2, <1>4, <2>1
    <2>3. CASE a = Len(workqueue_) + 1
      BY <1>2, <2>2, <2>3
    <2>4. CASE a # Len(workqueue_) + 1
      BY <1>2, <2>1, <2>2, <2>4 DEF FifoInv, QuitBehind
    <2>5. QED
      BY <2>3, <2>4
  <1>7. QED
    BY <1>5, <1>6 DEF FifoInv

(* addWork enqueues an item that is not early; it becomes early only while
   there is no quit item. *)
LEMMA EnqueueFifo ==
    ASSUME IInv, FifoInv, NEW c \in Callers, addWorkEnqueue(c)
    PROVE  FifoInv'
  <1> DEFINE x == call[c]
  <1>1. /\ workqueue_ \in Seq(Items \cup {quitFunc}) /\ pc \in [Workers -> States]
        /\ x \in Items /\ x # quitFunc /\ x \in offered \ early
        /\ call \in [Callers -> Items \cup {NoItem}] /\ NoItem \notin Items
    BY NamesAssumption DEF IInv, TypeOK, States, addWorkEnqueue, FifoInv, CallsFresh
  <1>2. /\ Len(workqueue_') = Len(workqueue_) + 1 /\ workqueue_'[Len(workqueue_) + 1] = x
        /\ \A k \in 1 .. Len(workqueue_) : workqueue_'[k] = workqueue_[k]
        /\ Queued' = Queued \cup {x}
    BY <1>1, QueueAppend DEF addWorkEnqueue, Queued
  <1>3. \A w \in Workers : pc'[w] = pc[w] \/ (pc[w] = "wait" /\ pc'[w] = "lock")
    BY <1>1, SignalMoves DEF addWorkEnqueue
  <1>4. /\ early' = early \/ (owner = "started" /\ early' = early \cup {x})
        /\ call' = [call EXCEPT ![c] = NoItem]
        /\ owner' = owner /\ item' = item /\ done' = done /\ offered' = offered
    BY DEF addWorkEnqueue
  <1>5. Accounted'
    BY <1>2, <1>3, <1>4 DEF FifoInv, Accounted
  <1>6. NoQuitYet' /\ JoinedLeft'
    BY <1>1, <1>2, <1>3, <1>4 DEF FifoInv, NoQuitYet, JoinedLeft
  <1>7. ExitAfterWork'
    BY <1>1, <1>2, <1>3, <1>4 DEF FifoInv, ExitAfterWork, NoQuitYet
  <1>8. CallsFresh'
    BY <1>1, <1>4 DEF FifoInv, CallsFresh
  <1>9. QuitBehind'
    <2>1. SUFFICES ASSUME NEW a \in 1 .. Len(workqueue_'), NEW b \in 1 .. Len(workqueue_'),
                          workqueue_'[a] = quitFunc, workqueue_'[b] \in early'
                   PROVE  b < a
      BY DEF QuitBehind
    <2>2. a \in 1 .. Len(workqueue_) /\ workqueue_[a] = quitFunc /\ Len(workqueue_) \in Nat
      BY <1>1, <1>2, <2>1
    <2>3. owner # "started" /\ early' = early
      BY <1>4, <2>2 DEF FifoInv, NoQuitYet, Queued
    <2>4. b \in 1 .. Len(workqueue_)
      BY <1>1, <1>2, <2>1, <2>2, <2>3
    <2>5. QED
      BY <1>2, <2>1, <2>2, <2>3, <2>4 DEF FifoInv, QuitBehind
  <1>10. QED
    BY <1>5, <1>6, <1>7, <1>8, <1>9 DEF FifoInv

(* A worker takes the head: work to execute it, the quit item to leave, and
   then no early work is queued. *)
LEMMA TakeFifo ==
    ASSUME IInv, FifoInv, NEW w \in Workers, doWorkTake(w)
    PROVE  FifoInv'
  <1> DEFINE x == Head(workqueue_)
             next == IF x = quitFunc THEN "exited" ELSE "run"
             p == [pc EXCEPT ![w] = next]
  <1>1. /\ workqueue_ \in Seq(Items \cup {quitFunc}) /\ pc \in [Workers -> States]
        /\ workqueue_ # <<>> /\ pc[w] = "lock" /\ item \in [Workers -> Items \cup {quitFunc, NoItem}]
        /\ early \subseteq Items /\ quitFunc \notin early
    BY NamesAssumption DEF IInv, TypeOK, States, doWorkTake
  <1>2. /\ Len(workqueue_) \in Nat \ {0} /\ Len(workqueue_') = Len(workqueue_) - 1
        /\ x = workqueue_[1]
        /\ \A k \in 1 .. Len(workqueue_') : workqueue_'[k] = workqueue_[k + 1]
        /\ Queued = Queued' \cup {x}
    <2>1. workqueue_' = Tail(workqueue_)
      BY DEF doWorkTake
    <2>2. /\ Len(workqueue_) \in Nat \ {0} /\ Len(workqueue_') = Len(workqueue_) - 1
          /\ Head(workqueue_) = workqueue_[1]
          /\ \A k \in 1 .. Len(workqueue_') : workqueue_'[k] = workqueue_[k + 1]
      BY <1>1, <2>1, QueueTail
    <2> HIDE DEF x
    <2>3. x = workqueue_[1]
      BY <2>2 DEF x
    <2>4. ASSUME NEW k \in 1 .. Len(workqueue_)
          PROVE  workqueue_[k] \in Queued' \cup {x}
      <3>1. CASE k = 1
        BY <2>3, <3>1
      <3>2. CASE k # 1
        <4>1. k - 1 \in 1 .. Len(workqueue_') /\ workqueue_'[k - 1] = workqueue_[k]
          BY <2>2, <3>2
        <4>2. QED
          BY <4>1 DEF Queued
      <3>3. QED
        BY <3>1, <3>2
    <2>5. ASSUME NEW k \in 1 .. Len(workqueue_')
          PROVE  workqueue_'[k] \in Queued
      <3>1. k + 1 \in 1 .. Len(workqueue_) /\ workqueue_'[k] = workqueue_[k + 1]
        BY <2>2
      <3>2. QED
        BY <3>1 DEF Queued
    <2>6. x \in Queued
      BY <2>2, <2>3 DEF Queued
    <2>7. ASSUME NEW y \in Queued PROVE y \in Queued' \cup {x}
      <3>1. PICK k \in 1 .. Len(workqueue_) : y = workqueue_[k]
        BY DEF Queued
      <3>2. QED
        BY <2>4, <3>1
    <2>8. ASSUME NEW y \in Queued' PROVE y \in Queued
      <3>1. PICK k \in 1 .. Len(workqueue_') : y = workqueue_'[k]
        BY DEF Queued
      <3>2. QED
        BY <2>5, <3>1
    <2>9. Queued = Queued' \cup {x}
      BY <2>6, <2>7, <2>8
    <2>10. QED
      BY <2>2, <2>3, <2>9
  <1>3. p \in [Workers -> States]
    BY <1>1 DEF States
  <1>4. \A v \in Workers : pc'[v] = p[v] \/ (p[v] = "wait" /\ pc'[v] = "lock")
    <2>1. pc' = p \/ Signal(p, pc')
      BY DEF doWorkTake
    <2> HIDE DEF p
    <2>2. QED
      BY <1>3, <2>1, SignalMoves
  <1>5. /\ pc'[w] = next
        /\ \A v \in Workers \ {w} : pc'[v] = pc[v] \/ (pc[v] = "wait" /\ pc'[v] = "lock")
    BY <1>1, <1>4
  <1> HIDE DEF p
  <1>6. /\ item' = [item EXCEPT ![w] = x]
        /\ call' = call /\ owner' = owner /\ offered' = offered /\ early' = early /\ done' = done
    BY DEF doWorkTake
  <1>7. Accounted'
    <2> SUFFICES ASSUME NEW i \in early
                 PROVE  (\/ i \in done
                         \/ \E v \in Workers : pc[v] = "run" /\ item[v] = i
                         \/ i \in Queued)'
      BY <1>6 DEF Accounted
    <2>1. CASE \E v \in Workers : pc[v] = "run" /\ item[v] = i
      BY <1>1, <1>5, <1>6, <2>1
    <2>2. CASE i = x
      BY <1>1, <1>5, <1>6, <2>2
    <2>3. CASE i \in done \/ i \in Queued'
      BY <1>6, <2>3
    <2>4. QED
      BY <1>2, <2>1, <2>2, <2>3 DEF FifoInv, Accounted
  <1>8. QuitBehind'
    <2>1. SUFFICES ASSUME NEW a \in 1 .. Len(workqueue_'), NEW b \in 1 .. Len(workqueue_'),
                          workqueue_'[a] = quitFunc, workqueue_'[b] \in early
                   PROVE  b < a
      BY <1>6 DEF QuitBehind
    <2>2. /\ a + 1 \in 1 .. Len(workqueue_) /\ b + 1 \in 1 .. Len(workqueue_)
          /\ workqueue_[a + 1] = quitFunc /\ workqueue_[b + 1] \in early
      BY <1>2, <2>1
    <2>3. b + 1 < a + 1
      BY <2>2 DEF FifoInv, QuitBehind
    <2>4. QED
      BY <2>3
  <1>9. ExitAfterWork'
    <2>1. CASE \E v \in Workers : pc[v] = "exited"
      BY <1>2, <1>6, <2>1 DEF FifoInv, ExitAfterWork
    <2>2. CASE x = quitFunc
      <3>1. SUFFICES ASSUME NEW b \in 1 .. Len(workqueue_'), workqueue_'[b] \in early PROVE FALSE
        BY <1>6 DEF ExitAfterWork, Queued
      <3>2. b + 1 \in 1 .. Len(workqueue_) /\ workqueue_[b + 1] \in early /\ 1 \in 1 .. Len(workqueue_)
        BY <1>2, <3>1
      <3>3. b + 1 < 1
        BY <1>2, <2>2, <3>2 DEF FifoInv, QuitBehind
      <3>4. QED
        BY <3>3
    <2>3. CASE x # quitFunc /\ \A v \in Workers : pc[v] # "exited"
      BY <1>5, <2>3 DEF ExitAfterWork
    <2>4. QED
      BY <2>1, <2>2, <2>3
  <1>10. NoQuitYet'
    BY <1>2, <1>5, <1>6 DEF FifoInv, NoQuitYet
  <1>11. CallsFresh' /\ JoinedLeft'
    BY <1>1, <1>6 DEF FifoInv, CallsFresh, JoinedLeft
  <1>12. QED
    BY <1>7, <1>8, <1>9, <1>10, <1>11 DEF FifoInv

(* Every step keeps what is said of early work. *)
LEMMA FifoStep == IInv /\ FifoInv /\ [Next]_vars => FifoInv'
  <1> SUFFICES ASSUME IInv, FifoInv, [Next]_vars
               PROVE  FifoInv'
    OBVIOUS
  <1>0. TypeOK
    BY DEF IInv
  <1>1. CASE startThreads
    <2>1. Queued' = Queued
      BY <1>1 DEF startThreads, Queued
    <2>2. early = {} /\ quitFunc \notin Queued /\ \A w \in Workers : pc'[w] # "exited"
      BY <1>1 DEF startThreads, FifoInv, NoQuitYet
    <2>3. QED
      BY <1>1, <2>1, <2>2 DEF startThreads, FifoInv, Accounted, QuitBehind, ExitAfterWork, NoQuitYet,
                              CallsFresh, JoinedLeft
  <1>2. CASE startReturn
    BY <1>0, <1>2, QuietFifo DEF startReturn
  <1>3. CASE quitBegin
    BY <1>0, <1>3, QuietFifo DEF quitBegin
  <1>4. CASE quitPush
    BY <1>4, QuitPushFifo
  <1>5. CASE quitFlag \/ quitJoinFails
    BY <1>0, <1>5, QuietFifo DEF quitFlag, quitJoinFails
  <1>6. CASE quitReturn
    <2>1. Queued' = Queued /\ owner' = "joined"
      BY <1>6 DEF quitReturn, Queued
    <2>2. QED
      BY <1>6, <2>1 DEF quitReturn, FifoInv, Accounted, QuitBehind, ExitAfterWork, NoQuitYet,
                        CallsFresh, JoinedLeft
  <1>7. ASSUME NEW c \in Callers, addWorkEnqueue(c)
        PROVE  FifoInv'
    BY <1>7, EnqueueFifo
  <1>8. ASSUME NEW c \in Callers, NEW i \in Items, addWorkTest(c, i)
        PROVE  FifoInv'
    <2>1. Queued' = Queued
      BY <1>8 DEF addWorkTest, Queued
    <2>2. CallsFresh'
      BY <1>0, <1>8, NamesAssumption DEF addWorkTest, FifoInv, CallsFresh, TypeOK
    <2>3. QED
      BY <1>8, <2>1, <2>2 DEF addWorkTest, FifoInv, Accounted, QuitBehind, ExitAfterWork, NoQuitYet,
                              JoinedLeft
  <1>9. ASSUME NEW w \in Workers, doWorkTake(w)
        PROVE  FifoInv'
    BY <1>9, TakeFifo
  <1>10. ASSUME NEW w \in Workers, doWorkWait(w) \/ SpuriousWakeup(w) \/ doWorkReturn(w)
         PROVE  FifoInv'
    <2>1. pc \in [Workers -> States] /\ item \in [Workers -> Items \cup {quitFunc, NoItem}]
      BY <1>0 DEF TypeOK, States
    <2>2. owner # "joined"
      BY <1>10 DEF doWorkWait, SpuriousWakeup, doWorkReturn, FifoInv, JoinedLeft
    <2>3. \A v \in Workers : /\ pc'[v] = "exited" => pc[v] = "exited"
                             /\ pc[v] = "run" /\ ~(pc'[v] = "run" /\ item'[v] = item[v]) => item[v] \in done'
      BY <1>10, <2>1 DEF doWorkWait, SpuriousWakeup, doWorkReturn
    <2>4. QED
      BY <1>0, <1>10, <2>2, <2>3, QuietFifo DEF doWorkWait, SpuriousWakeup, doWorkReturn
  <1>11. CASE UNCHANGED vars
    <2>1. Queued' = Queued
      BY <1>11 DEF vars, Queued
    <2>2. QED
      BY <1>11, <2>1 DEF vars, FifoInv, Accounted, QuitBehind, ExitAfterWork, NoQuitYet, CallsFresh,
                         JoinedLeft
  <1>12. QED
    BY <1>1, <1>2, <1>3, <1>4, <1>5, <1>6, <1>7, <1>8, <1>9, <1>10, <1>11
    DEF Next, QuitStep, WorkerStep

(* Initially there is no early work. *)
LEMMA InitFifo == Init => FifoInv
  <1> SUFFICES ASSUME Init PROVE FifoInv
    OBVIOUS
  <1>1. Queued = {}
    BY DEF Init, Queued
  <1>2. QED
    BY <1>1, NamesAssumption DEF Init, FifoInv, Accounted, QuitBehind, ExitAfterWork, NoQuitYet,
                                 CallsFresh, JoinedLeft

(* Work enqueued before quit() posted its first item has been executed when
   quit() returns, for any number of posters and items and any number of
   workers but none: setMaxThreads(0) is accepted, and a pool without threads
   leaves its queue as it is. *)
THEOREM EarlierWorkDoneHolds ==
    ASSUME Workers # {}
    PROVE  Spec => []EarlierWorkDone
  <1>1. IInv /\ FifoInv => EarlierWorkDone
    <2> SUFFICES ASSUME FifoInv, owner = "joined", NEW i \in early
                 PROVE  i \in done
      BY DEF EarlierWorkDone
    <2>1. \A w \in Workers : pc[w] = "exited"
      BY DEF FifoInv, JoinedLeft
    <2>2. i \notin Queued
      BY <2>1 DEF FifoInv, ExitAfterWork
    <2>3. QED
      BY <2>1, <2>2 DEF FifoInv, Accounted
  <1>2. QED
    BY <1>1, InitIInv, NextIInv, InitFifo, FifoStep, PTL DEF Spec
=============================================================================
