--------------------------- MODULE EventLoopProofs ---------------------------
(* Proofs about EventLoop for every set of items, channels and threads and
   every bound.  The inductive invariant is IInv. *)
EXTENDS EventLoop, SequenceTheorems, TLAPS

(* The points at which LoopThread is sure to test empty() again before it
   waits. *)
Draining == {"onQueue", "swap", "run", "callback"}

(* Queued work is announced, except while LoopThread is draining: the strong
   form of NoLostWakeup, which holds at every point of loop(). *)
Announced ==
    queue_ # <<>> /\ pc \notin Draining => queFd > 0 \/ \E t \in AllThreads : call[t] # NoItem

(* A readable queue eventfd is in the kernel's list. *)
Armed == queFd > 0 => pQueCh_ \in Elems(readyList)

(* epoll_wait never runs out of entries, a running channel callback is that
   of the first undispatched event. *)
Wellformed ==
    /\ scan <= Len(readyList)
    /\ pc = "handle" => channels # <<>>

(* The list doit executes is empty outside doit. *)
BatchInDoit == pc \notin {"run", "callback"} => getQueue = <<>>

IInv == TypeOK /\ Wellformed /\ Announced /\ Armed /\ BatchInDoit

-----------------------------------------------------------------------------
(* Appending adds one element to the elements of a sequence. *)
LEMMA ElemsAppend ==
    ASSUME NEW S, NEW s \in Seq(S), NEW e \in S
    PROVE  Elems(Append(s, e)) = Elems(s) \cup {e}
  BY DEF Elems

(* Dropping the head leaves every other element. *)
LEMMA ElemsTail ==
    ASSUME NEW S, NEW s \in Seq(S), s # <<>>, NEW e \in Elems(s), e # Head(s)
    PROVE  e \in Elems(Tail(s))
  <1>1. PICK k \in 1 .. Len(s) : s[k] = e
    BY DEF Elems
  <1>2. k # 1
    BY <1>1
  <1>3. k - 1 \in 1 .. Len(Tail(s)) /\ Tail(s)[k - 1] = e
    BY <1>1, <1>2
  <1>4. QED
    BY <1>3 DEF Elems

(* Putting a descriptor on the kernel's list keeps the list's type, its
   entries and at least its length. *)
LEMMA ListedFacts ==
    ASSUME TypeOK, NEW fd \in Fds
    PROVE  /\ Listed(fd) \in Seq(Fds)
           /\ fd \in Elems(Listed(fd))
           /\ Elems(readyList) \subseteq Elems(Listed(fd))
           /\ Len(readyList) <= Len(Listed(fd))
  <1>1. readyList \in Seq(Fds)
    BY DEF TypeOK
  <1>2. CASE fd \in Elems(readyList)
    BY <1>1, <1>2 DEF Listed
  <1>3. CASE fd \notin Elems(readyList)
    <2>1. Elems(Append(readyList, fd)) = Elems(readyList) \cup {fd}
      BY <1>1, ElemsAppend
    <2>2. QED
      BY <1>1, <1>3, <2>1 DEF Listed
  <1>4. QED
    BY <1>2, <1>3

(* Removing the k-th element keeps the type of a sequence. *)
LEMMA RemoveAtType ==
    ASSUME NEW S, NEW s \in Seq(S), NEW k \in 1 .. Len(s)
    PROVE  SubSeq(s, 1, k - 1) \o SubSeq(s, k + 1, Len(s)) \in Seq(S)
  <1>1. SubSeq(s, 1, k - 1) \in Seq(S)
    OBVIOUS
  <1>2. SubSeq(s, k + 1, Len(s)) \in Seq(S)
    OBVIOUS
  <1>3. QED
    BY <1>1, <1>2

-----------------------------------------------------------------------------
(* Initially the invariant holds. *)
LEMMA InitIInv == Init => IInv
  <1> SUFFICES ASSUME Init PROVE IInv
    OBVIOUS
  <1> USE DEF Init
  <1>1. TypeOK
    <2>1. /\ queue_ \in Seq(Items) /\ getQueue \in Seq(Items)
          /\ readyList \in Seq(Fds) /\ channels \in Seq(Fds)
          /\ posted \in Seq(Items) /\ executed \in Seq(Items)
      OBVIOUS
    <2>2. call \in [AllThreads -> Items \cup {NoItem}]
      OBVIOUS
    <2>3. QED
      BY <2>1, <2>2 DEF TypeOK, PCs
  <1>2. Wellformed
    BY DEF Wellformed
  <1>3. Announced /\ Armed /\ BatchInDoit
    BY DEF Announced, Armed, BatchInDoit
  <1>4. QED
    BY <1>1, <1>2, <1>3 DEF IInv

(* A call of addWork (its enqueue) keeps the invariant: the item is announced
   by the caller until the caller writes the eventfd. *)
LEMMA EnqueueIInv ==
    ASSUME IInv, NEW t \in AllThreads, NEW i \in Items, enqueue(t, i)
    PROVE  IInv'
  <1> USE DEF IInv, enqueue, kernelVars, loopVars
  <1>1. TypeOK'
    BY DEF TypeOK
  <1>2. Wellformed'
    BY DEF Wellformed
  <1>3. Announced'
    <2>1. call'[t] = i /\ i # NoItem
      BY NamesAssumption DEF TypeOK
    <2>2. QED
      BY <2>1 DEF Announced
  <1>4. Armed'
    BY DEF Armed, Elems
  <1>5. BatchInDoit'
    BY DEF BatchInDoit
  <1>6. QED
    BY <1>1, <1>2, <1>3, <1>4, <1>5

(* The eventfd write takes over the announcement and arms epoll. *)
LEMMA OnWriteIInv ==
    ASSUME IInv, NEW t \in AllThreads, onWrite(t)
    PROVE  IInv'
  <1> USE DEF IInv, onWrite, queueVars, loopVars, histVars
  <1>1. /\ readyList' \in Seq(Fds)
        /\ pQueCh_ \in Elems(readyList')
        /\ Len(readyList) <= Len(readyList')
    BY ListedFacts DEF Fds
  <1>2. TypeOK'
    BY <1>1 DEF TypeOK
  <1>3. Wellformed'
    BY <1>1 DEF Wellformed, TypeOK
  <1>4. Announced'
    BY DEF Announced, TypeOK
  <1>5. Armed'
    BY <1>1 DEF Armed, Elems
  <1>6. BatchInDoit'
    BY DEF BatchInDoit
  <1>7. QED
    BY <1>2, <1>3, <1>4, <1>5, <1>6

(* removeWork shortens a queue that was not empty. *)
LEMMA RemoveWorkIInv ==
    ASSUME IInv, NEW t \in AllThreads, NEW i \in Items, removeWork(t, i)
    PROVE  IInv'
  <1> USE DEF IInv, removeWork, kernelVars, loopVars
  <1>1. queue_' \in Seq(Items) /\ queue_ # <<>>
    BY RemoveAtType DEF TypeOK
  <1>2. TypeOK'
    BY <1>1 DEF TypeOK
  <1>3. Wellformed' /\ Armed' /\ BatchInDoit'
    BY DEF Wellformed, Armed, BatchInDoit, Elems
  <1>4. Announced'
    BY <1>1 DEF Announced
  <1>5. QED
    BY <1>2, <1>3, <1>4

(* quit() touches the interrupt eventfd only. *)
LEMMA QuitIInv ==
    ASSUME IInv, NEW t \in AllThreads, quitLoop(t)
    PROVE  IInv'
  <1> USE DEF IInv, quitLoop, queueVars, loopVars
  <1>1. /\ readyList' \in Seq(Fds)
        /\ Elems(readyList) \subseteq Elems(readyList')
        /\ Len(readyList) <= Len(readyList')
    BY ListedFacts DEF Fds
  <1>2. owed' \subseteq Items
    BY SMTT(20) DEF Accepted, Elems, TypeOK
  <1>3. TypeOK'
    BY <1>1, <1>2 DEF TypeOK
  <1>4. Wellformed'
    BY <1>1 DEF Wellformed, TypeOK
  <1>5. Announced' /\ BatchInDoit'
    BY DEF Announced, BatchInDoit
  <1>6. Armed'
    BY <1>1 DEF Armed, Elems
  <1>7. QED
    BY <1>3, <1>4, <1>5, <1>6

(* enroll, erase and input on a channel do not touch the queue's eventfd. *)
LEMMA ChannelIInv ==
    ASSUME IInv, NEW ch \in Channels,
           \/ \E t \in AllThreads : enroll(t, ch) \/ erase(t, ch)
           \/ ChannelEvent(ch)
    PROVE  IInv'
  <1> USE DEF IInv, queueVars, loopVars, histVars
  <1>1. CASE \E t \in AllThreads : enroll(t, ch)
    BY <1>1 DEF enroll, TypeOK, Wellformed, Announced, Armed, BatchInDoit, Elems
  <1>2. CASE \E t \in AllThreads : erase(t, ch)
    BY <1>2 DEF erase, TypeOK, Wellformed, Announced, Armed, BatchInDoit, Elems
  <1>3. CASE ChannelEvent(ch)
    <2>1. /\ readyList' \in Seq(Fds)
          /\ Elems(readyList) \subseteq Elems(readyList')
          /\ Len(readyList) <= Len(readyList')
      BY <1>3, ListedFacts DEF Fds, ChannelEvent
    <2>2. TypeOK'
      BY <1>3, <2>1 DEF TypeOK, ChannelEvent
    <2>3. Wellformed'
      BY <1>3, <2>1 DEF Wellformed, TypeOK, ChannelEvent
    <2>4. Announced' /\ BatchInDoit'
      BY <1>3 DEF Announced, BatchInDoit, ChannelEvent
    <2>5. Armed'
      BY <1>3, <2>1 DEF Armed, Elems, ChannelEvent
    <2>6. QED
      BY <2>2, <2>3, <2>4, <2>5
  <1>4. QED
    BY <1>1, <1>2, <1>3

(* Examining an entry of the kernel's list drops it or moves it to the tail. *)
LEMMA RotateFacts ==
    ASSUME NEW S, NEW s \in Seq(S), s # <<>>,
           NEW r, r = Tail(s) \/ r = Append(Tail(s), Head(s))
    PROVE  /\ Head(s) \in S
           /\ r \in Seq(S)
           /\ Len(s) - 1 <= Len(r)
           /\ \A e \in Elems(s) : e # Head(s) => e \in Elems(r)
           /\ r = Append(Tail(s), Head(s)) => Head(s) \in Elems(r)
  <1> DEFINE h == Head(s)
             t == Tail(s)
  <1>1. h \in S /\ t \in Seq(S) /\ Len(t) = Len(s) - 1
    BY HeadTailProperties
  <1>2. \A e \in Elems(s) : e # h => e \in Elems(t)
    BY ElemsTail
  <1>3. r = t \/ r = Append(t, h)
    OBVIOUS
  <1> HIDE DEF h, t
  <1>4. Append(t, h) \in Seq(S) /\ Len(Append(t, h)) = Len(t) + 1 /\ Len(t) \in Nat
    BY <1>1, AppendProperties, LenProperties
  <1>5. Elems(Append(t, h)) = Elems(t) \cup {h}
    BY <1>1, ElemsAppend
  <1>6. r \in Seq(S) /\ Len(s) - 1 <= Len(r)
    BY <1>1, <1>3, <1>4
  <1>7. (\A e \in Elems(s) : e # h => e \in Elems(r)) /\ (r = Append(t, h) => h \in Elems(r))
    BY <1>2, <1>3, <1>5
  <1>8. QED
    BY <1>1, <1>6, <1>7 DEF h, t

(* epoll_wait wakes up. *)
LEMMA WakeupIInv ==
    ASSUME IInv, waitWakeup
    PROVE  IInv'
  BY DEF IInv, queueVars, kernelVars, histVars, waitWakeup, TypeOK, PCs, Wellformed, Announced,
         Armed, BatchInDoit, Elems, Draining

(* epoll_wait examines one entry: the queue's entry stays while its eventfd
   is readable. *)
LEMMA ScanIInv ==
    ASSUME IInv, waitScan
    PROVE  IInv'
  <1>1. readyList \in Seq(Fds) /\ readyList # <<>>
    BY DEF IInv, TypeOK, Wellformed, waitScan
  <1>2. readyList' = Tail(readyList) \/ readyList' = Append(Tail(readyList), Head(readyList))
    BY DEF waitScan
  <1>3. /\ Head(readyList) \in Fds
        /\ readyList' \in Seq(Fds)
        /\ Len(readyList) - 1 <= Len(readyList')
        /\ \A e \in Elems(readyList) : e # Head(readyList) => e \in Elems(readyList')
        /\ readyList' = Append(Tail(readyList), Head(readyList))
              => Head(readyList) \in Elems(readyList')
    BY <1>1, <1>2, RotateFacts
  <1>4. channels' \in Seq(Fds)
    <2>1. channels \in Seq(Fds)
      BY DEF IInv, TypeOK
    <2>2. channels' = channels \/ channels' = Append(channels, Head(readyList))
      BY DEF waitScan
    <2>3. Head(readyList) \in Fds => Append(channels, Head(readyList)) \in Seq(Fds)
      BY <2>1, AppendProperties
    <2>4. QED
      BY <1>3, <2>1, <2>2, <2>3
  <1>5. TypeOK'
    BY <1>3, <1>4, SMTT(20) DEF IInv, TypeOK, waitScan, queueVars, histVars
  <1>6. Wellformed'
    <2>1. Len(readyList) \in Nat /\ Len(readyList') \in Nat
      BY <1>1, <1>3
    <2>2. scan' <= Len(readyList')
      BY <1>3, <2>1 DEF IInv, TypeOK, Wellformed, waitScan
    <2>3. QED
      BY <2>2 DEF Wellformed, waitScan
  <1>7. Announced' /\ BatchInDoit'
    BY DEF IInv, Announced, BatchInDoit, waitScan, queueVars
  <1>8. Armed'
    <2>1. queFd' = queFd
      BY DEF waitScan
    <2>2. CASE queFd > 0 /\ Head(readyList) = pQueCh_
      <3>1. readyList' = Append(Tail(readyList), Head(readyList))
        BY <2>2 DEF waitScan, IsReady
      <3>2. QED
        BY <1>3, <2>2, <3>1 DEF Armed, Elems
    <2>3. CASE queFd > 0 /\ Head(readyList) # pQueCh_
      BY <1>3, <2>3 DEF IInv, Armed, Elems
    <2>4. QED
      BY <2>1, <2>2, <2>3 DEF Armed
  <1>9. QED
    BY <1>5, <1>6, <1>7, <1>8 DEF IInv

(* epoll_wait returns to loop() or sleeps again. *)
LEMMA WaitReturnIInv ==
    ASSUME IInv, waitReturn
    PROVE  IInv'
  <1> USE DEF IInv, queueVars, kernelVars, histVars, waitReturn
  <1>1. TypeOK'
    BY DEF TypeOK, PCs
  <1>2. Wellformed'
    BY DEF TypeOK, Wellformed
  <1>3. Announced' /\ Armed' /\ BatchInDoit'
    BY DEF Announced, Armed, BatchInDoit, Elems, Draining
  <1>4. QED
    BY <1>1, <1>2, <1>3

(* Dispatching the events of one iteration. *)
LEMMA DispatchIInv ==
    ASSUME IInv, dispatch \/ handleReturn \/ dispatchDone
    PROVE  IInv'
  <1> USE DEF IInv, queueVars, kernelVars, histVars
  <1>1. CASE dispatch
    <2>1. channels' \in Seq(Fds)
      <3>1. channels \in Seq(Fds) /\ channels # <<>>
        BY <1>1 DEF dispatch, TypeOK
      <3>2. Tail(channels) \in Seq(Fds)
        BY <3>1, HeadTailProperties
      <3>3. QED
        BY <1>1, <3>1, <3>2 DEF dispatch
    <2>2. TypeOK'
      BY <1>1, <2>1 DEF dispatch, TypeOK, PCs
    <2>3. Wellformed'
      BY <1>1 DEF dispatch, Wellformed
    <2>4. Announced' /\ Armed' /\ BatchInDoit'
      BY <1>1 DEF dispatch, Announced, Armed, BatchInDoit, Elems, Draining
    <2>5. QED
      BY <2>2, <2>3, <2>4
  <1>2. CASE handleReturn
    <2>1. channels' \in Seq(Fds)
      BY <1>2 DEF handleReturn, TypeOK, Wellformed
    <2>2. QED
      BY <1>2, <2>1 DEF handleReturn, TypeOK, PCs, Wellformed, Announced, Armed, BatchInDoit, Elems, Draining
  <1>3. CASE dispatchDone
    BY <1>3 DEF dispatchDone, TypeOK, PCs, Wellformed, Announced, Armed, BatchInDoit, Elems, Draining
  <1>4. QED
    BY <1>1, <1>2, <1>3

(* Serving the work queue: one token is read, then the queue is drained until
   empty() says so. *)
LEMMA DrainIInv ==
    ASSUME IInv, readQueFd \/ onQueue \/ swap \/ run \/ runReturn
    PROVE  IInv'
  <1> USE DEF IInv, queueVars, kernelVars, histVars, PCs, Draining
  <1>1. CASE readQueFd
    BY <1>1 DEF readQueFd, TypeOK, Wellformed, Announced, Armed, BatchInDoit, Elems
  <1>2. CASE onQueue
    BY <1>2 DEF onQueue, TypeOK, Wellformed, Announced, Armed, BatchInDoit, Elems
  <1>3. CASE swap
    BY <1>3 DEF swap, TypeOK, Wellformed, Announced, Armed, BatchInDoit, Elems
  <1>4. CASE run
    <2>1. getQueue' \in Seq(Items) /\ executed' \in Seq(Items)
      <3>1. getQueue \in Seq(Items) /\ executed \in Seq(Items)
        BY DEF TypeOK
      <3>2. getQueue # <<>> => Head(getQueue) \in Items /\ Tail(getQueue) \in Seq(Items)
        BY <3>1, HeadTailProperties
      <3>3. Head(getQueue) \in Items => Append(executed, Head(getQueue)) \in Seq(Items)
        BY <3>1, AppendProperties
      <3>4. QED
        BY <1>4, <3>1, <3>2, <3>3 DEF run
    <2>2. TypeOK'
      BY <1>4, <2>1 DEF run, TypeOK
    <2>3. Wellformed' /\ Announced' /\ Armed' /\ BatchInDoit'
      BY <1>4 DEF run, Wellformed, Announced, Armed, BatchInDoit, Elems
    <2>4. QED
      BY <2>2, <2>3
  <1>5. CASE runReturn
    BY <1>5 DEF runReturn, TypeOK, Wellformed, Announced, Armed, BatchInDoit, Elems
  <1>6. QED
    BY <1>1, <1>2, <1>3, <1>4, <1>5

(* Entering and leaving loop(). *)
LEMMA EnterLeaveIInv ==
    ASSUME IInv, loopStart \/ waitError \/ quitCheck
    PROVE  IInv'
  <1> USE DEF IInv, queueVars, kernelVars, histVars, PCs, Draining
  <1>1. CASE loopStart
    BY <1>1 DEF loopStart, TypeOK, Wellformed, Announced, Armed, BatchInDoit, Elems
  <1>2. CASE waitError
    BY <1>2 DEF waitError, TypeOK, Wellformed, Announced, Armed, BatchInDoit, Elems
  <1>3. CASE quitCheck
    BY <1>3 DEF quitCheck, TypeOK, Wellformed, Announced, Armed, BatchInDoit, Elems
  <1>4. QED
    BY <1>1, <1>2, <1>3

(* Every step keeps the invariant. *)
LEMMA NextIInv == IInv /\ [Next]_vars => IInv'
  <1> SUFFICES ASSUME IInv, [Next]_vars
               PROVE  IInv'
    OBVIOUS
  <1>1. CASE Calls
    BY <1>1, EnqueueIInv, OnWriteIInv, RemoveWorkIInv, QuitIInv, ChannelIInv DEF Calls
  <1>2. CASE \E ch \in Channels : ChannelEvent(ch)
    BY <1>2, ChannelIInv
  <1>3. CASE loopStart \/ waitError
    BY <1>3, EnterLeaveIInv
  <1>4. CASE LoopStep
    BY <1>4, WakeupIInv, ScanIInv, WaitReturnIInv, DispatchIInv, DrainIInv, EnterLeaveIInv DEF LoopStep
  <1>5. CASE UNCHANGED vars
    BY <1>5 DEF vars, queueVars, kernelVars, loopVars, histVars, IInv, TypeOK, Wellformed,
                Announced, Armed, BatchInDoit, Elems
  <1>6. QED
    BY <1>1, <1>2, <1>3, <1>4, <1>5 DEF Next

(* The inductive invariant holds in every reachable state of every instance. *)
THEOREM Invariance == Spec => []IInv
  BY InitIInv, NextIInv, PTL DEF Spec

(* Type correctness of the event loop, its work queue and its epoll set. *)
THEOREM TypeCorrect == Spec => []TypeOK
  <1>1. IInv => TypeOK
    BY DEF IInv
  <1>2. QED
    BY <1>1, Invariance, PTL

(* addWork never loses its wake-up: whenever loop() waits or is not running
   and the queue holds work, the queue eventfd is readable and listed, or the
   poster has yet to write it. *)
THEOREM NoLostWakeupHolds == Spec => []NoLostWakeup
  <1>1. IInv => NoLostWakeup
    BY DEF IInv, NoLostWakeup, Announced, Armed, Draining
  <1>2. QED
    BY <1>1, Invariance, PTL

-----------------------------------------------------------------------------
(* Refinement of WorkService *)

(* Every item in the queue, in doit's batch, executed or removed was posted. *)
OnlyPosted ==
    Elems(queue_) \cup Elems(getQueue) \cup Elems(executed) \cup removed \subseteq Elems(posted)

(* The elements of a suffix. *)
LEMMA TailSubset ==
    ASSUME NEW S, NEW s \in Seq(S), s # <<>>
    PROVE  Elems(Tail(s)) \subseteq Elems(s) /\ Head(s) \in Elems(s)
  <1>1. Len(Tail(s)) = Len(s) - 1 /\ Len(s) \in Nat \ {0}
    BY HeadTailProperties, EmptySeq
  <1>2. \A i \in 1 .. Len(Tail(s)) : Tail(s)[i] = s[i + 1] /\ i + 1 \in 1 .. Len(s)
    BY <1>1, HeadTailProperties
  <1>3. Head(s) = s[1] /\ 1 \in 1 .. Len(s)
    BY <1>1
  <1>4. QED
    BY <1>2, <1>3 DEF Elems

(* The elements of a sequence without its k-th entry. *)
LEMMA RemoveAtSubset ==
    ASSUME NEW S, NEW s \in Seq(S), NEW k \in 1 .. Len(s)
    PROVE  Elems(SubSeq(s, 1, k - 1) \o SubSeq(s, k + 1, Len(s))) \subseteq Elems(s)
  <1> DEFINE a == SubSeq(s, 1, k - 1)
             b == SubSeq(s, k + 1, Len(s))
  <1>1. a \in Seq(S) /\ Len(a) = k - 1 /\ \A i \in 1 .. k - 1 : a[i] = s[i]
    OBVIOUS
  <1>2. b \in Seq(S) /\ Len(b) = Len(s) - k /\ \A i \in 1 .. Len(s) - k : b[i] = s[k + i]
    OBVIOUS
  <1> HIDE DEF a, b
  <1>3. Len(a \o b) = Len(s) - 1
    BY <1>1, <1>2
  <1>4. ASSUME NEW i \in 1 .. Len(a \o b)
        PROVE  (a \o b)[i] \in Elems(s)
    <2>1. CASE i <= k - 1
      BY <1>1, <1>2, <1>3, <2>1 DEF Elems
    <2>2. CASE i > k - 1
      <3>1. (a \o b)[i] = b[i - (k - 1)]
        BY <1>1, <1>2, <1>3, <2>2
      <3>2. b[i - (k - 1)] = s[i + 1] /\ i + 1 \in 1 .. Len(s)
        BY <1>2, <1>3, <2>2
      <3>3. QED
        BY <3>1, <3>2 DEF Elems
    <2>3. QED
      BY <1>3, <2>1, <2>2
  <1>5. Elems(a \o b) \subseteq Elems(s)
    BY <1>4 DEF Elems
  <1>6. QED
    BY <1>5 DEF a, b

(* Only posted items are ever queued, run or removed. *)
LEMMA OnlyPostedStep ==
    ASSUME IInv, OnlyPosted, [Next]_vars
    PROVE  OnlyPosted'
  <1> USE DEF IInv, queueVars, histVars
  <1>1. CASE \E t \in AllThreads, i \in Items : enqueue(t, i)
    <2>1. PICK t \in AllThreads, i \in Items : enqueue(t, i)
      BY <1>1
    <2>2. Elems(Append(queue_, i)) = Elems(queue_) \cup {i}
      BY ElemsAppend DEF TypeOK
    <2>3. Elems(Append(posted, i)) = Elems(posted) \cup {i}
      BY ElemsAppend DEF TypeOK
    <2>4. /\ queue_' = Append(queue_, i) /\ posted' = Append(posted, i)
          /\ getQueue' = getQueue /\ executed' = executed /\ removed' = removed
      BY <2>1 DEF enqueue
    <2>5. QED
      BY <2>2, <2>3, <2>4 DEF OnlyPosted
  <1>2. CASE \E t \in AllThreads, i \in Items : removeWork(t, i)
    <2>1. PICK t \in AllThreads, i \in Items : removeWork(t, i)
      BY <1>2
    <2>2. PICK k \in 1 .. Len(queue_) :
             /\ queue_[k] = i
             /\ queue_' = SubSeq(queue_, 1, k - 1) \o SubSeq(queue_, k + 1, Len(queue_))
      BY <2>1 DEF removeWork
    <2>3. queue_ \in Seq(Items)
      BY DEF TypeOK
    <2>4. Elems(queue_') \subseteq Elems(queue_)
      BY <2>2, <2>3, RemoveAtSubset
    <2>5. i \in Elems(queue_)
      BY <2>2 DEF Elems
    <2>6. /\ posted' = posted /\ getQueue' = getQueue /\ executed' = executed
          /\ removed' = removed \cup {i}
      BY <2>1 DEF removeWork
    <2>7. QED
      BY <2>4, <2>5, <2>6 DEF OnlyPosted
  <1>3. CASE swap
    <2>1. Elems(<<>>) = {}
      BY DEF Elems
    <2>2. QED
      BY <1>3, <2>1 DEF swap, OnlyPosted
  <1>4. CASE run
    <2>1. CASE getQueue = <<>>
      BY <1>4, <2>1 DEF run, OnlyPosted
    <2>2. CASE getQueue # <<>>
      <3>1. getQueue \in Seq(Items) /\ executed \in Seq(Items)
        BY DEF TypeOK
      <3>2. Head(getQueue) \in Items /\ Elems(Tail(getQueue)) \subseteq Elems(getQueue)
                /\ Head(getQueue) \in Elems(getQueue)
        BY <2>2, <3>1, TailSubset, HeadTailProperties
      <3>3. Elems(Append(executed, Head(getQueue))) = Elems(executed) \cup {Head(getQueue)}
        BY <3>1, <3>2, ElemsAppend
      <3>4. /\ getQueue' = Tail(getQueue) /\ executed' = Append(executed, Head(getQueue))
            /\ queue_' = queue_ /\ posted' = posted /\ removed' = removed
        BY <1>4, <2>2 DEF run
      <3>5. QED
        BY <3>2, <3>3, <3>4 DEF OnlyPosted
    <2>3. QED
      BY <2>1, <2>2
  <1>5. CASE UNCHANGED <<queueVars, posted, executed, removed>>
    BY <1>5 DEF OnlyPosted
  <1>6. QED
    BY <1>1, <1>2, <1>3, <1>4, <1>5
       DEF Next, Calls, LoopStep, vars, onWrite, quitLoop, enroll, erase, ChannelEvent, loopStart,
           waitError, waitWakeup, waitScan, waitReturn, dispatch, handleReturn, dispatchDone,
           readQueFd, onQueue, runReturn, quitCheck

(* The invariant extended with OnlyPosted. *)
THEOREM OnlyPostedHolds == Spec => []OnlyPosted
  <1>1. Init => OnlyPosted
    BY DEF Init, OnlyPosted, Elems
  <1>2. IInv /\ OnlyPosted /\ [Next]_vars => OnlyPosted'
    BY OnlyPostedStep
  <1>3. QED
    BY <1>1, <1>2, Invariance, PTL DEF Spec

(* Three parts of a line may be joined in either order. *)
LEMMA ConcatRegroup ==
    \A S : \A g, t, u \in Seq(S) : (g \o t) \o u = g \o (t \o u)
  <1>1. ASSUME NEW S, NEW g \in Seq(S), NEW t \in Seq(S), NEW u \in Seq(S)
        PROVE  (g \o t) \o u = g \o (t \o u)
    BY ConcatAssociative, SMTT(60)
  <1>2. QED
    BY <1>1

(* Appending to the second part of a line appends to the line. *)
LEMMA ConcatAppend ==
    ASSUME NEW S, NEW g \in Seq(S), NEW q \in Seq(S), NEW e \in S
    PROVE  g \o Append(q, e) = Append(g \o q, e)
  <1>1. Append(q, e) = q \o <<e>> /\ <<e>> \in Seq(S)
    BY AppendIsConcat
  <1>2. g \o q \in Seq(S)
    BY ConcatProperties
  <1>3. Append(g \o q, e) = (g \o q) \o <<e>>
    BY <1>2, AppendIsConcat
  <1>4. QED
    BY <1>1, <1>3, ConcatAssociative

(* Taking the head of the first part takes the head of the line. *)
LEMMA ConcatHeadTail ==
    ASSUME NEW S, NEW g \in Seq(S), NEW q \in Seq(S), g # <<>>
    PROVE  /\ g \o q # <<>>
           /\ Head(g \o q) = Head(g)
           /\ Tail(g \o q) = Tail(g) \o q
  <1>1. /\ g \o q \in Seq(S) /\ Len(g \o q) = Len(g) + Len(q)
        /\ Len(g) \in Nat \ {0} /\ Len(q) \in Nat
    BY ConcatProperties, EmptySeq, LenProperties
  <1>2. g \o q # <<>>
    BY <1>1
  <1>3. Head(g \o q) = Head(g)
    BY <1>1
  <1>4. Tail(g) \in Seq(S) /\ Len(Tail(g)) = Len(g) - 1
          /\ \A i \in 1 .. Len(Tail(g)) : Tail(g)[i] = g[i + 1]
    BY HeadTailProperties
  <1>5. Tail(g) \o q \in Seq(S) /\ Len(Tail(g) \o q) = Len(g) - 1 + Len(q)
    BY <1>1, <1>4, ConcatProperties
  <1>6. Tail(g \o q) \in Seq(S) /\ Len(Tail(g \o q)) = Len(g) + Len(q) - 1
          /\ \A i \in 1 .. Len(Tail(g \o q)) : Tail(g \o q)[i] = (g \o q)[i + 1]
    BY <1>1, <1>2, HeadTailProperties
  <1>7. ASSUME NEW i \in 1 .. Len(Tail(g \o q))
        PROVE  Tail(g \o q)[i] = (Tail(g) \o q)[i]
    <2>1. Tail(g \o q)[i] = (g \o q)[i + 1]
      BY <1>6
    <2>2. (g \o q)[i + 1] = IF i + 1 <= Len(g) THEN g[i + 1] ELSE q[i + 1 - Len(g)]
      BY <1>1, <1>6, ConcatProperties
    <2>3. (Tail(g) \o q)[i] = IF i <= Len(g) - 1 THEN Tail(g)[i] ELSE q[i - (Len(g) - 1)]
      BY <1>1, <1>4, <1>5, <1>6, ConcatProperties
    <2>4. QED
      BY <1>1, <1>4, <1>6, <2>1, <2>2, <2>3
  <1>8. Tail(g \o q) = Tail(g) \o q
    BY <1>5, <1>6, <1>7, SeqEqual
  <1>9. QED
    BY <1>2, <1>3, <1>8

(* Removing the k-th item of the second part removes one item of the line. *)
LEMMA ConcatRemove ==
    ASSUME NEW S, NEW g \in Seq(S), NEW q \in Seq(S), NEW k \in 1 .. Len(q)
    PROVE  LET l == g \o q
               n == Len(g) + k
           IN  /\ n \in 1 .. Len(l) /\ l[n] = q[k]
               /\ g \o (SubSeq(q, 1, k - 1) \o SubSeq(q, k + 1, Len(q)))
                    = SubSeq(l, 1, n - 1) \o SubSeq(l, n + 1, Len(l))
  <1> DEFINE l == g \o q
             n == Len(g) + k
             a == SubSeq(q, 1, k - 1)
             b == SubSeq(q, k + 1, Len(q))
             c == SubSeq(l, 1, n - 1)
             d == SubSeq(l, n + 1, Len(l))
  <1>1. /\ l \in Seq(S) /\ Len(l) = Len(g) + Len(q)
        /\ Len(g) \in Nat /\ Len(q) \in Nat /\ n \in 1 .. Len(l)
    BY ConcatProperties, LenProperties
  <1>2. \A i \in 1 .. Len(l) : l[i] = IF i <= Len(g) THEN g[i] ELSE q[i - Len(g)]
    BY <1>1, ConcatProperties
  <1> HIDE DEF l
  <1>3. a \in Seq(S) /\ Len(a) = k - 1 /\ \A i \in 1 .. k - 1 : a[i] = q[i]
    BY <1>1
  <1>4. b \in Seq(S) /\ b = d
    <2>1. b \in Seq(S) /\ Len(b) = Len(q) - k /\ \A i \in 1 .. Len(q) - k : b[i] = q[k + i]
      BY <1>1, SMTT(20)
    <2>2. d \in Seq(S) /\ Len(d) = Len(q) - k /\ \A i \in 1 .. Len(q) - k : d[i] = l[n + i]
      BY <1>1
    <2>3. \A i \in 1 .. Len(q) - k : l[n + i] = q[k + i]
      BY <1>1, <1>2
    <2> HIDE DEF b, d, n
    <2>4. QED
      BY <2>1, <2>2, <2>3, SeqEqual
  <1>5. g \o a = c
    <2>1. c \in Seq(S) /\ Len(c) = n - 1 /\ \A i \in 1 .. n - 1 : c[i] = l[i]
      BY <1>1
    <2> HIDE DEF a, c
    <2>2. /\ g \o a \in Seq(S) /\ Len(g \o a) = Len(g) + Len(a)
          /\ \A i \in 1 .. Len(g) + Len(a) :
                (g \o a)[i] = IF i <= Len(g) THEN g[i] ELSE a[i - Len(g)]
      <3>1. a \in Seq(S)
        BY <1>3
      <3>2. QED
        BY <3>1, ConcatProperties
    <2>3. ASSUME NEW i \in 1 .. n - 1
          PROVE  (g \o a)[i] = c[i]
      <3>1. c[i] = l[i] /\ i \in 1 .. Len(l) /\ i \in 1 .. Len(g) + Len(a)
        BY <1>1, <1>3, <2>1
      <3>2. CASE i <= Len(g)
        BY <1>2, <2>2, <3>1, <3>2
      <3>3. CASE ~(i <= Len(g))
        <4>1. i - Len(g) \in 1 .. k - 1
          BY <1>1, <3>3
        <4>2. (g \o a)[i] = a[i - Len(g)] /\ l[i] = q[i - Len(g)]
          BY <1>2, <2>2, <3>1, <3>3
        <4>3. QED
          BY <1>3, <3>1, <4>1, <4>2
      <3>4. QED
        BY <3>2, <3>3
    <2>4. Len(g \o a) = Len(c)
      BY <1>1, <1>3, <2>1, <2>2
    <2>5. \A i \in 1 .. Len(g \o a) : (g \o a)[i] = c[i]
      BY <2>1, <2>3, <2>4
    <2>6. QED
      BY <2>1, <2>2, <2>4, <2>5, SeqEqual
  <1>6. g \o (a \o b) = (g \o a) \o b
    <2>1. a \in Seq(S) /\ b \in Seq(S)
      BY <1>3, <1>4
    <2> HIDE DEF a, b
    <2>2. (g \o a) \o b = g \o (a \o b)
      BY <2>1, ConcatRegroup, SMTT(60)
    <2>3. QED
      BY <2>2
  <1>7. l[n] = q[k]
    BY <1>1, <1>2
  <1>8. QED
    BY <1>1, <1>4, <1>5, <1>6, <1>7 DEF l

(* Every step of the event loop is a step of the service or a stutter. *)
LEMMA StepRefines ==
    ASSUME IInv, OnlyPosted, [Next]_vars
    PROVE  [Service!Next]_Service!svars
  <1> DEFINE pending == getQueue \o queue_
  <1>1. queue_ \in Seq(Items) /\ getQueue \in Seq(Items) /\ pending \in Seq(Items)
    BY ConcatProperties DEF IInv, TypeOK
  <1>2. CASE \E t \in AllThreads, i \in Items : enqueue(t, i)
    <2>1. PICK t \in AllThreads, i \in Items : enqueue(t, i)
      BY <1>2
    <2>2. pending' = Append(pending, i)
      BY <1>1, <2>1, ConcatAppend DEF enqueue
    <2>3. i \notin Elems(getQueue) /\ i \notin Elems(queue_) /\ i \notin Elems(executed)
              /\ i \notin removed
      BY <2>1 DEF enqueue, OnlyPosted
    <2>4. \A k \in 1 .. Len(pending) : pending[k] # i
      <3> SUFFICES ASSUME NEW k \in 1 .. Len(pending)
                   PROVE  pending[k] # i
        OBVIOUS
      <3>1. Len(pending) = Len(getQueue) + Len(queue_) /\ Len(getQueue) \in Nat /\ Len(queue_) \in Nat
        BY <1>1, ConcatProperties, LenProperties
      <3>2. CASE k <= Len(getQueue)
        <4>1. pending[k] = getQueue[k]
          BY <1>1, <3>1, <3>2, ConcatProperties
        <4>2. QED
          BY <2>3, <3>1, <3>2, <4>1 DEF Elems
      <3>3. CASE ~(k <= Len(getQueue))
        <4>1. pending[k] = queue_[k - Len(getQueue)] /\ k - Len(getQueue) \in 1 .. Len(queue_)
          BY <1>1, <3>1, <3>3, ConcatProperties
        <4>2. QED
          BY <2>3, <4>1 DEF Elems
      <3>4. QED
        BY <3>2, <3>3
    <2>5. \A k \in 1 .. Len(executed) : executed[k] # i
      BY <2>3 DEF Elems
    <2>6. executed' = executed /\ removed' = removed
      BY <2>1 DEF enqueue
    <2>7. QED
      BY <2>2, <2>3, <2>4, <2>5, <2>6 DEF Service!Next, Service!Submit
  <1>3. CASE \E t \in AllThreads, i \in Items : removeWork(t, i)
    <2>1. PICK t \in AllThreads, i \in Items : removeWork(t, i)
      BY <1>3
    <2>2. PICK k \in 1 .. Len(queue_) :
             /\ queue_[k] = i
             /\ queue_' = SubSeq(queue_, 1, k - 1) \o SubSeq(queue_, k + 1, Len(queue_))
      BY <2>1 DEF removeWork
    <2>3. getQueue' = getQueue /\ executed' = executed /\ removed' = removed \cup {i}
      BY <2>1 DEF removeWork
    <2> DEFINE n == Len(getQueue) + k
    <2>4. /\ n \in 1 .. Len(pending) /\ pending[n] = i
          /\ pending' = SubSeq(pending, 1, n - 1) \o SubSeq(pending, n + 1, Len(pending))
      BY <1>1, <2>2, <2>3, ConcatRemove, ZenonT(30)
    <2> HIDE DEF n
    <2>5. QED
      BY <2>3, <2>4 DEF Service!Next, Service!Cancel
  <1>4. CASE swap
    <2>1. getQueue = <<>>
      BY <1>4 DEF swap, IInv, BatchInDoit
    <2>2. getQueue \o queue_ = queue_ /\ queue_ \o <<>> = queue_
      BY <1>1, <2>1, ConcatEmptySeq
    <2>3. getQueue' \o queue_' = getQueue \o queue_
      BY <1>4, <2>2 DEF swap
    <2>4. QED
      BY <1>4, <2>3 DEF swap, histVars, Service!svars
  <1>5. CASE run
    <2>1. CASE getQueue = <<>>
      BY <1>5, <2>1 DEF run, Service!svars
    <2>2. CASE getQueue # <<>>
      <3>1. pending # <<>> /\ Head(pending) = Head(getQueue) /\ Tail(pending) = Tail(getQueue) \o queue_
        BY <1>1, <2>2, ConcatHeadTail
      <3>2. /\ getQueue' = Tail(getQueue) /\ executed' = Append(executed, Head(getQueue))
            /\ queue_' = queue_ /\ removed' = removed
        BY <1>5, <2>2 DEF run
      <3>3. QED
        BY <3>1, <3>2 DEF Service!Next, Service!Start
    <2>3. QED
      BY <2>1, <2>2
  <1>6. CASE UNCHANGED <<queueVars, executed, removed>>
    BY <1>6 DEF queueVars, Service!svars
  <1>7. QED
    BY <1>2, <1>3, <1>4, <1>5, <1>6
       DEF Next, Calls, LoopStep, vars, onWrite, quitLoop, enroll, erase, ChannelEvent, loopStart,
           waitError, waitWakeup, waitScan, waitReturn, dispatch, handleReturn, dispatchDone,
           readQueFd, onQueue, runReturn, quitCheck, histVars

(* EventLoop's queue, with its lock, its swapped-out batch and its concurrent
   posters and removers, implements the abstract work service. *)
THEOREM Refinement == Spec => ImplementsWorkService
  <1>1. Init => Service!Init
    BY ConcatEmptySeq DEF Init, Service!Init
  <1>2. IInv /\ OnlyPosted /\ [Next]_vars => [Service!Next]_Service!svars
    BY StepRefines
  <1>3. QED
    BY <1>1, <1>2, Invariance, OnlyPostedHolds, PTL DEF Spec, ImplementsWorkService, Service!Spec

-----------------------------------------------------------------------------
(* Conservation and order *)

(* The line of all items executed or still to execute. *)
Line == executed \o (getQueue \o queue_)

(* Posting appends to both sequences. *)
LEMMA RestAppend ==
    ASSUME NEW S, NEW l \in Seq(S), NEW p \in Seq(S), NEW r \in SUBSET Elems(p),
           IsRest(l, p, r), NEW i \in S, i \notin Elems(p)
    PROVE  IsRest(Append(l, i), Append(p, i), r)
  <1> DEFINE m == Append(l, i)
             q == Append(p, i)
  <1>1. /\ Len(l) \in Nat /\ Len(m) = Len(l) + 1 /\ m[Len(l) + 1] = i
        /\ \A k \in 1 .. Len(l) : m[k] = l[k]
    BY AppendProperties, LenProperties
  <1>2. /\ Len(p) \in Nat /\ Len(q) = Len(p) + 1 /\ q[Len(p) + 1] = i
        /\ \A k \in 1 .. Len(p) : q[k] = p[k]
    BY AppendProperties, LenProperties
  <1>3. Elems(m) = Elems(l) \cup {i} /\ Elems(q) = Elems(p) \cup {i}
    BY ElemsAppend
  <1>4. /\ Elems(l) = Elems(p) \ r
        /\ \A a, b \in 1 .. Len(l) : l[a] = l[b] => a = b
        /\ \A a, b \in 1 .. Len(l) :
              a < b => \E c, d \in 1 .. Len(p) : c < d /\ p[c] = l[a] /\ p[d] = l[b]
    BY DEF IsRest
  <1> HIDE DEF m, q
  <1>5. Elems(m) = Elems(q) \ r
    BY <1>3, <1>4
  <1>6. \A a \in 1 .. Len(l) : l[a] # i /\ l[a] \in Elems(p)
    BY <1>4, ZenonT(30) DEF Elems
  <1>7. \A a \in 1 .. Len(m) : (a \in 1 .. Len(l) /\ m[a] = l[a]) \/ (a = Len(l) + 1 /\ m[a] = i)
    BY <1>1
  <1>8. \A a, b \in 1 .. Len(m) : m[a] = m[b] => a = b
    BY <1>4, <1>6, <1>7
  <1>9. ASSUME NEW a \in 1 .. Len(m), NEW b \in 1 .. Len(m), a < b
        PROVE  \E c, d \in 1 .. Len(q) : c < d /\ q[c] = m[a] /\ q[d] = m[b]
    <2>1. a \in 1 .. Len(l) /\ m[a] = l[a]
      BY <1>1, <1>9
    <2>2. CASE b \in 1 .. Len(l)
      <3>1. PICK c \in 1 .. Len(p), d \in 1 .. Len(p) : c < d /\ p[c] = l[a] /\ p[d] = l[b]
        BY <1>4, <1>9, <2>1, <2>2
      <3>2. c \in 1 .. Len(q) /\ d \in 1 .. Len(q) /\ q[c] = m[a] /\ q[d] = m[b]
        BY <1>1, <1>2, <2>1, <2>2, <3>1
      <3>3. QED
        BY <3>1, <3>2
    <2>3. CASE b = Len(l) + 1
      <3>1. PICK c \in 1 .. Len(p) : p[c] = l[a]
        BY <1>6, <2>1 DEF Elems
      <3>2. c \in 1 .. Len(q) /\ Len(p) + 1 \in 1 .. Len(q) /\ c < Len(p) + 1 /\ q[c] = m[a]
        BY <1>2, <2>1, <3>1
      <3>3. q[Len(p) + 1] = m[b]
        BY <1>1, <1>2, <2>3
      <3>4. QED
        BY <3>2, <3>3
    <2>4. QED
      BY <1>7, <2>2, <2>3
  <1>10. IsRest(m, q, r)
    BY <1>5, <1>8, <1>9 DEF IsRest
  <1>11. QED
    BY <1>10 DEF m, q

(* Where the entries are when the n-th is removed. *)
LEMMA RemoveAtFacts ==
    ASSUME NEW S, NEW s \in Seq(S), NEW n \in 1 .. Len(s)
    PROVE  LET m == SubSeq(s, 1, n - 1) \o SubSeq(s, n + 1, Len(s))
           IN  /\ Len(s) \in Nat /\ Len(m) = Len(s) - 1
               /\ \A k \in 1 .. Len(m) : m[k] = IF k < n THEN s[k] ELSE s[k + 1]
  <1> DEFINE a == SubSeq(s, 1, n - 1)
             b == SubSeq(s, n + 1, Len(s))
             m == a \o b
  <1>1. a \in Seq(S) /\ Len(a) = n - 1 /\ \A i \in 1 .. n - 1 : a[i] = s[i]
    OBVIOUS
  <1>2. b \in Seq(S) /\ Len(b) = Len(s) - n /\ \A i \in 1 .. Len(s) - n : b[i] = s[n + i]
    OBVIOUS
  <1> HIDE DEF a, b
  <1>3. Len(s) \in Nat
    BY LenProperties
  <1>4. /\ Len(m) = Len(a) + Len(b)
        /\ \A i \in 1 .. Len(a) + Len(b) : m[i] = IF i <= Len(a) THEN a[i] ELSE b[i - Len(a)]
    BY <1>1, <1>2, ConcatProperties
  <1> HIDE DEF m
  <1>5. Len(m) = Len(s) - 1
    BY <1>1, <1>2, <1>3, <1>4
  <1>6. ASSUME NEW k \in 1 .. Len(m)
        PROVE  m[k] = IF k < n THEN s[k] ELSE s[k + 1]
    <2>1. CASE k < n
      <3>1. k \in 1 .. n - 1 /\ k <= Len(a) /\ k \in 1 .. Len(a) + Len(b)
        BY <1>1, <1>3, <1>4, <2>1
      <3>2. QED
        BY <1>1, <1>4, <2>1, <3>1
    <2>2. CASE ~(k < n)
      <3>1. k - (n - 1) \in 1 .. Len(s) - n /\ ~(k <= Len(a)) /\ n + (k - (n - 1)) = k + 1
            /\ k \in 1 .. Len(a) + Len(b)
        BY <1>1, <1>3, <1>4, <1>5, <2>2
      <3>2. m[k] = b[k - (n - 1)]
        BY <1>1, <1>4, <3>1
      <3>3. b[k - (n - 1)] = s[k + 1]
        BY <1>2, <3>1
      <3>4. QED
        BY <2>2, <3>2, <3>3
    <2>3. QED
      BY <2>1, <2>2
  <1>7. QED
    BY <1>3, <1>5, <1>6 DEF m, a, b

(* m is l without its n-th entry. *)
Without(m, l, n) ==
    /\ Len(l) \in Nat /\ Len(m) = Len(l) - 1
    /\ \A k \in 1 .. Len(m) : m[k] = IF k < n THEN l[k] ELSE l[k + 1]

(* Removing an item takes it out of the rest. *)
LEMMA RestRemove ==
    ASSUME NEW l, NEW p, NEW r, IsRest(l, p, r), NEW n \in 1 .. Len(l), NEW m, Without(m, l, n)
    PROVE  IsRest(m, p, r \cup {l[n]})
  <1> DEFINE f(k) == IF k < n THEN k ELSE k + 1
  <1>1. /\ Len(l) \in Nat /\ Len(m) = Len(l) - 1
        /\ \A k \in 1 .. Len(m) : m[k] = IF k < n THEN l[k] ELSE l[k + 1]
    BY DEF Without
  <1>2. \A k \in 1 .. Len(m) : f(k) \in 1 .. Len(l) /\ f(k) # n /\ m[k] = l[f(k)]
    BY <1>1
  <1>3. \A a, b \in 1 .. Len(m) : (a < b => f(a) < f(b)) /\ (f(a) = f(b) => a = b)
    BY <1>1
  <1>4. ASSUME NEW c \in 1 .. Len(l), c # n
        PROVE  \E k \in 1 .. Len(m) : f(k) = c
    <2>1. CASE c < n
      BY <1>1, <2>1
    <2>2. CASE c > n
      <3>1. c - 1 \in 1 .. Len(m) /\ f(c - 1) = c
        BY <1>1, <2>2
      <3>2. QED
        BY <3>1
    <2>3. QED
      BY <1>1, <1>4, <2>1, <2>2
  <1> HIDE DEF f
  <1>5. /\ Elems(l) = Elems(p) \ r
        /\ \A a, b \in 1 .. Len(l) : l[a] = l[b] => a = b
        /\ \A a, b \in 1 .. Len(l) :
              a < b => \E c, d \in 1 .. Len(p) : c < d /\ p[c] = l[a] /\ p[d] = l[b]
    BY DEF IsRest
  <1>6. ASSUME NEW x \in Elems(m) PROVE x \in Elems(l) /\ x # l[n]
    <2>1. PICK k \in 1 .. Len(m) : x = m[k]
      BY DEF Elems
    <2>2. f(k) \in 1 .. Len(l) /\ f(k) # n /\ x = l[f(k)]
      BY <1>2, <2>1
    <2>3. l[f(k)] # l[n]
      BY <1>5, <2>2
    <2>4. QED
      BY <2>2, <2>3 DEF Elems
  <1>7. ASSUME NEW x \in Elems(l), x # l[n] PROVE x \in Elems(m)
    <2>1. PICK c \in 1 .. Len(l) : x = l[c]
      BY DEF Elems
    <2>2. PICK k \in 1 .. Len(m) : f(k) = c
      BY <1>4, <1>7, <2>1
    <2>3. QED
      BY <1>2, <2>1, <2>2 DEF Elems
  <1>8. Elems(m) = Elems(p) \ (r \cup {l[n]})
    BY <1>5, <1>6, <1>7
  <1>9. ASSUME NEW a \in 1 .. Len(m), NEW b \in 1 .. Len(m), m[a] = m[b]
        PROVE  a = b
    <2>1. f(a) \in 1 .. Len(l) /\ f(b) \in 1 .. Len(l) /\ l[f(a)] = l[f(b)]
      BY <1>2, <1>9
    <2>2. f(a) = f(b)
      BY <1>5, <2>1
    <2>3. QED
      BY <1>3, <2>2
  <1>10. ASSUME NEW a \in 1 .. Len(m), NEW b \in 1 .. Len(m), a < b
         PROVE  \E c, d \in 1 .. Len(p) : c < d /\ p[c] = m[a] /\ p[d] = m[b]
    <2>1. f(a) \in 1 .. Len(l) /\ f(b) \in 1 .. Len(l) /\ f(a) < f(b) /\ m[a] = l[f(a)] /\ m[b] = l[f(b)]
      BY <1>2, <1>3, <1>10
    <2>2. QED
      BY <1>5, <2>1
  <1>11. QED
    BY <1>8, <1>9, <1>10 DEF IsRest

(* The head of the second part may as well end the first. *)
LEMMA ConcatShift ==
    ASSUME NEW S, NEW e \in Seq(S), NEW p \in Seq(S), p # <<>>
    PROVE  Append(e, Head(p)) \o Tail(p) = e \o p
  <1> DEFINE h == Head(p)
             t == Tail(p)
  <1>1. h \in S /\ t \in Seq(S) /\ p = <<h>> \o t
    BY HeadTailProperties
  <1>2. <<h>> \in Seq(S)
    BY <1>1
  <1>3. Append(e, h) = e \o <<h>>
    BY <1>1, AppendIsConcat
  <1> HIDE DEF h, t
  <1>4. (e \o <<h>>) \o t = e \o (<<h>> \o t)
    BY <1>1, <1>2, ConcatRegroup, SMTT(60)
  <1>5. QED
    BY <1>1, <1>3, <1>4 DEF h, t

(* Every step keeps conservation and order. *)
LEMMA FifoStep ==
    ASSUME IInv, OnlyPosted, FifoNoLoss, [Next]_vars
    PROVE  FifoNoLoss'
  <1> DEFINE pending == getQueue \o queue_
  <1>1. /\ queue_ \in Seq(Items) /\ getQueue \in Seq(Items) /\ executed \in Seq(Items)
        /\ posted \in Seq(Items)
    BY DEF IInv, TypeOK
  <1>2. pending \in Seq(Items)
    BY <1>1, ConcatProperties
  <1>3. Line \in Seq(Items)
    BY <1>1, <1>2, ConcatProperties DEF Line
  <1>4. IsRest(Line, posted, removed)
    BY DEF FifoNoLoss, Line
  <1>5. SUFFICES IsRest(Line', posted', removed')
    BY DEF FifoNoLoss, Line
  <1>6. CASE \E t \in AllThreads, i \in Items : enqueue(t, i)
    <2>1. PICK t \in AllThreads, i \in Items : enqueue(t, i)
      BY <1>6
    <2>2. pending' = Append(pending, i)
      BY <1>1, <2>1, ConcatAppend DEF enqueue
    <2>3. executed' = executed /\ removed' = removed /\ posted' = Append(posted, i) /\ i \notin Elems(posted)
      BY <2>1 DEF enqueue
    <2>4. executed \o Append(pending, i) = Append(executed \o pending, i)
      <3> HIDE DEF pending
      <3>1. QED
        BY <1>1, <1>2, ConcatAppend
    <2>5. Line' = Append(Line, i)
      BY <2>2, <2>3, <2>4 DEF Line
    <2>6. removed \in SUBSET Elems(posted)
      BY DEF OnlyPosted
    <2>7. IsRest(Append(Line, i), Append(posted, i), removed)
      BY <1>1, <1>3, <1>4, <2>3, <2>6, RestAppend
    <2>8. QED
      BY <2>3, <2>5, <2>7
  <1>7. CASE \E t \in AllThreads, i \in Items : removeWork(t, i)
    <2>1. PICK t \in AllThreads, i \in Items : removeWork(t, i)
      BY <1>7
    <2>2. PICK k \in 1 .. Len(queue_) :
             /\ queue_[k] = i
             /\ queue_' = SubSeq(queue_, 1, k - 1) \o SubSeq(queue_, k + 1, Len(queue_))
      BY <2>1 DEF removeWork
    <2>3. /\ getQueue' = getQueue /\ executed' = executed /\ removed' = removed \cup {i}
          /\ posted' = posted
      BY <2>1 DEF removeWork
    <2> DEFINE n == Len(getQueue) + k
               N == Len(executed) + n
    <2>4. /\ n \in 1 .. Len(pending) /\ pending[n] = i
          /\ pending' = SubSeq(pending, 1, n - 1) \o SubSeq(pending, n + 1, Len(pending))
      BY <1>1, <2>2, <2>3, ConcatRemove, ZenonT(30)
    <2>5. /\ N \in 1 .. Len(Line) /\ Line[N] = i
          /\ Line' = SubSeq(Line, 1, N - 1) \o SubSeq(Line, N + 1, Len(Line))
      <3>1. Line' = executed \o (SubSeq(pending, 1, n - 1) \o SubSeq(pending, n + 1, Len(pending)))
        BY <2>3, <2>4 DEF Line
      <3>2. Line = executed \o pending
        BY DEF Line
      <3> HIDE DEF pending, n
      <3>3. QED
        BY <1>1, <1>2, <2>4, <3>1, <3>2, ConcatRemove, ZenonT(30)
    <2> HIDE DEF N
    <2>6. Without(Line', Line, N)
      BY <1>3, <2>5, RemoveAtFacts DEF Without
    <2>7. IsRest(Line', posted, removed \cup {Line[N]})
      BY <1>4, <2>5, <2>6, RestRemove
    <2>8. QED
      BY <2>3, <2>5, <2>7
  <1>8. CASE swap
    <2>1. getQueue = <<>>
      BY <1>8 DEF swap, IInv, BatchInDoit
    <2>2. getQueue \o queue_ = queue_ /\ queue_ \o <<>> = queue_
      BY <1>1, <2>1, ConcatEmptySeq
    <2>3. Line' = Line /\ posted' = posted /\ removed' = removed
      BY <1>8, <2>2 DEF swap, Line, histVars
    <2>4. QED
      BY <1>4, <2>3
  <1>9. CASE run
    <2>1. CASE getQueue = <<>>
      BY <1>4, <1>9, <2>1 DEF run, Line
    <2>2. CASE getQueue # <<>>
      <3>1. pending # <<>> /\ Head(pending) = Head(getQueue) /\ Tail(pending) = Tail(getQueue) \o queue_
        BY <1>1, <2>2, ConcatHeadTail
      <3>2. /\ getQueue' = Tail(getQueue) /\ executed' = Append(executed, Head(getQueue))
            /\ queue_' = queue_ /\ removed' = removed /\ posted' = posted
        BY <1>9, <2>2 DEF run
      <3>3. Append(executed, Head(pending)) \o Tail(pending) = executed \o pending
        <4> HIDE DEF pending
        <4>1. QED
          BY <1>1, <1>2, <3>1, ConcatShift
      <3>4. Line' = Line
        BY <3>1, <3>2, <3>3 DEF Line
      <3>5. QED
        BY <1>4, <3>2, <3>4
    <2>3. QED
      BY <2>1, <2>2
  <1>10. CASE UNCHANGED <<queueVars, posted, executed, removed>>
    BY <1>4, <1>10 DEF queueVars, Line
  <1>11. QED
    BY <1>6, <1>7, <1>8, <1>9, <1>10
       DEF Next, Calls, LoopStep, vars, onWrite, quitLoop, enroll, erase, ChannelEvent, loopStart,
           waitError, waitWakeup, waitScan, waitReturn, dispatch, handleReturn, dispatchDone,
           readQueFd, onQueue, runReturn, quitCheck, histVars

(* Work is executed once, in the order of addWork, unless removeWork deleted
   it, whatever threads post and remove while doit runs its batch. *)
THEOREM FifoNoLossHolds == Spec => []FifoNoLoss
  <1>1. Init => FifoNoLoss
    <2> SUFFICES ASSUME Init PROVE FifoNoLoss
      OBVIOUS
    <2>1. executed \o (getQueue \o queue_) = <<>> /\ posted = <<>> /\ removed = {}
      BY ConcatEmptySeq DEF Init
    <2>2. Elems(<<>>) = {} /\ Len(<<>>) = 0
      BY DEF Elems
    <2>3. IsRest(<<>>, <<>>, {})
      BY <2>2 DEF IsRest
    <2>4. QED
      BY <2>1, <2>3 DEF FifoNoLoss
  <1>2. IInv /\ OnlyPosted /\ FifoNoLoss /\ [Next]_vars => FifoNoLoss'
    BY FifoStep
  <1>3. QED
    BY <1>1, <1>2, Invariance, OnlyPostedHolds, PTL DEF Spec

-----------------------------------------------------------------------------
(* Events and the channels they are for *)

(* The entries of a sequence differ. *)
Differ(s) == \A a, b \in 1 .. Len(s) : s[a] = s[b] => a = b

(* What keeps the batch of events sound: a descriptor is listed once and
   reported once per call of epoll_wait, only enrolled channels are ready, and
   there is no batch outside epoll_wait and the for loop over it. *)
BatchInv ==
    /\ chReady \subseteq enrolled
    /\ Differ(readyList) /\ Differ(channels)
    /\ pc = "scan" => \A k \in 1 .. scan : readyList[k] \notin Elems(channels)
    /\ pc \notin {"scan", "dispatch", "handle", "undefined"} => channels = <<>>
    /\ pc = "handle" => Head(channels) \in Channels

DispatchInv == BatchInv /\ DispatchEnrolled

(* t is s with e appended. *)
Extended(t, s, e) ==
    /\ Len(s) \in Nat /\ Len(t) = Len(s) + 1 /\ t[Len(s) + 1] = e
    /\ \A k \in 1 .. Len(s) : t[k] = s[k]

(* t is s without its head. *)
Shortened(t, s) ==
    /\ Len(s) \in Nat \ {0} /\ Len(t) = Len(s) - 1 /\ Head(s) = s[1]
    /\ \A k \in 1 .. Len(t) : t[k] = s[k + 1]

(* Append puts its element behind the others. *)
LEMMA AppendExtends ==
    ASSUME NEW S, NEW s \in Seq(S), NEW e \in S
    PROVE  Extended(Append(s, e), s, e)
  BY AppendProperties, LenProperties DEF Extended

(* Tail drops the first element. *)
LEMMA TailShortens ==
    ASSUME NEW S, NEW s \in Seq(S), s # <<>>
    PROVE  Shortened(Tail(s), s)
  <1>1. Len(s) \in Nat \ {0} /\ Len(Tail(s)) = Len(s) - 1 /\ Head(s) = s[1]
    BY HeadTailProperties, EmptySeq
  <1>2. \A k \in 1 .. Len(Tail(s)) : Tail(s)[k] = s[k + 1]
    BY HeadTailProperties
  <1>3. QED
    BY <1>1, <1>2 DEF Shortened

(* Elements of an extended sequence. *)
LEMMA ExtendedFacts ==
    ASSUME NEW s, NEW t, NEW e, Extended(t, s, e)
    PROVE  /\ Elems(t) = Elems(s) \cup {e}
           /\ Differ(s) /\ e \notin Elems(s) => Differ(t)
  <1>1. /\ Len(s) \in Nat /\ Len(t) = Len(s) + 1 /\ t[Len(s) + 1] = e
        /\ \A k \in 1 .. Len(s) : t[k] = s[k]
    BY DEF Extended
  <1>2. \A k \in 1 .. Len(t) : (k \in 1 .. Len(s) /\ t[k] = s[k]) \/ (k = Len(s) + 1 /\ t[k] = e)
    BY <1>1
  <1>3. \A k \in 1 .. Len(s) : k \in 1 .. Len(t) /\ t[k] = s[k]
    BY <1>1
  <1>4. Len(s) + 1 \in 1 .. Len(t)
    BY <1>1
  <1>5. ASSUME NEW x \in Elems(t) PROVE x \in Elems(s) \cup {e}
    <2>1. PICK k \in 1 .. Len(t) : x = t[k]
      BY DEF Elems
    <2>2. QED
      BY <1>2, <2>1 DEF Elems
  <1>6. ASSUME NEW x \in Elems(s) PROVE x \in Elems(t)
    <2>1. PICK k \in 1 .. Len(s) : x = s[k]
      BY DEF Elems
    <2>2. QED
      BY <1>3, <2>1 DEF Elems
  <1>7. e \in Elems(t)
    BY <1>1, <1>4 DEF Elems
  <1>8. ASSUME Differ(s), e \notin Elems(s) PROVE Differ(t)
    <2>1. \A k \in 1 .. Len(s) : s[k] # e
      BY <1>8 DEF Elems
    <2>2. QED
      BY <1>2, <1>8, <2>1 DEF Differ
  <1>9. QED
    BY <1>5, <1>6, <1>7, <1>8

(* Elements of a shortened sequence. *)
LEMMA ShortenedFacts ==
    ASSUME NEW s, NEW t, Shortened(t, s)
    PROVE  /\ Elems(s) = Elems(t) \cup {Head(s)}
           /\ Differ(s) => Differ(t) /\ Head(s) \notin Elems(t)
  <1>1. /\ Len(s) \in Nat \ {0} /\ Len(t) = Len(s) - 1 /\ Head(s) = s[1]
        /\ \A k \in 1 .. Len(t) : t[k] = s[k + 1]
    BY DEF Shortened
  <1>2. \A k \in 1 .. Len(t) : k + 1 \in 1 .. Len(s) /\ k + 1 # 1 /\ t[k] = s[k + 1]
    BY <1>1
  <1>3. ASSUME NEW x \in Elems(t) PROVE x \in Elems(s)
    <2>1. PICK k \in 1 .. Len(t) : x = t[k]
      BY DEF Elems
    <2>2. QED
      BY <1>2, <2>1 DEF Elems
  <1>4. ASSUME NEW x \in Elems(s) PROVE x \in Elems(t) \cup {Head(s)}
    <2>1. PICK k \in 1 .. Len(s) : x = s[k]
      BY DEF Elems
    <2>2. CASE k = 1
      BY <1>1, <2>1, <2>2
    <2>3. CASE k # 1
      <3>1. k - 1 \in 1 .. Len(t) /\ t[k - 1] = x
        BY <1>1, <2>1, <2>3
      <3>2. QED
        BY <3>1 DEF Elems
    <2>4. QED
      BY <2>2, <2>3
  <1>5. Head(s) \in Elems(s)
    BY <1>1 DEF Elems
  <1>6. ASSUME Differ(s) PROVE Differ(t) /\ Head(s) \notin Elems(t)
    <2>1. ASSUME NEW a \in 1 .. Len(t), NEW b \in 1 .. Len(t), t[a] = t[b] PROVE a = b
      <3>1. a + 1 = b + 1
        BY <1>2, <1>6, <2>1 DEF Differ
      <3>2. QED
        BY <3>1
    <2>2. ASSUME NEW k \in 1 .. Len(t), t[k] = Head(s) PROVE FALSE
      <3>1. 1 \in 1 .. Len(s) /\ s[k + 1] = s[1]
        BY <1>1, <1>2, <2>2
      <3>2. k + 1 = 1
        BY <1>2, <1>6, <3>1 DEF Differ
      <3>3. QED
        BY <3>2
    <2>3. QED
      BY <2>1, <2>2 DEF Differ, Elems
  <1>7. QED
    BY <1>3, <1>4, <1>5, <1>6

(* Listing a descriptor leaves the entries where they are, and lists it once. *)
LEMMA ListedOnceMore ==
    ASSUME TypeOK, NEW fd \in Fds, Differ(readyList)
    PROVE  /\ Differ(Listed(fd))
           /\ Len(readyList) \in Nat /\ Len(readyList) <= Len(Listed(fd))
           /\ \A k \in 1 .. Len(readyList) : Listed(fd)[k] = readyList[k]
  <1>1. readyList \in Seq(Fds) /\ Len(readyList) \in Nat
    BY LenProperties DEF TypeOK
  <1>2. CASE fd \in Elems(readyList)
    BY <1>1, <1>2 DEF Listed
  <1>3. CASE fd \notin Elems(readyList)
    <2> DEFINE l == Listed(fd)
    <2>1. l = Append(readyList, fd)
      BY <1>3 DEF Listed
    <2>2. Extended(l, readyList, fd)
      BY <1>1, <2>1, AppendExtends
    <2> HIDE DEF l
    <2>3. Differ(l)
      BY <1>3, <2>2, ExtendedFacts
    <2>4. /\ Len(l) = Len(readyList) + 1
          /\ \A k \in 1 .. Len(readyList) : l[k] = readyList[k]
      BY <2>2 DEF Extended
    <2>5. QED
      BY <1>1, <2>3, <2>4 DEF l
  <1>4. QED
    BY <1>2, <1>3

(* Calls of addWork, quit and enroll, and input, leave the batch alone. *)
LEMMA DispatchListed ==
    ASSUME IInv, DispatchInv, NEW fd \in Fds, readyList' = Listed(fd),
           channels' = channels, pc' = pc, scan' = scan, enrolled' = enrolled, chReady' \subseteq enrolled,
           cut' = cut
    PROVE  DispatchInv'
  <1>1. /\ Differ(readyList')
        /\ Len(readyList) \in Nat
        /\ \A k \in 1 .. Len(readyList) : readyList'[k] = readyList[k]
    BY ListedOnceMore DEF IInv, DispatchInv, BatchInv
  <1>2. pc = "scan" => \A k \in 1 .. scan : readyList'[k] \notin Elems(channels)
    <2>1. scan \in Nat /\ scan <= Len(readyList)
      BY DEF IInv, TypeOK, Wellformed
    <2>2. \A k \in 1 .. scan : k \in 1 .. Len(readyList)
      BY <1>1, <2>1
    <2>3. QED
      BY <1>1, <2>2 DEF DispatchInv, BatchInv
  <1>3. Elems(channels') = Elems(channels) /\ Differ(channels')
    BY DEF Elems, DispatchInv, BatchInv
  <1>4. BatchInv'
    BY <1>1, <1>2, <1>3 DEF DispatchInv, BatchInv
  <1>5. DispatchEnrolled'
    BY DEF DispatchInv, DispatchEnrolled, Elems
  <1>6. QED
    BY <1>4, <1>5 DEF DispatchInv

(* Steps without any effect on the batch and the kernel's list. *)
LEMMA DispatchQuiet ==
    ASSUME DispatchInv, readyList' = readyList, channels' = channels, scan' = scan,
           enrolled \subseteq enrolled', chReady' \subseteq enrolled', cut' = cut,
           \/ pc' = pc
           \/ /\ pc \notin {"scan", "dispatch", "handle", "undefined"}
              /\ pc' \notin {"scan", "dispatch", "handle", "undefined"}
    PROVE  DispatchInv'
  <1>1. Elems(channels') = Elems(channels) /\ Differ(channels') /\ Differ(readyList')
    BY DEF Elems, DispatchInv, BatchInv
  <1>2. BatchInv'
    BY <1>1 DEF DispatchInv, BatchInv
  <1>3. DispatchEnrolled'
    <2>1. CASE pc' = pc
      BY <2>1 DEF DispatchInv, DispatchEnrolled, Elems
    <2>2. CASE /\ pc \notin {"scan", "dispatch", "handle", "undefined"}
               /\ pc' \notin {"scan", "dispatch", "handle", "undefined"}
      BY <1>1, <2>2 DEF DispatchInv, DispatchEnrolled
    <2>3. QED
      BY <2>1, <2>2
  <1>4. QED
    BY <1>2, <1>3 DEF DispatchInv

(* A channel is erased from its own callback, or while there is no batch, or
   it is recorded as cut. *)
LEMMA DispatchErase ==
    ASSUME IInv, DispatchInv, NEW t \in AllThreads, NEW ch \in Channels, erase(t, ch)
    PROVE  DispatchInv'
  <1>1. /\ readyList' = readyList /\ channels' = channels /\ pc' = pc /\ scan' = scan
        /\ enrolled' = enrolled \ {ch} /\ chReady' = chReady \ {ch}
        /\ pc # "undefined" /\ cut \subseteq cut'
        /\ \/ ch \in cut'
           \/ pc = "handle" /\ ch = Head(channels)
           \/ pc \notin {"scan", "dispatch", "handle"}
    BY DEF erase, CanCall, loopVars
  <1>2. Elems(channels') = Elems(channels) /\ Differ(channels') /\ Differ(readyList')
    BY <1>1 DEF Elems, DispatchInv, BatchInv
  <1>3. BatchInv'
    BY <1>1, <1>2 DEF DispatchInv, BatchInv
  <1>4. CASE ch \in cut'
    <2>1. Elems(Tail(channels')) = Elems(Tail(channels))
      BY <1>1 DEF Elems
    <2>2. DispatchEnrolled'
      BY <1>1, <1>2, <1>4, <2>1 DEF DispatchInv, DispatchEnrolled
    <2>3. QED
      BY <1>3, <2>2 DEF DispatchInv
  <1>5. CASE pc = "handle" /\ ch = Head(channels)
    <2>1. channels \in Seq(Fds) /\ channels # <<>>
      BY <1>5 DEF IInv, TypeOK, Wellformed
    <2>2. Shortened(Tail(channels), channels)
      BY <2>1, TailShortens
    <2>3. ch \notin Elems(Tail(channels))
      BY <1>1, <1>5, <2>2, ShortenedFacts DEF DispatchInv, BatchInv
    <2>4. QED
      BY <1>1, <1>3, <1>5, <2>3 DEF DispatchInv, DispatchEnrolled
  <1>6. CASE pc \notin {"scan", "dispatch", "handle"}
    <2>1. channels = <<>> /\ Elems(channels) = {}
      BY <1>1, <1>6 DEF DispatchInv, BatchInv, Elems
    <2>2. QED
      BY <1>1, <1>3, <1>6, <2>1 DEF DispatchInv, DispatchEnrolled
  <1>7. QED
    BY <1>1, <1>4, <1>5, <1>6

(* epoll_wait reports what is ready, and each descriptor once. *)
LEMMA DispatchScan ==
    ASSUME IInv, DispatchInv, waitScan
    PROVE  DispatchInv'
  <1> DEFINE h == Head(readyList)
             t == Tail(readyList)
  <1>1. readyList \in Seq(Fds) /\ readyList # <<>> /\ channels \in Seq(Fds) /\ scan \in Nat \ {0}
        /\ scan <= Len(readyList)
    BY DEF IInv, TypeOK, Wellformed, waitScan
  <1>2. t \in Seq(Fds) /\ h \in Fds /\ Shortened(t, readyList)
    BY <1>1, HeadTailProperties, TailShortens
  <1>3. \/ channels' = Append(channels, h) /\ readyList' = Append(t, h) /\ IsReady(h)
        \/ channels' = channels /\ readyList' = t
    BY DEF waitScan
  <1>4. /\ pc = "scan" /\ pc' = "scan" /\ scan' = scan - 1
        /\ chReady' = chReady /\ enrolled' = enrolled /\ cut' = cut
    BY DEF waitScan, histVars
  <1> HIDE DEF h, t
  <1>5. Differ(t) /\ h \notin Elems(t) /\ h = readyList[1]
    BY <1>2, ShortenedFacts DEF DispatchInv, BatchInv, h, Shortened
  <1>6. Extended(Append(t, h), t, h) /\ Extended(Append(channels, h), channels, h)
    BY <1>1, <1>2, AppendExtends
  <1>7. Differ(readyList')
    BY <1>3, <1>5, <1>6, ExtendedFacts
  <1>8. h \notin Elems(channels)
    BY <1>1, <1>4, <1>5 DEF DispatchInv, BatchInv
  <1>9. Differ(channels') /\ Elems(channels') \subseteq Elems(channels) \cup {h}
    <2>1. Differ(channels)
      BY DEF DispatchInv, BatchInv
    <2>2. Elems(Append(channels, h)) = Elems(channels) \cup {h} /\ Differ(Append(channels, h))
      BY <1>6, <1>8, <2>1, ExtendedFacts
    <2>3. QED
      BY <1>3, <2>1, <2>2
  <1>10. ASSUME NEW k \in 1 .. scan' PROVE readyList'[k] \notin Elems(channels')
    <2>1. k \in 1 .. Len(t) /\ k + 1 \in 1 .. scan /\ t[k] = readyList[k + 1]
      BY <1>1, <1>2, <1>4 DEF Shortened
    <2>2. readyList'[k] = t[k]
      BY <1>3, <1>6, <2>1 DEF Extended
    <2>3. t[k] # h
      BY <1>5, <2>1 DEF Elems
    <2>4. readyList[k + 1] \notin Elems(channels)
      BY <1>4, <2>1 DEF DispatchInv, BatchInv
    <2>5. QED
      BY <1>9, <2>1, <2>2, <2>3, <2>4
  <1>11. BatchInv'
    BY <1>4, <1>7, <1>9, <1>10 DEF DispatchInv, BatchInv
  <1>12. Elems(channels) \subseteq enrolled \cup {pQueCh_, pIntrCh_} \cup cut
    BY <1>4 DEF DispatchInv, DispatchEnrolled
  <1>13. Elems(channels') \subseteq enrolled \cup {pQueCh_, pIntrCh_} \cup cut
    <2>1. CASE channels' = channels
      BY <1>12, <2>1
    <2>2. CASE IsReady(h)
      <3>1. h \in enrolled \cup {pQueCh_, pIntrCh_}
        BY <2>2 DEF IsReady, DispatchInv, BatchInv
      <3>2. QED
        BY <1>9, <1>12, <3>1
    <2>3. QED
      BY <1>3, <2>1, <2>2
  <1>14. DispatchEnrolled'
    BY <1>4, <1>13 DEF DispatchEnrolled
  <1>15. QED
    BY <1>11, <1>14 DEF DispatchInv

(* The for loop over channels[] goes from its head to its end. *)
LEMMA DispatchTurn ==
    ASSUME IInv, DispatchInv, dispatch \/ handleReturn
    PROVE  DispatchInv'
  <1>1. /\ channels \in Seq(Fds) /\ channels # <<>>
        /\ pc \in {"dispatch", "handle"} /\ pc' \in {"dispatch", "handle", "undefined"}
        /\ readyList' = readyList /\ enrolled' = enrolled /\ chReady' \subseteq chReady /\ cut' = cut
    BY DEF IInv, TypeOK, Wellformed, dispatch, handleReturn, kernelVars, histVars
  <1>2. \/ channels' = Tail(channels) /\ pc' = "dispatch"
        \/ channels' = channels /\ pc = "dispatch" /\ pc' = "handle" /\ Head(channels) \in Channels
        \/ /\ channels' = channels /\ pc = "dispatch" /\ pc' = "undefined"
           /\ Head(channels) \in Channels /\ Head(channels) \notin enrolled
    BY <1>1 DEF dispatch, handleReturn
  <1>3. Shortened(Tail(channels), channels)
    BY <1>1, TailShortens
  <1>4. Elems(channels) = Elems(Tail(channels)) \cup {Head(channels)} /\ Differ(Tail(channels))
    BY <1>3, ShortenedFacts DEF DispatchInv, BatchInv
  <1>5. Differ(channels')
    BY <1>2, <1>4 DEF DispatchInv, BatchInv
  <1>6. BatchInv'
    BY <1>1, <1>2, <1>5 DEF DispatchInv, BatchInv
  <1>7. /\ Elems(Tail(channels)) \subseteq enrolled \cup {pQueCh_, pIntrCh_} \cup cut
        /\ pc = "dispatch" => Elems(channels) \subseteq enrolled \cup {pQueCh_, pIntrCh_} \cup cut
    BY <1>1, <1>4 DEF DispatchInv, DispatchEnrolled
  <1>8. pc' = "undefined" => cut # {}
    BY <1>1, <1>2, <1>4, <1>7, NamesAssumption
  <1>9. DispatchEnrolled'
    BY <1>1, <1>2, <1>7, <1>8 DEF DispatchEnrolled
  <1>10. QED
    BY <1>6, <1>9 DEF DispatchInv

(* Every step keeps the batch sound. *)
LEMMA DispatchStep ==
    ASSUME IInv, DispatchInv, [Next]_vars
    PROVE  DispatchInv'
  <1> USE DEF kernelVars, loopVars, histVars
  <1>0. chReady \subseteq enrolled
    BY DEF DispatchInv, BatchInv
  <1>1. ASSUME NEW t \in AllThreads, onWrite(t) \/ quitLoop(t)
        PROVE  DispatchInv'
    BY <1>0, <1>1, DispatchListed DEF onWrite, quitLoop, Fds
  <1>2. ASSUME NEW ch \in Channels, ChannelEvent(ch)
        PROVE  DispatchInv'
    BY <1>0, <1>2, DispatchListed DEF ChannelEvent, Fds
  <1>3. ASSUME NEW t \in AllThreads, NEW ch \in Channels, erase(t, ch)
        PROVE  DispatchInv'
    BY <1>3, DispatchErase
  <1>4. ASSUME NEW t \in AllThreads,
               (\E i \in Items : enqueue(t, i) \/ removeWork(t, i)) \/ (\E ch \in Channels : enroll(t, ch))
        PROVE  DispatchInv'
    BY <1>0, <1>4, DispatchQuiet DEF enqueue, removeWork, enroll
  <1>5. CASE \/ loopStart \/ waitError \/ readQueFd \/ onQueue \/ swap \/ run \/ runReturn \/ quitCheck
             \/ UNCHANGED vars
    BY <1>0, <1>5, DispatchQuiet
       DEF loopStart, waitError, readQueFd, onQueue, swap, run, runReturn, quitCheck, vars
  <1>6. CASE waitWakeup
    <2>1. channels = <<>> /\ Elems(channels) = {} /\ channels' = channels /\ pc' = "scan"
      BY <1>6 DEF waitWakeup, DispatchInv, BatchInv, Elems
    <2>2. readyList' = readyList /\ chReady' = chReady /\ enrolled' = enrolled
      BY <1>6 DEF waitWakeup
    <2>3. QED
      BY <2>1, <2>2 DEF DispatchInv, BatchInv, DispatchEnrolled
  <1>7. CASE waitScan
    BY <1>7, DispatchScan
  <1>8. CASE waitReturn
    BY <1>8 DEF waitReturn, DispatchInv, BatchInv, DispatchEnrolled
  <1>9. CASE dispatch \/ handleReturn
    BY <1>9, DispatchTurn
  <1>10. CASE dispatchDone
    BY <1>10 DEF dispatchDone, DispatchInv, BatchInv, DispatchEnrolled
  <1>11. QED
    BY <1>1, <1>2, <1>3, <1>4, <1>5, <1>6, <1>7, <1>8, <1>9, <1>10 DEF Next, Calls, LoopStep

(* The batch is sound in every reachable state. *)
THEOREM DispatchInvariance == Spec => []DispatchInv
  <1>1. Init => DispatchInv
    BY DEF Init, DispatchInv, BatchInv, DispatchEnrolled, Differ, Elems
  <1>2. IInv /\ DispatchInv /\ [Next]_vars => DispatchInv'
    BY DispatchStep
  <1>3. QED
    BY <1>1, <1>2, Invariance, PTL DEF Spec

(* loop() dispatches an event to a channel that has been erased only after
   another thread or another channel's callback erased it during the scan or
   the for loop, for any number of channels and threads and any MAX_EVENTS. *)
THEOREM DispatchEnrolledHolds == Spec => []DispatchEnrolled
  <1>1. DispatchInv => DispatchEnrolled
    BY DEF DispatchInv
  <1>2. QED
    BY <1>1, DispatchInvariance, PTL

-----------------------------------------------------------------------------
(* Flags and tokens *)

(* A flag of the iteration, and an event that will set it, stands for a token
   in its eventfd: only the loop takes tokens, after the for loop. *)
TokenInv ==
    /\ pc = "read" \/ (haswork /\ pc \in {"dispatch", "handle"}) => queFd > 0
    /\ pQueCh_ \in Elems(channels) => queFd > 0
    /\ quit /\ pc \in {"dispatch", "handle", "read", "quit"} \cup Draining => intrFd > 0
    /\ pIntrCh_ \in Elems(channels) => intrFd > 0

(* epoll_wait reports the two eventfds only when it finds them readable. *)
LEMMA TokenScan ==
    ASSUME IInv, DispatchInv, TokenInv, waitScan
    PROVE  TokenInv'
  <1> DEFINE h == Head(readyList)
  <1>1. readyList \in Seq(Fds) /\ readyList # <<>> /\ channels \in Seq(Fds)
    BY DEF IInv, TypeOK, Wellformed, waitScan
  <1>2. h \in Fds
    BY <1>1, HeadTailProperties
  <1>3. /\ pc = "scan" /\ pc' = "scan" /\ queFd' = queFd /\ intrFd' = intrFd
        /\ channels' = channels \/ (channels' = Append(channels, h) /\ IsReady(h))
    BY DEF waitScan
  <1>4. IsReady(h) => (h = pQueCh_ => queFd > 0) /\ (h = pIntrCh_ => intrFd > 0)
    BY NamesAssumption DEF IsReady, DispatchInv, BatchInv, IInv, TypeOK
  <1> HIDE DEF h
  <1>5. Elems(Append(channels, h)) = Elems(channels) \cup {h}
    BY <1>1, <1>2, ElemsAppend
  <1>6. \/ Elems(channels') = Elems(channels)
        \/ Elems(channels') = Elems(channels) \cup {h} /\ IsReady(h)
    BY <1>3, <1>5 DEF Elems
  <1>7. QED
    BY <1>3, <1>4, <1>6 DEF TokenInv, Draining

(* The for loop turns events into flags. *)
LEMMA TokenTurn ==
    ASSUME IInv, DispatchInv, TokenInv, dispatch \/ handleReturn
    PROVE  TokenInv'
  <1>1. /\ channels \in Seq(Fds) /\ channels # <<>>
        /\ pc \in {"dispatch", "handle"} /\ queFd' = queFd /\ intrFd' = intrFd
        /\ pc' # "read"
        /\ channels' = channels \/ channels' = Tail(channels)
        /\ haswork' = haswork \/ Head(channels) = pQueCh_
        /\ quit' = quit \/ Head(channels) = pIntrCh_
    BY DEF IInv, TypeOK, Wellformed, dispatch, handleReturn, kernelVars
  <1>2. Elems(channels) = Elems(Tail(channels)) \cup {Head(channels)}
    BY <1>1, TailShortens, ShortenedFacts
  <1>3. Elems(channels') \subseteq Elems(channels)
    BY <1>1, <1>2 DEF Elems
  <1>4. haswork' => queFd > 0
    BY <1>1, <1>2 DEF TokenInv
  <1>5. quit' => intrFd > 0
    BY <1>1, <1>2 DEF TokenInv
  <1>6. QED
    BY <1>1, <1>3, <1>4, <1>5 DEF TokenInv

(* Every step keeps the tokens that the flags stand for. *)
LEMMA TokenStep ==
    ASSUME IInv, DispatchInv, TokenInv, [Next]_vars
    PROVE  TokenInv'
  <1> USE DEF queueVars, kernelVars, loopVars, histVars
  <1>0. queFd \in Nat /\ intrFd \in Nat
    BY DEF IInv, TypeOK
  <1>1. ASSUME channels' = channels, haswork' = haswork, quit' = quit, pc' = pc,
               queFd' >= queFd, intrFd' >= intrFd, queFd' \in Nat, intrFd' \in Nat
        PROVE  TokenInv'
    <2>1. Elems(channels') = Elems(channels)
      BY <1>1 DEF Elems
    <2>2. QED
      BY <1>0, <1>1, <2>1 DEF TokenInv
  <1>2. ASSUME NEW t \in AllThreads,
               \/ onWrite(t) \/ quitLoop(t) \/ (\E i \in Items : enqueue(t, i) \/ removeWork(t, i))
               \/ \E ch \in Channels : enroll(t, ch) \/ erase(t, ch)
        PROVE  TokenInv'
    <2>1. channels' = channels /\ haswork' = haswork /\ quit' = quit /\ pc' = pc
      BY <1>2 DEF onWrite, quitLoop, enqueue, removeWork, enroll, erase
    <2>2. (queFd' = queFd \/ queFd' = queFd + 1) /\ (intrFd' = intrFd \/ intrFd' = intrFd + 1)
      BY <1>2 DEF onWrite, quitLoop, enqueue, removeWork, enroll, erase
    <2>3. QED
      BY <1>0, <1>1, <2>1, <2>2
  <1>3. CASE (\E ch \in Channels : ChannelEvent(ch)) \/ UNCHANGED vars
    BY <1>0, <1>1, <1>3 DEF ChannelEvent, vars
  <1>4. CASE waitScan
    BY <1>4, TokenScan
  <1>5. CASE dispatch \/ handleReturn
    BY <1>5, TokenTurn
  <1>6. CASE waitReturn
    <2>1. /\ Elems(channels') = Elems(channels) /\ ~haswork' /\ ~quit'
          /\ queFd' = queFd /\ intrFd' = intrFd /\ pc' # "read"
      BY <1>6 DEF waitReturn, Elems
    <2>2. QED
      BY <2>1 DEF TokenInv
  <1>7. CASE dispatchDone
    <2>1. Elems(channels') = {} /\ haswork' = haswork /\ quit' = quit /\ queFd' = queFd /\ intrFd' = intrFd
          /\ pc = "dispatch" /\ pc' = (IF haswork THEN "read" ELSE "quit")
      BY <1>7 DEF dispatchDone, Elems
    <2>2. QED
      BY <2>1 DEF TokenInv, Draining
  <1>8. CASE loopStart \/ waitError \/ waitWakeup \/ readQueFd \/ onQueue \/ swap \/ run \/ runReturn
    <2>1. channels = <<>> /\ channels' = channels
      BY <1>8 DEF loopStart, waitError, waitWakeup, readQueFd, onQueue, swap, run, runReturn,
                  DispatchInv, BatchInv
    <2>2. Elems(channels') = {}
      BY <2>1 DEF Elems
    <2>3. /\ quit' = quit /\ intrFd' = intrFd
          /\ pc' \notin {"dispatch", "handle", "read"}
          /\ pc' \in {"quit"} \cup Draining => pc \in {"read"} \cup Draining
      BY <1>8 DEF loopStart, waitError, waitWakeup, readQueFd, onQueue, swap, run, runReturn, Draining
    <2>4. QED
      BY <2>2, <2>3 DEF TokenInv
  <1>9. CASE quitCheck
    <2>1. channels = <<>> /\ channels' = channels /\ pc' \in {"stopped", "wait"}
      BY <1>9 DEF quitCheck, DispatchInv, BatchInv
    <2>2. Elems(channels') = {}
      BY <2>1 DEF Elems
    <2>3. QED
      BY <2>1, <2>2 DEF TokenInv, Draining
  <1>10. QED
    BY <1>2, <1>3, <1>4, <1>5, <1>6, <1>7, <1>8, <1>9 DEF Next, Calls, LoopStep

(* loop() reads the queue's and the interrupt's eventfd only when a token is
   there, whatever threads post, quit and erase, and for any MAX_EVENTS. *)
THEOREM ReadsTokenHolds == Spec => []ReadsToken
  <1>1. Init => TokenInv
    <2>1. Init => Elems(channels) = {} /\ pc = "stopped" /\ ~quit
      BY DEF Init, Elems
    <2>2. QED
      BY <2>1 DEF TokenInv
  <1>2. IInv /\ DispatchInv /\ TokenInv /\ [Next]_vars => TokenInv'
    BY TokenStep
  <1>3. TokenInv => ReadsToken
    BY DEF TokenInv, ReadsToken
  <1>4. QED
    BY <1>1, <1>2, <1>3, Invariance, DispatchInvariance, PTL DEF Spec

-----------------------------------------------------------------------------
(* quit() and the work before it *)

(* The first call of loop() has not returned, and the process goes on. *)
FirstRun == loops = 0 \/ (loops = 1 /\ pc \notin {"stopped", "undefined"})

(* The owed items that are still to execute. *)
Owing == owed \ (Elems(executed) \cup removed)

(* An item in the queue whose eventfd write is done keeps the eventfd readable
   until LoopThread drains the queue. *)
Written ==
    \A i \in Elems(queue_) : (\A t \in AllThreads : call[t] # i) /\ pc \notin Draining => queFd > 0

(* What is owed was posted, and its addWork has returned. *)
OwedWritten ==
    /\ owed \subseteq Elems(posted)
    /\ \A i \in owed : \A t \in AllThreads : call[t] # i

(* Until the first quit() the interrupt channel is nowhere. *)
IntrQuiet ==
    FirstRun /\ intrFd = 0 =>
        pIntrCh_ \notin Elems(readyList) /\ pIntrCh_ \notin Elems(channels) /\ ~quit

(* The queue is listed before the interrupt channel. *)
QueFirst(l) ==
    \E b \in 1 .. Len(l) : l[b] = pQueCh_ /\ \A a \in 1 .. Len(l) : l[a] = pIntrCh_ => b < a

(* The iteration serves the queue, or sees no interrupt. *)
Coming ==
    \/ haswork /\ pc \in {"dispatch", "handle", "read"}
    \/ pQueCh_ \in Elems(channels) /\ pc \in {"scan", "dispatch", "handle"}
    \/ pIntrCh_ \notin Elems(channels) /\ ~quit /\ QueFirst(readyList)

OwedComing == FirstRun /\ Owing # {} /\ pc \notin Draining => Coming

(* Inside loop(), it has been called. *)
RunCounted == loops = 0 => pc = "stopped"

QuitInv == RunCounted /\ Written /\ OwedWritten /\ IntrQuiet /\ OwedComing /\ QuitRunsEarlierWork

(* All that these steps rest on. *)
QuitContext == IInv /\ OnlyPosted /\ FifoNoLoss /\ DispatchInv /\ QuitInv

(* The elements of two parts. *)
LEMMA ElemsConcat ==
    ASSUME NEW S, NEW s \in Seq(S), NEW t \in Seq(S)
    PROVE  Elems(s \o t) \subseteq Elems(s) \cup Elems(t)
  <1>1. /\ Len(s) \in Nat /\ Len(t) \in Nat /\ Len(s \o t) = Len(s) + Len(t)
        /\ \A i \in 1 .. Len(s) + Len(t) : (s \o t)[i] = IF i <= Len(s) THEN s[i] ELSE t[i - Len(s)]
    BY ConcatProperties, LenProperties
  <1>2. SUFFICES ASSUME NEW x \in Elems(s \o t) PROVE x \in Elems(s) \cup Elems(t)
    OBVIOUS
  <1>3. PICK k \in 1 .. Len(s \o t) : x = (s \o t)[k]
    BY DEF Elems
  <1>4. CASE k <= Len(s)
    BY <1>1, <1>3, <1>4 DEF Elems
  <1>5. CASE ~(k <= Len(s))
    <2>1. k - Len(s) \in 1 .. Len(t) /\ x = t[k - Len(s)]
      BY <1>1, <1>3, <1>5
    <2>2. QED
      BY <2>1 DEF Elems
  <1>6. QED
    BY <1>4, <1>5

(* A posted item that neither ran nor was removed is in the batch of doit or in
   the queue. *)
LEMMA PendingSomewhere ==
    ASSUME TypeOK, FifoNoLoss, NEW x \in Elems(posted), x \notin Elems(executed), x \notin removed
    PROVE  x \in Elems(getQueue) \cup Elems(queue_)
  <1> DEFINE pending == getQueue \o queue_
  <1>1. queue_ \in Seq(Items) /\ getQueue \in Seq(Items) /\ executed \in Seq(Items)
    BY DEF TypeOK
  <1>2. pending \in Seq(Items) /\ Elems(pending) \subseteq Elems(getQueue) \cup Elems(queue_)
    BY <1>1, ConcatProperties, ElemsConcat
  <1>3. x \in Elems(executed \o pending)
    BY DEF FifoNoLoss, IsRest
  <1> HIDE DEF pending
  <1>4. Elems(executed \o pending) \subseteq Elems(executed) \cup Elems(pending)
    BY <1>1, <1>2, ElemsConcat
  <1>5. QED
    BY <1>2, <1>3, <1>4

(* Outside the drain, such an item keeps the queue's entry readable and listed
   once its addWork has returned. *)
LEMMA PendingListed ==
    ASSUME QuitContext, NEW x \in Elems(posted), x \notin Elems(executed), x \notin removed,
           \A t \in AllThreads : call[t] # x, pc \notin Draining
    PROVE  queFd > 0 /\ pQueCh_ \in Elems(readyList)
  <1>1. x \in Elems(getQueue) \cup Elems(queue_)
    BY PendingSomewhere DEF QuitContext, IInv
  <1>2. getQueue = <<>> /\ Elems(getQueue) = {}
    BY DEF QuitContext, IInv, BatchInDoit, Draining, Elems
  <1>3. queFd > 0
    BY <1>1, <1>2 DEF QuitContext, QuitInv, Written
  <1>4. QED
    BY <1>3 DEF QuitContext, IInv, Armed

(* While earlier work is owed and the loop does not drain, the queue is announced. *)
LEMMA OwingListed ==
    ASSUME QuitContext, Owing # {}, pc \notin Draining
    PROVE  queFd > 0 /\ pQueCh_ \in Elems(readyList)
  <1>1. PICK x \in Owing : TRUE
    OBVIOUS
  <1>2. /\ x \in Elems(posted) /\ x \notin Elems(executed) /\ x \notin removed
        /\ \A t \in AllThreads : call[t] # x
    BY <1>1 DEF QuitContext, QuitInv, OwedWritten, Owing
  <1>3. QED
    BY <1>2, PendingListed

(* QueFirst and the changes of the list. *)
LEMMA QueFirstExtended ==
    ASSUME NEW l, NEW t, NEW e, Extended(t, l, e), QueFirst(l)
    PROVE  QueFirst(t)
  <1>1. /\ Len(l) \in Nat /\ Len(t) = Len(l) + 1
        /\ \A k \in 1 .. Len(l) : t[k] = l[k]
    BY DEF Extended
  <1>2. PICK b \in 1 .. Len(l) : l[b] = pQueCh_ /\ \A a \in 1 .. Len(l) : l[a] = pIntrCh_ => b < a
    BY DEF QueFirst
  <1>3. b \in 1 .. Len(t) /\ t[b] = pQueCh_
    BY <1>1, <1>2
  <1>4. ASSUME NEW a \in 1 .. Len(t), t[a] = pIntrCh_ PROVE b < a
    BY <1>1, <1>2, <1>4
  <1>5. QED
    BY <1>3, <1>4 DEF QueFirst

(* The head that goes is neither of the two. *)
LEMMA QueFirstShortened ==
    ASSUME NEW l, NEW t, Shortened(t, l), QueFirst(l), Head(l) # pQueCh_
    PROVE  QueFirst(t) /\ Head(l) # pIntrCh_
  <1>1. /\ Len(l) \in Nat \ {0} /\ Len(t) = Len(l) - 1 /\ Head(l) = l[1]
        /\ \A k \in 1 .. Len(t) : t[k] = l[k + 1]
    BY DEF Shortened
  <1>2. PICK b \in 1 .. Len(l) : l[b] = pQueCh_ /\ \A a \in 1 .. Len(l) : l[a] = pIntrCh_ => b < a
    BY DEF QueFirst
  <1>3. b # 1 /\ 1 \in 1 .. Len(l)
    BY <1>1, <1>2
  <1>4. b - 1 \in 1 .. Len(t) /\ t[b - 1] = pQueCh_
    BY <1>1, <1>2, <1>3
  <1>5. ASSUME NEW a \in 1 .. Len(t), t[a] = pIntrCh_ PROVE b - 1 < a
    <2>1. b < a + 1
      BY <1>1, <1>2, <1>5
    <2>2. QED
      BY <2>1
  <1>6. l[1] # pIntrCh_
    BY <1>2, <1>3
  <1>7. QED
    BY <1>1, <1>4, <1>5, <1>6 DEF QueFirst

(* A channel that becomes ready is put behind. *)
LEMMA QueFirstListed ==
    ASSUME TypeOK, NEW fd \in Fds, QueFirst(readyList)
    PROVE  QueFirst(Listed(fd))
  <1>1. readyList \in Seq(Fds)
    BY DEF TypeOK
  <1>2. Extended(Append(readyList, fd), readyList, fd)
    BY <1>1, AppendExtends
  <1>3. QueFirst(Append(readyList, fd))
    BY <1>2, QueFirstExtended
  <1>4. QED
    BY <1>3 DEF Listed

(* Without the interrupt the queue is first. *)
LEMMA QueFirstAlone ==
    ASSUME NEW l, pQueCh_ \in Elems(l), pIntrCh_ \notin Elems(l)
    PROVE  QueFirst(l)
  BY DEF Elems, QueFirst

(* A token is read only on the way into the drain, which ends with an empty
   queue. *)
LEMMA WrittenStep ==
    ASSUME QuitContext, [Next]_vars
    PROVE  Written'
  <1> USE DEF queueVars, kernelVars, loopVars, histVars
  <1>0. /\ queue_ \in Seq(Items) /\ queFd \in Nat /\ call \in [AllThreads -> Items \cup {NoItem}]
        /\ Elems(queue_) \subseteq Items /\ Written
    BY DEF QuitContext, QuitInv, IInv, TypeOK, Elems
  <1>1. ASSUME NEW t \in AllThreads, NEW i \in Items, enqueue(t, i) PROVE Written'
    <2>1. Elems(queue_') = Elems(queue_) \cup {i}
      BY <1>0, <1>1, ElemsAppend DEF enqueue
    <2>2. call' = [call EXCEPT ![t] = i] /\ call[t] = NoItem /\ pc' = pc /\ queFd' = queFd
      BY <1>1 DEF enqueue, CanCall
    <2>3. SUFFICES ASSUME NEW j \in Elems(queue_'), \A u \in AllThreads : call'[u] # j, pc' \notin Draining
                   PROVE  queFd' > 0
      BY DEF Written
    <2>4. j # i /\ j \in Elems(queue_)
      BY <1>0, <2>1, <2>2, <2>3
    <2>5. \A u \in AllThreads : call[u] # j
      BY <1>0, <2>2, <2>3, <2>4, NamesAssumption
    <2>6. QED
      BY <1>0, <2>2, <2>3, <2>4, <2>5 DEF Written
  <1>2. ASSUME NEW t \in AllThreads, onWrite(t) PROVE Written'
    BY <1>0, <1>2 DEF onWrite, Written
  <1>3. ASSUME NEW t \in AllThreads, NEW i \in Items, removeWork(t, i) PROVE Written'
    <2>1. PICK k \in 1 .. Len(queue_) :
             queue_' = SubSeq(queue_, 1, k - 1) \o SubSeq(queue_, k + 1, Len(queue_))
      BY <1>3 DEF removeWork
    <2>2. Elems(queue_') \subseteq Elems(queue_)
      BY <1>0, <2>1, RemoveAtSubset
    <2>3. call' = call /\ pc' = pc /\ queFd' = queFd
      BY <1>3 DEF removeWork
    <2>4. QED
      BY <1>0, <2>2, <2>3 DEF Written
  <1>4. CASE readQueFd \/ swap \/ run \/ runReturn
    BY <1>4 DEF readQueFd, swap, run, runReturn, Written, Draining
  <1>5. CASE onQueue
    <2>1. CASE queue_ = <<>>
      <3>1. Elems(queue_') = {}
        BY <1>5, <2>1 DEF onQueue, Elems
      <3>2. QED
        BY <3>1 DEF Written
    <2>2. CASE queue_ # <<>>
      BY <1>5, <2>2 DEF onQueue, Written, Draining
    <2>3. QED
      BY <2>1, <2>2
  <1>6. ASSUME queue_' = queue_, call' = call, queFd' = queFd, pc' \notin Draining => pc \notin Draining
        PROVE  Written'
    <2>1. Elems(queue_') = Elems(queue_)
      BY <1>6 DEF Elems
    <2>2. QED
      BY <1>0, <1>6, <2>1 DEF Written
  <1>7. ASSUME NEW t \in AllThreads, quitLoop(t) \/ \E ch \in Channels : enroll(t, ch) PROVE Written'
    BY <1>6, <1>7 DEF quitLoop, enroll
  <1>8. ASSUME NEW ch \in Channels, (\E t \in AllThreads : erase(t, ch)) \/ ChannelEvent(ch) PROVE Written'
    BY <1>6, <1>8 DEF erase, ChannelEvent
  <1>9. CASE \/ loopStart \/ waitError \/ waitWakeup \/ waitScan \/ waitReturn \/ dispatch
             \/ handleReturn \/ dispatchDone \/ quitCheck \/ UNCHANGED vars
    BY <1>6, <1>9 DEF loopStart, waitError, waitWakeup, waitScan, waitReturn, dispatch,
                      handleReturn, dispatchDone, quitCheck, vars, Draining
  <1>10. QED
    BY <1>1, <1>2, <1>3, <1>4, <1>5, <1>7, <1>8, <1>9 DEF Next, Calls, LoopStep

(* Owed items stay posted and written. *)
LEMMA OwedWrittenStep ==
    ASSUME QuitContext, [Next]_vars
    PROVE  OwedWritten'
  <1> USE DEF queueVars, kernelVars, loopVars, histVars
  <1>0. /\ posted \in Seq(Items) /\ call \in [AllThreads -> Items \cup {NoItem}]
        /\ owed \subseteq Items /\ OwedWritten
    BY DEF QuitContext, QuitInv, IInv, TypeOK
  <1>1. ASSUME NEW t \in AllThreads, NEW i \in Items, enqueue(t, i) PROVE OwedWritten'
    <2>1. Elems(posted') = Elems(posted) \cup {i} /\ i \notin Elems(posted)
      BY <1>0, <1>1, ElemsAppend DEF enqueue
    <2>2. call' = [call EXCEPT ![t] = i] /\ owed' = owed
      BY <1>1 DEF enqueue
    <2>3. QED
      BY <1>0, <2>1, <2>2 DEF OwedWritten
  <1>2. ASSUME NEW t \in AllThreads, onWrite(t) PROVE OwedWritten'
    <2>1. Elems(posted') = Elems(posted) /\ owed' = owed /\ call' = [call EXCEPT ![t] = NoItem]
      BY <1>2 DEF onWrite, Elems
    <2>2. QED
      BY <1>0, <2>1, NamesAssumption DEF OwedWritten
  <1>3. ASSUME NEW t \in AllThreads, quitLoop(t) PROVE OwedWritten'
    <2>1. Elems(posted') = Elems(posted) /\ call' = call /\ (owed' = owed \/ owed' = Accepted)
      BY <1>3 DEF quitLoop, Elems
    <2>2. QED
      BY <1>0, <2>1 DEF OwedWritten, Accepted
  <1>4. ASSUME posted' = posted, call' = call, owed' = owed \/ owed' = {} PROVE OwedWritten'
    <2>1. Elems(posted') = Elems(posted)
      BY <1>4 DEF Elems
    <2>2. QED
      BY <1>0, <1>4, <2>1 DEF OwedWritten
  <1>5. ASSUME NEW t \in AllThreads,
               (\E i \in Items : removeWork(t, i)) \/ (\E ch \in Channels : enroll(t, ch))
        PROVE  OwedWritten'
    BY <1>4, <1>5 DEF removeWork, enroll
  <1>6. ASSUME NEW ch \in Channels, (\E t \in AllThreads : erase(t, ch)) \/ ChannelEvent(ch) PROVE OwedWritten'
    BY <1>4, <1>6 DEF erase, ChannelEvent
  <1>7. CASE loopStart \/ waitError \/ LoopStep \/ UNCHANGED vars
    BY <1>4, <1>7 DEF loopStart, waitError, LoopStep, waitWakeup, waitScan, waitReturn, dispatch,
                      handleReturn, dispatchDone, readQueFd, onQueue, swap, run, runReturn, quitCheck, vars
  <1>8. QED
    BY <1>1, <1>2, <1>3, <1>5, <1>6, <1>7 DEF Next, Calls

(* The first run is entered once and not re-entered. *)
LEMMA FirstRunStep ==
    ASSUME QuitContext, [Next]_vars
    PROVE  RunCounted' /\ (FirstRun' => FirstRun)
  <1>1. loops \in Nat /\ RunCounted
    BY DEF QuitContext, QuitInv, IInv, TypeOK
  <1>2. \/ loops' = loops /\ pc' = pc
        \/ pc = "stopped" /\ loops' = loops + 1 /\ pc' = "wait"
        \/ pc \notin {"stopped", "undefined"} /\ loops' = loops
    BY DEF Next, Calls, LoopStep, enqueue, removeWork, onWrite, quitLoop, enroll, erase, ChannelEvent,
           loopStart, waitError, waitWakeup, waitScan, waitReturn, dispatch, handleReturn, dispatchDone,
           readQueFd, onQueue, swap, run, runReturn, quitCheck, vars, loopVars
  <1>3. QED
    BY <1>1, <1>2 DEF RunCounted, FirstRun

(* Nothing but quit() puts the interrupt channel on the kernel's list, and
   only what is on that list gets into a batch. *)
LEMMA IntrQuietStep ==
    ASSUME QuitContext, [Next]_vars
    PROVE  IntrQuiet'
  <1> USE DEF queueVars, kernelVars, loopVars, histVars
  <1>0. /\ readyList \in Seq(Fds) /\ channels \in Seq(Fds) /\ intrFd \in Nat /\ loops \in Nat
        /\ TypeOK /\ IntrQuiet /\ (FirstRun' => FirstRun)
    BY FirstRunStep DEF QuitContext, QuitInv, IInv, TypeOK
  <1>1. ASSUME intrFd' = 0 => intrFd = 0,
               pIntrCh_ \in Elems(readyList') => pIntrCh_ \in Elems(readyList),
               pIntrCh_ \in Elems(channels') => pIntrCh_ \in Elems(channels) \cup Elems(readyList),
               quit' => quit \/ pIntrCh_ \in Elems(channels)
        PROVE  IntrQuiet'
    BY <1>0, <1>1 DEF IntrQuiet
  <1>2. ASSUME NEW fd \in Fds \ {pIntrCh_}, readyList' = Listed(fd), intrFd' = intrFd,
               channels' = channels, quit' = quit
        PROVE  IntrQuiet'
    <2>1. Elems(Append(readyList, fd)) = Elems(readyList) \cup {fd}
      BY <1>0, ElemsAppend
    <2>2. pIntrCh_ \in Elems(readyList') => pIntrCh_ \in Elems(readyList)
      BY <1>2, <2>1 DEF Listed
    <2>3. Elems(channels') = Elems(channels)
      BY <1>2 DEF Elems
    <2>4. QED
      BY <1>1, <1>2, <2>2, <2>3
  <1>3. ASSUME NEW t \in AllThreads, onWrite(t) PROVE IntrQuiet'
    BY <1>2, <1>3, NamesAssumption DEF onWrite, Fds
  <1>4. ASSUME NEW ch \in Channels, ChannelEvent(ch) PROVE IntrQuiet'
    BY <1>2, <1>4, NamesAssumption DEF ChannelEvent, Fds
  <1>5. ASSUME NEW t \in AllThreads, quitLoop(t) PROVE IntrQuiet'
    <2>1. intrFd' # 0
      BY <1>0, <1>5 DEF quitLoop
    <2>2. QED
      BY <2>1 DEF IntrQuiet
  <1>6. CASE waitScan
    <2>1. readyList # <<>>
      BY <1>6 DEF QuitContext, IInv, TypeOK, Wellformed, waitScan
    <2> DEFINE h == Head(readyList)
               r == Tail(readyList)
    <2>2. h \in Fds /\ r \in Seq(Fds)
      BY <1>0, <2>1, HeadTailProperties
    <2>3. Elems(readyList) = Elems(r) \cup {h}
      BY <1>0, <2>1, TailShortens, ShortenedFacts
    <2>6. /\ readyList' = r \/ readyList' = Append(r, h)
          /\ channels' = channels \/ channels' = Append(channels, h)
          /\ intrFd' = intrFd /\ quit' = quit
      BY <1>6 DEF waitScan
    <2> HIDE DEF h, r
    <2>4. Elems(Append(r, h)) = Elems(r) \cup {h}
      BY <2>2, ElemsAppend
    <2>5. Elems(Append(channels, h)) = Elems(channels) \cup {h}
      BY <1>0, <2>2, ElemsAppend
    <2>7. Elems(readyList') \subseteq Elems(readyList)
      BY <2>3, <2>4, <2>6
    <2>8. Elems(channels') \subseteq Elems(channels) \cup Elems(readyList)
      BY <2>3, <2>5, <2>6
    <2>9. QED
      BY <1>1, <2>6, <2>7, <2>8
  <1>7. CASE dispatch \/ handleReturn
    <2>1. channels # <<>> /\ readyList' = readyList /\ intrFd' = intrFd
          /\ (channels' = channels \/ channels' = Tail(channels))
          /\ (quit' = quit \/ Head(channels) = pIntrCh_)
      BY <1>7 DEF QuitContext, IInv, Wellformed, dispatch, handleReturn
    <2>2. Elems(channels) = Elems(Tail(channels)) \cup {Head(channels)}
      BY <1>0, <2>1, TailShortens, ShortenedFacts
    <2>3. Elems(channels') \subseteq Elems(channels) /\ Elems(readyList') = Elems(readyList)
      BY <2>1, <2>2 DEF Elems
    <2>4. quit' => quit \/ pIntrCh_ \in Elems(channels)
      BY <2>1, <2>2
    <2>5. QED
      BY <1>1, <2>1, <2>3, <2>4
  <1>8. CASE quitCheck /\ quit
    <2>1. pc' = "stopped" /\ loops' = loops /\ loops # 0
      BY <1>8 DEF quitCheck, QuitContext, QuitInv, RunCounted
    <2>2. QED
      BY <2>1 DEF IntrQuiet, FirstRun
  <1>9. ASSUME readyList' = readyList, channels' = channels, intrFd' = intrFd, quit' = quit \/ ~quit'
        PROVE  IntrQuiet'
    <2>1. Elems(readyList') = Elems(readyList) /\ Elems(channels') = Elems(channels)
      BY <1>9 DEF Elems
    <2>2. QED
      BY <1>1, <1>9, <2>1
  <1>10. ASSUME NEW t \in AllThreads,
                (\E i \in Items : enqueue(t, i) \/ removeWork(t, i)) \/ (\E ch \in Channels : enroll(t, ch))
         PROVE  IntrQuiet'
    BY <1>9, <1>10 DEF enqueue, removeWork, enroll
  <1>11. ASSUME NEW ch \in Channels, \E t \in AllThreads : erase(t, ch) PROVE IntrQuiet'
    BY <1>9, <1>11 DEF erase
  <1>12. CASE \/ loopStart \/ waitError \/ waitWakeup \/ waitReturn \/ dispatchDone \/ readQueFd
              \/ onQueue \/ swap \/ run \/ runReturn \/ (quitCheck /\ ~quit) \/ UNCHANGED vars
    BY <1>9, <1>12 DEF loopStart, waitError, waitWakeup, waitReturn, dispatchDone, readQueFd, onQueue,
                       swap, run, runReturn, quitCheck, vars
  <1>13. QED
    BY <1>3, <1>4, <1>5, <1>6, <1>7, <1>8, <1>10, <1>11, <1>12 DEF Next, Calls, LoopStep

(* Work becomes owed by the first quit() only, and the drain leaves none. *)
LEMMA OwingStep ==
    ASSUME QuitContext, [Next]_vars, Owing' # {}, pc' \notin Draining
    PROVE  /\ pc \notin Draining
           /\ Owing # {} \/ \E t \in AllThreads : quitLoop(t) /\ intrFd = 0
  <1> USE DEF queueVars, loopVars, histVars
  <1>0. getQueue \in Seq(Items) /\ executed \in Seq(Items)
    BY DEF QuitContext, IInv, TypeOK
  <1>1. Elems(executed) \subseteq Elems(executed')
    <2>1. executed' = executed \/ (getQueue # <<>> /\ executed' = Append(executed, Head(getQueue)))
      BY DEF Next, Calls, LoopStep, enqueue, removeWork, onWrite, quitLoop, enroll, erase, ChannelEvent,
             loopStart, waitError, waitWakeup, waitScan, waitReturn, dispatch, handleReturn, dispatchDone,
             readQueFd, onQueue, swap, run, runReturn, quitCheck, vars
    <2>2. getQueue # <<>> => Elems(Append(executed, Head(getQueue))) = Elems(executed) \cup {Head(getQueue)}
      BY <1>0, ElemsAppend, HeadTailProperties
    <2>3. QED
      BY <2>1, <2>2 DEF Elems
  <1>2. removed \subseteq removed'
    BY DEF Next, Calls, LoopStep, enqueue, removeWork, onWrite, quitLoop, enroll, erase, ChannelEvent,
           loopStart, waitError, waitWakeup, waitScan, waitReturn, dispatch, handleReturn, dispatchDone,
           readQueFd, onQueue, swap, run, runReturn, quitCheck, vars
  <1>3. owed' \subseteq owed \/ \E t \in AllThreads : quitLoop(t) /\ intrFd = 0
    BY DEF Next, Calls, LoopStep, enqueue, removeWork, onWrite, quitLoop, enroll, erase, ChannelEvent,
           loopStart, waitError, waitWakeup, waitScan, waitReturn, dispatch, handleReturn, dispatchDone,
           readQueFd, onQueue, swap, run, runReturn, quitCheck, vars
  <1>4. Owing # {} \/ \E t \in AllThreads : quitLoop(t) /\ intrFd = 0
    BY <1>1, <1>2, <1>3 DEF Owing
  <1>5. ASSUME pc \in Draining PROVE FALSE
    <2>1. pc = "onQueue" /\ queue_ = <<>> /\ owed' = owed
      BY <1>5 DEF Draining, Next, Calls, LoopStep, enqueue, removeWork, onWrite, quitLoop, enroll, erase,
           ChannelEvent, loopStart, waitError, waitWakeup, waitScan, waitReturn, dispatch, handleReturn,
           dispatchDone, readQueFd, onQueue, swap, run, runReturn, quitCheck, vars
    <2>2. PICK x \in Owing : TRUE
      BY <1>1, <1>2, <2>1 DEF Owing
    <2>3. x \in Elems(getQueue) \cup Elems(queue_)
      BY <2>2, PendingSomewhere DEF QuitContext, IInv, QuitInv, OwedWritten, Owing
    <2>4. Elems(getQueue) = {} /\ Elems(queue_) = {}
      BY <2>1 DEF QuitContext, IInv, BatchInDoit, Elems
    <2>5. QED
      BY <2>3, <2>4
  <1>6. QED
    BY <1>4, <1>5

(* epoll_wait examines the queue's entry before the interrupt's, and finds it
   readable. *)
LEMMA ComingScan ==
    ASSUME QuitContext, waitScan, Coming, queFd > 0
    PROVE  Coming'
  <1> DEFINE h == Head(readyList)
             r == Tail(readyList)
  <1>1. readyList \in Seq(Fds) /\ channels \in Seq(Fds) /\ readyList # <<>>
    BY DEF QuitContext, IInv, TypeOK, Wellformed, waitScan
  <1>2. h \in Fds /\ r \in Seq(Fds) /\ Shortened(r, readyList)
    BY <1>1, HeadTailProperties, TailShortens
  <1>3. /\ pc = "scan" /\ pc' = "scan" /\ quit' = quit
        /\ \/ channels' = Append(channels, h) /\ readyList' = Append(r, h)
           \/ channels' = channels /\ readyList' = r /\ ~IsReady(h)
    BY DEF waitScan
  <1>4. QueFirst(readyList) /\ h # pQueCh_ => QueFirst(r) /\ h # pIntrCh_
    BY <1>2, QueFirstShortened
  <1> HIDE DEF h, r
  <1>5. Extended(Append(r, h), r, h)
    BY <1>2, AppendExtends
  <1>6. Elems(Append(channels, h)) = Elems(channels) \cup {h}
    BY <1>1, <1>2, ElemsAppend
  <1>7. CASE h = pQueCh_ \/ pQueCh_ \in Elems(channels)
    <2>1. pQueCh_ \in Elems(channels')
      <3>1. h = pQueCh_ => IsReady(h)
        BY DEF IsReady
      <3>2. QED
        BY <1>3, <1>6, <1>7, <3>1
    <2>2. QED
      BY <1>3, <2>1 DEF Coming
  <1>8. CASE h # pQueCh_ /\ pQueCh_ \notin Elems(channels)
    <2>1. pIntrCh_ \notin Elems(channels) /\ ~quit /\ QueFirst(readyList)
      BY <1>3, <1>8 DEF Coming
    <2>2. QueFirst(r) /\ h # pIntrCh_
      BY <1>4, <1>8, <2>1
    <2>3. QueFirst(Append(r, h))
      BY <1>5, <2>2, QueFirstExtended
    <2>4. QueFirst(readyList')
      BY <1>3, <2>2, <2>3
    <2>5. pIntrCh_ \notin Elems(channels')
      <3>1. Elems(channels') \subseteq Elems(channels) \cup {h}
        BY <1>3, <1>6
      <3>2. QED
        BY <2>1, <2>2, <3>1
    <2>6. QED
      BY <1>3, <2>1, <2>4, <2>5 DEF Coming
  <1>9. QED
    BY <1>7, <1>8

(* The for loop keeps the queue's event until it has set haswork. *)
LEMMA ComingTurn ==
    ASSUME QuitContext, dispatch \/ handleReturn, Coming, pc' # "undefined"
    PROVE  Coming'
  <1>1. channels \in Seq(Fds) /\ channels # <<>> /\ readyList' = readyList
    BY DEF QuitContext, IInv, TypeOK, Wellformed, dispatch, handleReturn, kernelVars
  <1>2. Elems(channels) = Elems(Tail(channels)) \cup {Head(channels)}
    BY <1>1, TailShortens, ShortenedFacts
  <1>3. pc = "handle" => Head(channels) \in Channels
    BY DEF QuitContext, DispatchInv, BatchInv
  <1>4. /\ pc \in {"dispatch", "handle"} /\ pc' \in {"dispatch", "handle"}
        /\ \/ Head(channels) = pIntrCh_ /\ channels' = Tail(channels) /\ haswork' = haswork
           \/ haswork'
           \/ /\ Head(channels) \in Channels /\ haswork' = haswork /\ quit' = quit
              /\ channels' = channels \/ channels' = Tail(channels)
    BY <1>3 DEF dispatch, handleReturn
  <1>5. CASE Head(channels) = pIntrCh_ /\ channels' = Tail(channels) /\ haswork' = haswork
    BY <1>2, <1>4, <1>5, NamesAssumption DEF Coming
  <1>6. CASE haswork'
    BY <1>4, <1>6 DEF Coming
  <1>7. CASE /\ Head(channels) \in Channels /\ haswork' = haswork /\ quit' = quit
             /\ channels' = channels \/ channels' = Tail(channels)
    <2>1. /\ Head(channels) # pQueCh_ /\ Head(channels) # pIntrCh_
          /\ pQueCh_ \in Elems(channels) => pQueCh_ \in Elems(channels')
          /\ pIntrCh_ \in Elems(channels') => pIntrCh_ \in Elems(channels)
      BY <1>2, <1>7, NamesAssumption DEF Elems
    <2>2. QueFirst(readyList') = QueFirst(readyList)
      BY <1>1
    <2>3. QED
      BY <1>4, <1>7, <2>1, <2>2 DEF Coming
  <1>8. QED
    BY <1>4, <1>5, <1>6, <1>7

(* While work is owed, the iteration that sees the interrupt serves the
   queue. *)
LEMMA OwedComingStep ==
    ASSUME QuitContext, [Next]_vars
    PROVE  OwedComing'
  <1> USE DEF queueVars, kernelVars, loopVars, histVars
  <1>1. SUFFICES ASSUME FirstRun', Owing' # {}, pc' \notin Draining PROVE Coming'
    BY DEF OwedComing
  <1>2. /\ FirstRun /\ pc \notin Draining /\ TypeOK
        /\ Owing # {} \/ \E t \in AllThreads : quitLoop(t) /\ intrFd = 0
    BY <1>1, FirstRunStep, OwingStep DEF QuitContext, IInv
  <1>3. ASSUME NEW t \in AllThreads, quitLoop(t), intrFd = 0 PROVE Coming'
    <2>1. pIntrCh_ \notin Elems(readyList) /\ pIntrCh_ \notin Elems(channels) /\ ~quit
      BY <1>2, <1>3 DEF QuitContext, QuitInv, IntrQuiet
    <2>2. owed' = Accepted /\ executed' = executed /\ removed' = removed /\ channels' = channels /\ quit' = quit
      BY <1>3 DEF quitLoop
    <2>3. PICK x \in Owing' : TRUE
      BY <1>1
    <2>4. x \in Accepted /\ x \notin Elems(executed) /\ x \notin removed
      BY <2>2, <2>3 DEF Owing, Elems
    <2>5. pQueCh_ \in Elems(readyList)
      BY <1>2, <2>4, PendingListed DEF Accepted
    <2>6. QueFirst(readyList)
      BY <2>1, <2>5, QueFirstAlone
    <2>7. QueFirst(Listed(pIntrCh_))
      BY <1>2, <2>6, QueFirstListed DEF Fds
    <2>8. QueFirst(readyList')
      BY <1>3, <2>7 DEF quitLoop
    <2>9. Elems(channels') = Elems(channels)
      BY <2>2 DEF Elems
    <2>10. QED
      BY <2>1, <2>2, <2>8, <2>9 DEF Coming
  <1>4. ASSUME Owing # {} PROVE Coming'
    <2>0. Coming /\ queFd > 0 /\ pQueCh_ \in Elems(readyList)
      BY <1>2, <1>4, OwingListed DEF QuitContext, QuitInv, OwedComing
    <2>1. ASSUME readyList' = readyList \/ (\E fd \in Fds : readyList' = Listed(fd)),
                 channels' = channels, haswork' = haswork, quit' = quit, pc' = pc
          PROVE  Coming'
      <3>1. QueFirst(readyList) => QueFirst(readyList')
        BY <1>2, <2>1, QueFirstListed
      <3>2. Elems(channels') = Elems(channels)
        BY <2>1 DEF Elems
      <3>3. QED
        BY <2>0, <2>1, <3>1, <3>2 DEF Coming
    <2>2. ASSUME NEW t \in AllThreads,
                 \/ onWrite(t) \/ quitLoop(t) \/ (\E i \in Items : enqueue(t, i) \/ removeWork(t, i))
                 \/ \E ch \in Channels : enroll(t, ch)
          PROVE  Coming'
      BY <2>1, <2>2 DEF onWrite, quitLoop, enqueue, removeWork, enroll, Fds
    <2>3. ASSUME NEW ch \in Channels, (\E t \in AllThreads : erase(t, ch)) \/ ChannelEvent(ch) PROVE Coming'
      BY <2>1, <2>3 DEF erase, ChannelEvent, Fds
    <2>4. CASE UNCHANGED vars
      BY <2>1, <2>4 DEF vars
    <2>5. CASE waitScan
      BY <2>0, <2>5, ComingScan
    <2>6. CASE dispatch \/ handleReturn
      <3>1. pc' # "undefined"
        BY <1>1, <2>6 DEF FirstRun, dispatch, handleReturn, QuitContext, QuitInv, RunCounted
      <3>2. QED
        BY <2>0, <2>6, <3>1, ComingTurn
    <2>7. CASE waitError
      BY <1>1, <2>7 DEF waitError, Owing
    <2>8. CASE readQueFd \/ onQueue \/ swap \/ run \/ runReturn
      BY <1>1, <1>2, <2>8 DEF readQueFd, onQueue, swap, run, runReturn, Draining
    <2>9. ASSUME pIntrCh_ \notin Elems(channels), QueFirst(readyList), ~quit',
                 readyList' = readyList, channels' = channels
          PROVE  Coming'
      <3>1. Elems(channels') = Elems(channels) /\ QueFirst(readyList')
        BY <2>9 DEF Elems
      <3>2. QED
        BY <2>9, <3>1 DEF Coming
    <2>10. CASE loopStart \/ waitWakeup \/ quitCheck
      <3>1. pc \notin {"scan", "dispatch", "handle", "read"} /\ readyList' = readyList
            /\ channels' = channels /\ quit' = quit
        BY <2>10 DEF loopStart, waitWakeup, quitCheck
      <3>2. QED
        BY <2>0, <2>9, <3>1 DEF Coming
    <2>11. CASE waitReturn
      <3>1. pc = "scan" /\ ~quit' /\ readyList' = readyList /\ channels' = channels
            /\ pc' = IF channels = <<>> THEN "wait" ELSE "dispatch"
        BY <2>11 DEF waitReturn
      <3>2. CASE pQueCh_ \in Elems(channels)
        <4>1. channels # <<>> /\ Elems(channels') = Elems(channels)
          BY <3>1, <3>2 DEF Elems
        <4>2. QED
          BY <3>1, <3>2, <4>1 DEF Coming
      <3>3. CASE pQueCh_ \notin Elems(channels)
        BY <2>0, <2>9, <3>1, <3>3 DEF Coming
      <3>4. QED
        BY <3>2, <3>3
    <2>12. CASE dispatchDone
      <3>1. pc = "dispatch" /\ channels = <<>> /\ Elems(channels) = {} /\ readyList' = readyList
            /\ channels' = channels /\ quit' = quit /\ haswork' = haswork
            /\ pc' = IF haswork THEN "read" ELSE "quit"
        BY <2>12 DEF dispatchDone, Elems
      <3>2. CASE haswork
        BY <3>1, <3>2 DEF Coming
      <3>3. CASE ~haswork
        BY <2>0, <2>9, <3>1, <3>3 DEF Coming
      <3>4. QED
        BY <3>2, <3>3
    <2>13. QED
      BY <2>2, <2>3, <2>4, <2>5, <2>6, <2>7, <2>8, <2>10, <2>11, <2>12 DEF Next, Calls, LoopStep
  <1>5. QED
    BY <1>2, <1>3, <1>4

(* loop() leaves only when no work is owed. *)
LEMMA QuitRunsStep ==
    ASSUME QuitContext, [Next]_vars
    PROVE  QuitRunsEarlierWork'
  <1> USE DEF queueVars, kernelVars, loopVars, histVars
  <1>0. /\ loops \in Nat /\ intrFd \in Nat /\ executed \in Seq(Items)
        /\ QuitRunsEarlierWork /\ RunCounted
    BY DEF QuitContext, QuitInv, IInv, TypeOK
  <1>1. SUFFICES ASSUME pc' = "stopped", loops' = 1, intrFd' = 0
                 PROVE  owed' \subseteq Elems(executed') \cup removed'
    BY DEF QuitRunsEarlierWork, Elems
  <1>2. CASE waitError
    BY <1>2 DEF waitError
  <1>3. CASE quitCheck
    <2>1. pc = "quit" /\ quit /\ loops = 1 /\ executed' = executed /\ removed' = removed /\ owed' = owed
      BY <1>1, <1>3 DEF quitCheck
    <2>2. ~Coming \/ ~quit
      BY <2>1 DEF Coming
    <2>3. Owing = {}
      BY <2>1, <2>2 DEF QuitContext, QuitInv, OwedComing, FirstRun, Draining
    <2>4. QED
      BY <2>1, <2>3 DEF Owing, Elems
  <1>4. ASSUME pc = "stopped", loops = 1, intrFd = 0, executed' = executed, owed' = owed,
               removed \subseteq removed'
        PROVE  owed' \subseteq Elems(executed') \cup removed'
    <2>1. Elems(executed') = Elems(executed)
      BY <1>4 DEF Elems
    <2>2. QED
      BY <1>0, <1>4, <2>1 DEF QuitRunsEarlierWork
  <1>5. ASSUME NEW t \in AllThreads, quitLoop(t) PROVE FALSE
    BY <1>0, <1>1, <1>5 DEF quitLoop
  <1>6. ASSUME NEW t \in AllThreads,
               \/ onWrite(t) \/ (\E i \in Items : enqueue(t, i) \/ removeWork(t, i))
               \/ \E ch \in Channels : enroll(t, ch)
        PROVE  owed' \subseteq Elems(executed') \cup removed'
    BY <1>1, <1>4, <1>6 DEF onWrite, enqueue, removeWork, enroll
  <1>7. ASSUME NEW ch \in Channels, (\E t \in AllThreads : erase(t, ch)) \/ ChannelEvent(ch)
        PROVE  owed' \subseteq Elems(executed') \cup removed'
    BY <1>1, <1>4, <1>7 DEF erase, ChannelEvent
  <1>8. CASE UNCHANGED vars
    BY <1>1, <1>4, <1>8 DEF vars
  <1>9. CASE \/ loopStart \/ waitWakeup \/ waitScan \/ waitReturn \/ dispatch \/ handleReturn \/ dispatchDone
             \/ readQueFd \/ onQueue \/ swap \/ run \/ runReturn
    BY <1>1, <1>9 DEF loopStart, waitWakeup, waitScan, waitReturn, dispatch, handleReturn, dispatchDone,
                      readQueFd, onQueue, swap, run, runReturn
  <1>10. QED
    BY <1>2, <1>3, <1>5, <1>6, <1>7, <1>8, <1>9 DEF Next, Calls, LoopStep

(* quit() does not cut off the work before it: when the first loop() has
   returned for a quit(), every item whose addWork had returned by then has run
   or was removed, however many threads post, remove, enroll and quit. *)
THEOREM QuitRunsEarlierWorkHolds == Spec => []QuitRunsEarlierWork
  <1>1. Init => QuitInv
    <2> SUFFICES ASSUME Init PROVE QuitInv
      OBVIOUS
    <2>1. Elems(queue_) = {} /\ Elems(readyList) = {} /\ Elems(channels) = {} /\ owed = {} /\ ~quit
      BY DEF Init, Elems
    <2>2. RunCounted
      BY DEF Init, RunCounted
    <2>3. Written /\ OwedWritten /\ QuitRunsEarlierWork
      BY <2>1 DEF Written, OwedWritten, QuitRunsEarlierWork
    <2>4. IntrQuiet
      BY <2>1 DEF IntrQuiet
    <2>5. OwedComing
      BY <2>1 DEF OwedComing, Owing
    <2>6. QED
      BY <2>2, <2>3, <2>4, <2>5 DEF QuitInv
  <1>2. QuitContext /\ [Next]_vars => QuitInv'
    BY FirstRunStep, WrittenStep, OwedWrittenStep, IntrQuietStep, OwedComingStep, QuitRunsStep DEF QuitInv
  <1>3. IInv /\ OnlyPosted /\ FifoNoLoss /\ DispatchInv /\ QuitInv => QuitContext
    BY DEF QuitContext
  <1>4. QuitInv => QuitRunsEarlierWork
    BY DEF QuitInv
  <1>5. QED
    BY <1>1, <1>2, <1>3, <1>4, Invariance, OnlyPostedHolds, FifoNoLossHolds, DispatchInvariance, PTL DEF Spec
=============================================================================
