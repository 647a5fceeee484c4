--------------------------- MODULE TimeWheelProofs ---------------------------
(* Proofs about TimeWheel for every number of slots, every set of tasks and
   requests.  ListInv says where the entries of a task are and how often it has
   been called; TimeInv says how far its slot is from the current tick. *)
EXTENDS TimeWheel, SequenceTheorems, TLAPS

(* x is in s exactly once. *)
Single(s, x) == \E k \in 1 .. Len(s) : \A j \in 1 .. Len(s) : s[j] = x <=> j = k

(* No list holds t. *)
Nowhere(t) ==
    /\ t \notin Elems(curSlot)
    /\ \A i \in Ticks : t \notin Elems(slot_[i])

(* t has one entry, in the list onTick is walking. *)
InWalk(t) ==
    /\ Single(curSlot, t)
    /\ \A i \in Ticks : t \notin Elems(slot_[i])

(* t has one entry, in its slot. *)
InSlot(t) ==
    /\ task[t].setTick \in Ticks
    /\ Single(slot_[task[t].setTick], t)
    /\ \A i \in Ticks \ {task[t].setTick} : t \notin Elems(slot_[i])
    /\ t \notin Elems(curSlot)

(* The entries of a task that was never put back. *)
Once(t) ==
    t \notin postponed =>
        IF task[t].owner = "wheel" THEN InWalk(t) \/ InSlot(t) ELSE Nowhere(t)

(* doit of t is running. *)
Called(t) == pc = "callback" /\ Head(curSlot) = t

(* The calls made and the calls left add up to the calls asked for. *)
Counted(t) ==
    /\ t \notin postponed /\ task[t].owner = "wheel" /\ task[t].times >= 0 =>
          /\ task[t].fired + task[t].times = IF Called(t) THEN task[t].req + 1 ELSE task[t].req
          /\ task[t].times = 0 <=> task[t].req = 0
    /\ t \notin postponed /\ task[t].owner = "freed" =>
          task[t].fired = IF task[t].req = 0 THEN 1 ELSE task[t].req

(* onTick walks a list only while it runs. *)
Walking ==
    /\ pc = "idle" => curSlot = <<>>
    /\ pc = "callback" => curSlot # <<>>

(* A task of the wheel knows its slot. *)
Placed == \A t \in Tasks : task[t].owner = "wheel" => task[t].setTick \in Ticks

ListInv == TypeOK /\ Walking /\ Placed /\ \A t \in Tasks : Once(t) /\ Counted(t)

(* Tick s is d steps ahead of tick c. *)
Ahead(c, s, d) == s = c + d \/ s = c + d - SLOTNUM

(* The wheel comes to the slot of t before t is late, and if its interval is
   at most a turn, exactly on time. *)
Reach(t) ==
    \E d \in 1 .. SLOTNUM :
        /\ Ahead(curTick_, task[t].setTick, d)
        /\ task[t].age + d <= Due(t)
        /\ task[t].setInterval <= SLOTNUM => task[t].age + d = Due(t)

(* A task of the wheel is being served, in time, or has an entry in its slot,
   which the wheel reaches in time. *)
OnTime(t) ==
    task[t].owner = "wheel" =>
        /\ task[t].setTick \in Ticks /\ task[t].setInterval \in Nat
        /\ \/ /\ t \in Elems(curSlot)
              /\ task[t].age <= Due(t)
              /\ task[t].setInterval <= SLOTNUM => task[t].age = Due(t)
           \/ t \in Elems(slot_[task[t].setTick]) /\ Reach(t)

(* A task of interval zero is not repeated. *)
ZeroOnce(t) == task[t].setInterval = 0 => task[t].times \in {0, 1}

TimeInv == \A t \in Tasks : OnTime(t) /\ ZeroOnce(t)

(* The application asks for interval zero only once at a time: addTask takes it
   as the next tick, but onTick repeats such a task in the slot it has just
   emptied, a turn later. *)
ZeroOnlyOnce == \A r \in Requests : r[1] = 0 => r[2] \in {0, 1}

-----------------------------------------------------------------------------
(* Lists *)

(* Appending x to a list. *)
LEMMA AppendPlaces ==
    ASSUME NEW S, NEW s \in Seq(S), NEW e \in S
    PROVE  /\ Append(s, e) \in Seq(S)
           /\ Elems(Append(s, e)) = Elems(s) \cup {e}
           /\ e \notin Elems(s) => Single(Append(s, e), e)
           /\ \A x : x # e /\ Single(s, x) => Single(Append(s, e), x)
  <1> DEFINE r == Append(s, e)
  <1>1. /\ r \in Seq(S) /\ Len(s) \in Nat /\ Len(r) = Len(s) + 1 /\ r[Len(s) + 1] = e
        /\ \A k \in 1 .. Len(s) : r[k] = s[k]
    BY AppendProperties, LenProperties
  <1>2. Elems(r) = Elems(s) \cup {e}
    BY DEF Elems
  <1> HIDE DEF r
  <1>3. ASSUME e \notin Elems(s) PROVE Single(r, e)
    <2>1. \A k \in 1 .. Len(s) : s[k] # e
      BY <1>3 DEF Elems
    <2>2. \A j \in 1 .. Len(r) : r[j] = e <=> j = Len(s) + 1
      BY <1>1, <2>1
    <2>3. Len(s) + 1 \in 1 .. Len(r)
      BY <1>1
    <2>4. QED
      BY <2>2, <2>3 DEF Single
  <1>4. ASSUME NEW x, x # e, Single(s, x) PROVE Single(r, x)
    <2>1. PICK k \in 1 .. Len(s) : \A j \in 1 .. Len(s) : s[j] = x <=> j = k
      BY <1>4 DEF Single
    <2>2. k \in 1 .. Len(r)
      BY <1>1, <2>1
    <2>3. ASSUME NEW j \in 1 .. Len(r) PROVE r[j] = x <=> j = k
      <3>1. CASE j = Len(s) + 1
        BY <1>1, <1>4, <2>1, <3>1
      <3>2. CASE j # Len(s) + 1
        <4>1. j \in 1 .. Len(s)
          BY <1>1, <3>2
        <4>2. QED
          BY <1>1, <2>1, <4>1
      <3>3. QED
        BY <3>1, <3>2
    <2>4. QED
      BY <2>2, <2>3 DEF Single
  <1>5. QED
    BY <1>1, <1>2, <1>3, <1>4 DEF r

(* Dropping the head of a list. *)
LEMMA TailPlaces ==
    ASSUME NEW S, NEW s \in Seq(S), s # <<>>
    PROVE  /\ Tail(s) \in Seq(S) /\ Head(s) \in S
           /\ Elems(s) = Elems(Tail(s)) \cup {Head(s)}
           /\ Single(s, Head(s)) => Head(s) \notin Elems(Tail(s))
           /\ \A x : x # Head(s) /\ Single(s, x) => Single(Tail(s), x)
  <1> DEFINE r == Tail(s)
             h == Head(s)
  <1>1. /\ r \in Seq(S) /\ h \in S /\ Len(s) \in Nat \ {0} /\ Len(r) = Len(s) - 1 /\ h = s[1]
        /\ \A k \in 1 .. Len(r) : r[k] = s[k + 1]
    BY HeadTailProperties, EmptySeq, LenProperties
  <1> HIDE DEF r, h
  <1>2. \A k \in 1 .. Len(s) : k = 1 \/ (k - 1 \in 1 .. Len(r) /\ r[k - 1] = s[k])
    BY <1>1
  <1>3. \A k \in 1 .. Len(r) : k + 1 \in 1 .. Len(s)
    BY <1>1
  <1>4. 1 \in 1 .. Len(s)
    BY <1>1
  <1>5. ASSUME NEW x \in Elems(s) PROVE x \in Elems(r) \cup {h}
    <2>1. PICK k \in 1 .. Len(s) : x = s[k]
      BY DEF Elems
    <2>2. CASE k = 1
      BY <1>1, <2>1, <2>2
    <2>3. CASE k # 1
      BY <1>2, <2>1, <2>3 DEF Elems
    <2>4. QED
      BY <2>2, <2>3
  <1>6. ASSUME NEW x \in Elems(r) \cup {h} PROVE x \in Elems(s)
    BY <1>1, <1>3, <1>4 DEF Elems
  <1>7. ASSUME Single(s, h), h \in Elems(r) PROVE FALSE
    <2>1. PICK k \in 1 .. Len(s) : \A j \in 1 .. Len(s) : s[j] = h <=> j = k
      BY <1>7 DEF Single
    <2>2. PICK j \in 1 .. Len(r) : r[j] = h
      BY <1>7 DEF Elems
    <2>3. k = 1 /\ j + 1 = k
      BY <1>1, <1>3, <1>4, <2>1, <2>2
    <2>4. QED
      BY <2>3
  <1>8. ASSUME NEW x, x # h, Single(s, x) PROVE Single(r, x)
    <2>1. PICK k \in 1 .. Len(s) : \A j \in 1 .. Len(s) : s[j] = x <=> j = k
      BY <1>8 DEF Single
    <2>2. k # 1 /\ k - 1 \in 1 .. Len(r)
      BY <1>1, <1>2, <1>8, <2>1
    <2>3. ASSUME NEW j \in 1 .. Len(r) PROVE r[j] = x <=> j = k - 1
      <3>1. j + 1 \in 1 .. Len(s) /\ r[j] = s[j + 1]
        BY <1>1, <1>3
      <3>2. s[j + 1] = x <=> j + 1 = k
        BY <2>1, <3>1
      <3>3. QED
        BY <3>1, <3>2
    <2>4. QED
      BY <2>2, <2>3 DEF Single
  <1>9. QED
    BY <1>1, <1>5, <1>6, <1>7, <1>8 DEF r, h

(* r is s without its k-th entry. *)
Erased(r, s, k) ==
    /\ Len(s) \in Nat /\ k \in 1 .. Len(s) /\ Len(r) = Len(s) - 1
    /\ \A j \in 1 .. Len(r) : r[j] = IF j < k THEN s[j] ELSE s[j + 1]

(* Erasing an entry of a list. *)
LEMMA EraseList ==
    ASSUME NEW S, NEW s \in Seq(S), NEW k \in 1 .. Len(s)
    PROVE  LET r == SubSeq(s, 1, k - 1) \o SubSeq(s, k + 1, Len(s))
           IN  r \in Seq(S) /\ Erased(r, s, k)
  <1> DEFINE a == SubSeq(s, 1, k - 1)
             b == SubSeq(s, k + 1, Len(s))
             r == a \o b
  <1>1. Len(s) \in Nat
    BY LenProperties
  <1>2. a \in Seq(S) /\ Len(a) = k - 1 /\ \A j \in 1 .. k - 1 : a[j] = s[j]
    OBVIOUS
  <1>3. b \in Seq(S) /\ Len(b) = Len(s) - k /\ \A j \in 1 .. Len(s) - k : b[j] = s[k + j]
    OBVIOUS
  <1> HIDE DEF a, b
  <1>5. /\ r \in Seq(S) /\ Len(r) = Len(a) + Len(b)
        /\ \A j \in 1 .. Len(a) + Len(b) : r[j] = IF j <= Len(a) THEN a[j] ELSE b[j - Len(a)]
    BY <1>2, <1>3, ConcatProperties
  <1> HIDE DEF r
  <1>6. Len(r) = Len(s) - 1
    BY <1>1, <1>2, <1>3, <1>5
  <1>7. ASSUME NEW j \in 1 .. Len(r) PROVE r[j] = IF j < k THEN s[j] ELSE s[j + 1]
    <2>1. CASE j < k
      <3>1. j \in 1 .. k - 1 /\ j <= Len(a) /\ j \in 1 .. Len(a) + Len(b)
        BY <1>1, <1>2, <1>5, <2>1
      <3>2. QED
        BY <1>2, <1>5, <2>1, <3>1
    <2>2. CASE ~(j < k)
      <3>1. j - (k - 1) \in 1 .. Len(s) - k /\ ~(j <= Len(a)) /\ k + (j - (k - 1)) = j + 1
            /\ j \in 1 .. Len(a) + Len(b)
        BY <1>1, <1>2, <1>5, <1>6, <2>2
      <3>2. r[j] = b[j - (k - 1)]
        BY <1>2, <1>5, <3>1
      <3>3. b[j - (k - 1)] = s[j + 1]
        BY <1>3, <3>1
      <3>4. QED
        BY <2>2, <3>2, <3>3
    <2>3. QED
      BY <2>1, <2>2
  <1>8. QED
    BY <1>1, <1>5, <1>6, <1>7 DEF Erased, r, a, b

(* The entries that are left. *)
LEMMA ErasePlaces ==
    ASSUME NEW s, NEW k, NEW r, Erased(r, s, k)
    PROVE  /\ \A x : x # s[k] => (x \in Elems(r) <=> x \in Elems(s))
           /\ Single(s, s[k]) => s[k] \notin Elems(r)
           /\ \A x : x # s[k] /\ Single(s, x) => Single(r, x)
  <1>0. /\ Len(s) \in Nat /\ k \in 1 .. Len(s) /\ Len(r) = Len(s) - 1
        /\ \A j \in 1 .. Len(r) : r[j] = IF j < k THEN s[j] ELSE s[j + 1]
    BY DEF Erased
  <1>1. \A j \in 1 .. Len(r) : /\ j < k => j \in 1 .. Len(s) /\ r[j] = s[j]
                               /\ ~(j < k) => j + 1 \in 1 .. Len(s) /\ j + 1 # k /\ r[j] = s[j + 1]
    BY <1>0
  <1>2. \A j \in 1 .. Len(s) : /\ j < k => j \in 1 .. Len(r) /\ r[j] = s[j]
                               /\ j > k => j - 1 \in 1 .. Len(r) /\ ~(j - 1 < k) /\ r[j - 1] = s[j]
    BY <1>0
  <1>3. ASSUME NEW x, x # s[k], x \in Elems(r) PROVE x \in Elems(s)
    <2>1. PICK j \in 1 .. Len(r) : x = r[j]
      BY <1>3 DEF Elems
    <2>2. QED
      BY <1>1, <2>1 DEF Elems
  <1>4. ASSUME NEW x, x # s[k], x \in Elems(s) PROVE x \in Elems(r)
    <2>1. PICK j \in 1 .. Len(s) : x = s[j]
      BY <1>4 DEF Elems
    <2>2. j < k \/ j > k
      BY <1>0, <1>4, <2>1
    <2>3. QED
      BY <1>2, <2>1, <2>2 DEF Elems
  <1>5. ASSUME Single(s, s[k]), s[k] \in Elems(r) PROVE FALSE
    <2>1. PICK m \in 1 .. Len(s) : \A j \in 1 .. Len(s) : s[j] = s[k] <=> j = m
      BY <1>5 DEF Single
    <2>2. m = k
      BY <1>0, <2>1
    <2>3. PICK j \in 1 .. Len(r) : r[j] = s[k]
      BY <1>5 DEF Elems
    <2>4. QED
      BY <1>0, <1>1, <2>1, <2>2, <2>3
  <1>6. ASSUME NEW x, x # s[k], Single(s, x) PROVE Single(r, x)
    <2>1. PICK m \in 1 .. Len(s) : \A j \in 1 .. Len(s) : s[j] = x <=> j = m
      BY <1>6 DEF Single
    <2>2. m # k
      BY <1>6, <2>1
    <2> DEFINE n == IF m < k THEN m ELSE m - 1
    <2>3. n \in 1 .. Len(r)
      BY <1>0, <2>1, <2>2
    <2>4. ASSUME NEW j \in 1 .. Len(r) PROVE r[j] = x <=> j = n
      <3>1. CASE j < k
        <4>1. r[j] = s[j] /\ (s[j] = x <=> j = m)
          BY <1>1, <2>1, <3>1
        <4>2. QED
          BY <1>0, <2>1, <2>2, <3>1, <4>1
      <3>2. CASE ~(j < k)
        <4>1. r[j] = s[j + 1] /\ (s[j + 1] = x <=> j + 1 = m)
          BY <1>1, <2>1, <3>2
        <4>2. QED
          BY <1>0, <2>1, <2>2, <3>2, <4>1
      <3>3. QED
        BY <3>1, <3>2
    <2>5. QED
      BY <2>3, <2>4 DEF Single
  <1>7. QED
    BY <1>3, <1>4, <1>5, <1>6

-----------------------------------------------------------------------------
(* Types *)

(* A tick plus anything is a tick again. *)
LEMMA TickType ==
    ASSUME NEW c \in Ticks, NEW i \in Int
    PROVE  (c + i) % SLOTNUM \in Ticks
  BY SlotAssumption DEF Ticks

(* A slot with an entry more. *)
LEMMA SlotAppend ==
    ASSUME TypeOK, NEW i \in Ticks, NEW t \in Tasks, slot_' = [slot_ EXCEPT ![i] = Append(@, t)]
    PROVE  /\ slot_' \in [Ticks -> Seq(Tasks)]
           /\ slot_'[i] = Append(slot_[i], t)
           /\ \A j \in Ticks \ {i} : slot_'[j] = slot_[j]
  <1>1. slot_ \in [Ticks -> Seq(Tasks)] /\ slot_[i] \in Seq(Tasks)
    BY DEF TypeOK
  <1>2. Append(slot_[i], t) \in Seq(Tasks)
    BY <1>1, AppendPlaces
  <1>3. QED
    BY <1>1, <1>2

(* The fields of a Task. *)
LEMMA TaskFields ==
    ASSUME NEW r \in TaskRecord
    PROVE  /\ r.setInterval \in Nat \cup {-1} /\ r.times \in Nat \cup {-1}
           /\ r.restInterval \in Nat \cup {-1} /\ r.setTick \in Ticks \cup {-1}
           /\ r.age \in Nat /\ r.fired \in Nat /\ r.req \in Nat \cup {-1}
           /\ r.owner \in {"user", "wheel", "freed", "lost"}
  BY DEF TaskRecord

(* One Task changes and stays a Task. *)
LEMMA TaskChanged ==
    ASSUME task \in [Tasks -> TaskRecord], NEW t \in Tasks, NEW r \in TaskRecord,
           task' = [task EXCEPT ![t] = r]
    PROVE  /\ task' \in [Tasks -> TaskRecord]
           /\ task'[t] = r
           /\ \A u \in Tasks \ {t} : task'[u] = task[u]
  OBVIOUS

(* The changes of one Task. *)
LEMMA TaskUpdates ==
    ASSUME NEW r \in TaskRecord
    PROVE  /\ [r EXCEPT !.owner = "lost"] \in TaskRecord
           /\ [r EXCEPT !.owner = "user"] \in TaskRecord
           /\ [r EXCEPT !.times = 0, !.owner = "freed"] \in TaskRecord
           /\ \A n \in Nat : /\ [r EXCEPT !.age = n] \in TaskRecord
                             /\ [r EXCEPT !.fired = n] \in TaskRecord
                             /\ [r EXCEPT !.restInterval = n] \in TaskRecord
           /\ \A n \in Nat \cup {-1}, i \in Ticks, j \in Nat \cup {-1} :
                 [r EXCEPT !.times = n, !.setTick = i, !.restInterval = j, !.age = 0] \in TaskRecord
  BY ZenonT(30) DEF TaskRecord

(* What addTask does: the task, of the interval and times asked for, is
   appended to a slot. *)
Added(t, r, tick) ==
    /\ r[1] \in Nat /\ r[2] \in Nat \cup {-1}
    /\ tick = IF r[1] = 0 THEN (curTick_ + 1) % SLOTNUM ELSE (curTick_ + r[1]) % SLOTNUM
    /\ slot_' = [slot_ EXCEPT ![tick] = Append(@, t)]
    /\ task'[t].owner = "wheel" /\ task'[t].setInterval = r[1] /\ task'[t].setTick = tick
    /\ task'[t].times = r[2] /\ task'[t].req = r[2] /\ task'[t].age = 0 /\ task'[t].fired = 0
    /\ \A u \in Tasks \ {t} : task'[u] = task[u]
    /\ task' \in [Tasks -> TaskRecord]
    /\ task[t].owner = "user" /\ t \notin postponed
    /\ curSlot' = curSlot /\ pc' = pc /\ postponed' = postponed /\ curTick_' = curTick_

(* addTask. *)
LEMMA AddFacts ==
    ASSUME TypeOK, NEW t \in Tasks, NEW r \in Requests, addTask(t, r[1], r[2])
    PROVE  \E tick \in Ticks : Added(t, r, tick)
  <1> DEFINE tick == IF r[1] = 0 THEN (curTick_ + 1) % SLOTNUM ELSE (curTick_ + r[1]) % SLOTNUM
             new == [owner |-> "wheel", setInterval |-> r[1], times |-> r[2],
                     restInterval |-> r[1], setTick |-> tick, age |-> 0, fired |-> 0, req |-> r[2]]
  <1>1. r[1] \in Nat /\ r[2] \in Nat \cup {-1}
    BY RequestAssumption
  <1>2. tick \in Ticks
    <2>1. curTick_ \in Ticks
      BY DEF TypeOK
    <2>2. (curTick_ + 1) % SLOTNUM \in Ticks
      BY <2>1, TickType
    <2>3. (curTick_ + r[1]) % SLOTNUM \in Ticks
      BY <1>1, <2>1, TickType
    <2>4. QED
      BY <2>2, <2>3
  <1>3. slot_' = [slot_ EXCEPT ![tick] = Append(@, t)] /\ task' = [task EXCEPT ![t] = new]
    BY DEF addTask
  <1>4. new \in TaskRecord
    <2> HIDE DEF tick
    <2>1. QED
      BY <1>1, <1>2 DEF TaskRecord
  <1> HIDE DEF new
  <1>5. task' \in [Tasks -> TaskRecord] /\ task'[t] = new /\ \A u \in Tasks \ {t} : task'[u] = task[u]
    BY <1>3, <1>4, TaskChanged DEF TypeOK
  <1>6. /\ task'[t].owner = "wheel" /\ task'[t].setInterval = r[1] /\ task'[t].setTick = tick
        /\ task'[t].times = r[2] /\ task'[t].req = r[2] /\ task'[t].age = 0 /\ task'[t].fired = 0
    BY <1>5 DEF new
  <1>7. /\ task[t].owner = "user" /\ t \notin postponed
        /\ curSlot' = curSlot /\ pc' = pc /\ postponed' = postponed /\ curTick_' = curTick_
    BY DEF addTask
  <1>8. Added(t, r, tick)
    BY <1>1, <1>3, <1>5, <1>6, <1>7 DEF Added
  <1>9. QED
    BY <1>2, <1>8

(* What onTick does to one task as it reads the timer. *)
Aged(u) ==
    /\ task'[u].owner = task[u].owner /\ task'[u].setInterval = task[u].setInterval
    /\ task'[u].setTick = task[u].setTick /\ task'[u].times = task[u].times
    /\ task'[u].fired = task[u].fired /\ task'[u].req = task[u].req
    /\ task'[u].age = IF task[u].owner = "wheel" /\ task[u].age <= Due(u) THEN task[u].age + 1
                                                                          ELSE task[u].age

(* A tick makes every armed task older. *)
LEMMA AgeFacts ==
    ASSUME TypeOK, onTick
    PROVE  /\ task' \in [Tasks -> TaskRecord]
           /\ \A u \in Tasks : Aged(u)
  <1>1. task \in [Tasks -> TaskRecord]
    BY DEF TypeOK
  <1>2. \A u \in Tasks : task[u].age + 1 \in Nat
    BY <1>1, TaskFields
  <1>3. \A u \in Tasks : [task[u] EXCEPT !.age = task[u].age + 1] \in TaskRecord
    BY <1>1, <1>2, TaskUpdates
  <1>4. task' = [t \in Tasks |-> IF task[t].owner = "wheel" /\ task[t].age <= Due(t)
                                 THEN [task[t] EXCEPT !.age = task[t].age + 1] ELSE task[t]]
    BY DEF onTick
  <1>5. \A u \in Tasks :
           \/ task'[u] = task[u] /\ ~(task[u].owner = "wheel" /\ task[u].age <= Due(u))
           \/ /\ task'[u] = [task[u] EXCEPT !.age = task[u].age + 1]
              /\ task[u].owner = "wheel" /\ task[u].age <= Due(u)
    BY <1>4
  <1>6. ASSUME NEW u \in Tasks PROVE Aged(u)
    <2>1. task[u] \in TaskRecord
      BY <1>1
    <2>2. QED
      BY <1>5, <2>1 DEF Aged, TaskRecord
  <1>7. QED
    BY <1>1, <1>3, <1>4, <1>6

(* What initChannel does to the tasks. *)
LEMMA ForgetFacts ==
    ASSUME TypeOK, start
    PROVE  /\ task' \in [Tasks -> TaskRecord]
           /\ \A u \in Tasks :
                 \/ task'[u] = task[u] /\ \A i \in Ticks : u \notin Elems(slot_[i])
                 \/ task'[u] = [task[u] EXCEPT !.owner = "lost"] /\ \E i \in Ticks : u \in Elems(slot_[i])
  <1>1. task \in [Tasks -> TaskRecord]
    BY DEF TypeOK
  <1>2. \A u \in Tasks : [task[u] EXCEPT !.owner = "lost"] \in TaskRecord
    BY <1>1, TaskUpdates
  <1>3. task' = [t \in Tasks |-> IF \E i \in Ticks : t \in Elems(slot_[i])
                                 THEN [task[t] EXCEPT !.owner = "lost"] ELSE task[t]]
    BY DEF start, Forgotten
  <1>4. QED
    BY <1>1, <1>2, <1>3

(* The changes onTick makes to the task at the iterator, h. *)
HeadChange(h) ==
    /\ curSlot # <<>> /\ h = Head(curSlot)
    /\ \A u \in Tasks \ {h} : task'[u] = task[u]
    /\ task'[h].setInterval = task[h].setInterval /\ task'[h].req = task[h].req
    /\ task' \in [Tasks -> TaskRecord]
    /\ curTick_' = curTick_

(* It is put back. *)
PutBack(h) ==
    /\ HeadChange(h)
    /\ task'[h].owner = task[h].owner /\ task'[h].times = task[h].times
    /\ task'[h].setTick = task[h].setTick /\ task'[h].age = task[h].age
    /\ slot_' = [slot_ EXCEPT ![curTick_] = Append(@, h)] /\ postponed' = postponed \cup {h}
    /\ curSlot' = curSlot /\ pc = "process" /\ pc' = "process"

(* It is called. *)
Fires(h) ==
    /\ HeadChange(h)
    /\ task[h].owner = "wheel" /\ task'[h].owner = "wheel"
    /\ task'[h].times = task[h].times /\ task'[h].setTick = task[h].setTick /\ task'[h].age = task[h].age
    /\ task'[h].fired = IF task[h].times >= 0 THEN task[h].fired + 1 ELSE task[h].fired
    /\ slot_' = slot_ /\ postponed' = postponed
    /\ curSlot' = curSlot /\ pc = "process" /\ pc' = "callback"

(* It is deleted. *)
Deleted(h) ==
    /\ HeadChange(h)
    /\ task[h].times \in {0, 1} /\ task'[h].times = 0
    /\ task'[h].owner = "freed" /\ task'[h].fired = task[h].fired
    /\ slot_' = slot_ /\ postponed' = postponed
    /\ curSlot' = Tail(curSlot) /\ pc = "callback" /\ pc' = "process"

(* It goes into its next slot. *)
Repeated(h, tick) ==
    /\ HeadChange(h)
    /\ task[h].times \notin {0, 1}
    /\ task'[h].times = IF task[h].times > 0 THEN task[h].times - 1 ELSE task[h].times
    /\ task'[h].owner = task[h].owner /\ task'[h].fired = task[h].fired
    /\ tick = (curTick_ + task[h].setInterval) % SLOTNUM
    /\ task'[h].setTick = tick /\ task'[h].age = 0
    /\ slot_' = [slot_ EXCEPT ![tick] = Append(@, h)] /\ postponed' = postponed
    /\ curSlot' = Tail(curSlot) /\ pc = "callback" /\ pc' = "process"

(* What the iterator points at. *)
LEMMA HeadTask ==
    ASSUME TypeOK, curSlot # <<>>
    PROVE  /\ Head(curSlot) \in Tasks /\ task[Head(curSlot)] \in TaskRecord
           /\ task[Head(curSlot)].setInterval \in Nat \cup {-1} /\ task[Head(curSlot)].times \in Nat \cup {-1}
           /\ task[Head(curSlot)].restInterval \in Nat \cup {-1} /\ task[Head(curSlot)].fired \in Nat
  <1>1. curSlot \in Seq(Tasks) /\ task \in [Tasks -> TaskRecord]
    BY DEF TypeOK
  <1>2. Head(curSlot) \in Tasks
    BY <1>1, HeadTailProperties
  <1>3. task[Head(curSlot)] \in TaskRecord
    BY <1>1, <1>2
  <1>4. QED
    BY <1>2, <1>3, TaskFields

(* An entry that is not due is put back. *)
LEMMA PostponeFacts ==
    ASSUME TypeOK, tickPostpone
    PROVE  \E h \in Tasks : PutBack(h)
  <1> DEFINE h == Head(curSlot)
             r == [task[h] EXCEPT !.restInterval = task[h].restInterval - SLOTNUM]
  <1>1. /\ curSlot # <<>> /\ task[h].restInterval > SLOTNUM /\ task' = [task EXCEPT ![h] = r]
        /\ slot_' = [slot_ EXCEPT ![curTick_] = Append(@, h)] /\ postponed' = postponed \cup {h}
        /\ curSlot' = curSlot /\ pc = "process" /\ pc' = "process" /\ curTick_' = curTick_
    BY DEF tickPostpone
  <1>2. h \in Tasks /\ task[h] \in TaskRecord /\ task[h].restInterval \in Nat \cup {-1}
    BY <1>1, HeadTask
  <1>3. task[h].restInterval - SLOTNUM \in Nat
    BY <1>1, <1>2, SlotAssumption
  <1>4. r \in TaskRecord
    BY <1>2, <1>3, TaskUpdates
  <1>5. /\ r.setInterval = task[h].setInterval /\ r.req = task[h].req /\ r.owner = task[h].owner
        /\ r.times = task[h].times /\ r.setTick = task[h].setTick /\ r.age = task[h].age
    BY <1>2 DEF TaskRecord
  <1> HIDE DEF r
  <1>6. task' \in [Tasks -> TaskRecord] /\ task'[h] = r /\ \A u \in Tasks \ {h} : task'[u] = task[u]
    BY <1>1, <1>2, <1>4, TaskChanged DEF TypeOK
  <1>7. PutBack(h)
    BY <1>1, <1>5, <1>6 DEF PutBack, HeadChange
  <1>8. QED
    BY <1>2, <1>7

(* A due task is called. *)
LEMMA FireFacts ==
    ASSUME TypeOK, tickFire
    PROVE  \E h \in Tasks : Fires(h)
  <1> DEFINE h == Head(curSlot)
             n == IF task[h].times >= 0 THEN task[h].fired + 1 ELSE task[h].fired
             r == [task[h] EXCEPT !.fired = n]
  <1>1. /\ curSlot # <<>> /\ task[h].owner = "wheel" /\ task' = [task EXCEPT ![h] = r]
        /\ slot_' = slot_ /\ postponed' = postponed /\ curTick_' = curTick_
        /\ curSlot' = curSlot /\ pc = "process" /\ pc' = "callback"
    BY DEF tickFire
  <1>2. h \in Tasks /\ task[h] \in TaskRecord /\ task[h].fired \in Nat
    BY <1>1, HeadTask
  <1>3. n \in Nat
    BY <1>2
  <1> HIDE DEF n
  <1>4. r \in TaskRecord
    BY <1>2, <1>3, TaskUpdates
  <1>5. /\ r.setInterval = task[h].setInterval /\ r.req = task[h].req /\ r.owner = task[h].owner
        /\ r.times = task[h].times /\ r.setTick = task[h].setTick /\ r.age = task[h].age /\ r.fired = n
    BY <1>2 DEF TaskRecord
  <1> HIDE DEF r
  <1>6. task' \in [Tasks -> TaskRecord] /\ task'[h] = r /\ \A u \in Tasks \ {h} : task'[u] = task[u]
    BY <1>1, <1>2, <1>4, TaskChanged DEF TypeOK
  <1>7. Fires(h)
    BY <1>1, <1>5, <1>6 DEF Fires, HeadChange, n
  <1>8. QED
    BY <1>2, <1>7

(* A task that has no calls left is deleted. *)
LEMMA DeleteFacts ==
    ASSUME TypeOK, Walking, tickDelete
    PROVE  \E h \in Tasks : Deleted(h)
  <1> DEFINE h == Head(curSlot)
             r == [task[h] EXCEPT !.times = 0, !.owner = "freed"]
  <1>1. /\ curSlot # <<>> /\ task[h].times \in {0, 1} /\ task' = [task EXCEPT ![h] = r]
        /\ slot_' = slot_ /\ postponed' = postponed /\ curTick_' = curTick_
        /\ curSlot' = Tail(curSlot) /\ pc = "callback" /\ pc' = "process"
    BY DEF tickDelete, Walking
  <1>2. h \in Tasks /\ task[h] \in TaskRecord
    BY <1>1, HeadTask
  <1>3. r \in TaskRecord
    BY <1>2, TaskUpdates
  <1>4. /\ r.setInterval = task[h].setInterval /\ r.req = task[h].req /\ r.owner = "freed"
        /\ r.times = 0 /\ r.fired = task[h].fired
    BY <1>2 DEF TaskRecord
  <1> HIDE DEF r
  <1>5. task' \in [Tasks -> TaskRecord] /\ task'[h] = r /\ \A u \in Tasks \ {h} : task'[u] = task[u]
    BY <1>1, <1>2, <1>3, TaskChanged DEF TypeOK
  <1>6. Deleted(h)
    BY <1>1, <1>4, <1>5 DEF Deleted, HeadChange
  <1>7. QED
    BY <1>2, <1>6

(* A task that has is armed again. *)
LEMMA RepeatFacts ==
    ASSUME TypeOK, Walking, tickRepeat
    PROVE  \E h \in Tasks, tick \in Ticks : Repeated(h, tick)
  <1> DEFINE h == Head(curSlot)
             tick == (curTick_ + task[h].setInterval) % SLOTNUM
             n == IF task[h].times > 0 THEN task[h].times - 1 ELSE task[h].times
             r == [task[h] EXCEPT !.times = n, !.setTick = tick,
                                  !.restInterval = task[h].setInterval, !.age = 0]
  <1>1. /\ curSlot # <<>> /\ task[h].times \notin {0, 1} /\ task' = [task EXCEPT ![h] = r]
        /\ slot_' = [slot_ EXCEPT ![tick] = Append(@, h)] /\ postponed' = postponed /\ curTick_' = curTick_
        /\ curSlot' = Tail(curSlot) /\ pc = "callback" /\ pc' = "process"
    BY DEF tickRepeat, Walking
  <1>2. /\ h \in Tasks /\ task[h] \in TaskRecord
        /\ task[h].setInterval \in Nat \cup {-1} /\ task[h].times \in Nat \cup {-1}
    BY <1>1, HeadTask
  <1>3. tick \in Ticks
    <2>1. curTick_ \in Ticks /\ task[h].setInterval \in Int
      BY <1>2 DEF TypeOK
    <2>2. QED
      BY <2>1, TickType
  <1>4. n \in Nat \cup {-1}
    BY <1>2
  <1> HIDE DEF n, tick, h
  <1>5. r \in TaskRecord
    BY <1>2, <1>3, <1>4, TaskUpdates
  <1>6. /\ r.setInterval = task[h].setInterval /\ r.req = task[h].req /\ r.owner = task[h].owner
        /\ r.times = n /\ r.fired = task[h].fired /\ r.setTick = tick /\ r.age = 0
    BY <1>2 DEF TaskRecord
  <1> HIDE DEF r
  <1>7. task' \in [Tasks -> TaskRecord] /\ task'[h] = r /\ \A u \in Tasks \ {h} : task'[u] = task[u]
    BY <1>1, <1>2, <1>5, TaskChanged DEF TypeOK
  <1>8. HeadChange(h)
    BY <1>1, <1>6, <1>7 DEF HeadChange, h
  <1>9. Repeated(h, tick)
    BY <1>1, <1>6, <1>7, <1>8 DEF Repeated, n, tick
  <1>10. QED
    BY <1>2, <1>3, <1>9

(* Every step keeps the types. *)
LEMMA TypeStep ==
    ASSUME TypeOK, Walking, [Next]_vars
    PROVE  TypeOK' /\ Walking'
  <1>0. SLOTNUM \in Nat \ {0} /\ curTick_ \in Ticks /\ clock \in Ticks /\ curSlot \in Seq(Tasks)
    BY SlotAssumption DEF TypeOK
  <1>1. curSlot # <<>> => Tail(curSlot) \in Seq(Tasks)
    BY <1>0, HeadTailProperties
  <1>2. CASE start
    <2>1. slot_' \in [Ticks -> Seq(Tasks)]
      BY <1>2 DEF start, EmptyWheel
    <2>2. task' \in [Tasks -> TaskRecord]
      BY <1>2, ForgetFacts
    <2>3. QED
      BY <1>2, <2>1, <2>2 DEF start, TypeOK, Walking
  <1>3. CASE stop
    <2>1. clock + SLOTNUM * exp - exp \in Int
      BY <1>0 DEF TypeOK, Ticks
    <2>2. clock' \in Ticks
      BY <1>0, <1>3, <2>1 DEF stop, Ticks
    <2>3. QED
      BY <1>3, <2>2 DEF stop, TypeOK, Walking
  <1>4. ASSUME NEW t \in Tasks, NEW r \in Requests, addTask(t, r[1], r[2])
        PROVE  TypeOK' /\ Walking'
    <2>1. PICK tick \in Ticks : Added(t, r, tick)
      BY <1>4, AddFacts
    <2>2. slot_' \in [Ticks -> Seq(Tasks)] /\ task' \in [Tasks -> TaskRecord]
      BY <2>1, SlotAppend DEF Added
    <2>3. UNCHANGED <<curTick_, isWorking_, exp, pc, curSlot, clock, postponed>>
      BY <1>4 DEF addTask
    <2>4. QED
      BY <2>1, <2>2, <2>3 DEF TypeOK, Walking
  <1>5. ASSUME NEW t \in Tasks, removeTask(t) PROVE TypeOK' /\ Walking'
    <2>1. slot_' \in [Ticks -> Seq(Tasks)]
      <3> DEFINE s == slot_[task[t].setTick]
      <3>1. PICK k \in 1 .. Len(s) :
               slot_' = [slot_ EXCEPT ![task[t].setTick] = SubSeq(s, 1, k - 1) \o SubSeq(s, k + 1, Len(s))]
        BY <1>5 DEF removeTask
      <3>2. task[t].setTick \in Ticks => SubSeq(s, 1, k - 1) \o SubSeq(s, k + 1, Len(s)) \in Seq(Tasks)
        BY EraseList DEF TypeOK
      <3>3. QED
        BY <3>1, <3>2 DEF TypeOK
    <2>2. task \in [Tasks -> TaskRecord] /\ task' = [task EXCEPT ![t] = [task[t] EXCEPT !.owner = "user"]]
      BY <1>5 DEF removeTask, TypeOK
    <2>3. task' \in [Tasks -> TaskRecord]
      BY <2>2, TaskUpdates, TaskChanged
    <2>4. UNCHANGED <<curTick_, isWorking_, exp, pc, curSlot, clock, postponed>>
      BY <1>5 DEF removeTask
    <2>5. QED
      BY <2>1, <2>3, <2>4 DEF TypeOK, Walking
  <1>6. CASE Expire
    <2>1. (clock + 1) % SLOTNUM \in Ticks
      BY <1>0, TickType
    <2>2. QED
      BY <1>6, <2>1 DEF Expire, TypeOK, Walking
  <1>7. CASE onTick
    <2>1. (curTick_ + 1) % SLOTNUM \in Ticks
      BY <1>0, TickType
    <2>2. curSlot' \in Seq(Tasks) /\ slot_' \in [Ticks -> Seq(Tasks)] /\ curTick_' \in Ticks
      BY <1>7, <2>1 DEF onTick, TypeOK
    <2>3. task' \in [Tasks -> TaskRecord]
      BY <1>7, AgeFacts
    <2>4. QED
      BY <1>7, <2>2, <2>3 DEF onTick, TypeOK, Walking
  <1>8. CASE tickPostpone
    <2>1. PICK h \in Tasks : PutBack(h)
      BY <1>8, PostponeFacts
    <2>2. slot_' \in [Ticks -> Seq(Tasks)] /\ task' \in [Tasks -> TaskRecord] /\ postponed' = postponed \cup {h}
      BY <1>0, <2>1, SlotAppend DEF PutBack, HeadChange
    <2>3. UNCHANGED <<curTick_, isWorking_, exp, pc, curSlot, clock>>
      BY <1>8 DEF tickPostpone
    <2>4. QED
      BY <2>1, <2>2, <2>3 DEF TypeOK, Walking
  <1>9. CASE tickFire \/ tickDelete
    <2>1. task' \in [Tasks -> TaskRecord]
      BY <1>9, FireFacts, DeleteFacts DEF Fires, Deleted, HeadChange
    <2>2. /\ UNCHANGED <<slot_, curTick_, isWorking_, exp, clock, postponed>>
          /\ curSlot # <<>> /\ curSlot' \in Seq(Tasks) /\ pc' \in {"process", "callback"}
          /\ pc' = "callback" => curSlot' = curSlot
      BY <1>0, <1>1, <1>9 DEF tickFire, tickDelete, Walking
    <2>3. QED
      BY <2>1, <2>2 DEF TypeOK, Walking
  <1>10. CASE tickRepeat
    <2>1. PICK h \in Tasks, tick \in Ticks : Repeated(h, tick)
      BY <1>10, RepeatFacts
    <2>2. slot_' \in [Ticks -> Seq(Tasks)] /\ task' \in [Tasks -> TaskRecord]
      BY <2>1, SlotAppend DEF Repeated, HeadChange
    <2>3. /\ UNCHANGED <<curTick_, isWorking_, exp, clock, postponed>>
          /\ curSlot' \in Seq(Tasks) /\ pc' = "process"
      BY <1>1, <1>10 DEF tickRepeat, Walking
    <2>4. QED
      BY <2>1, <2>2, <2>3 DEF TypeOK, Walking
  <1>11. CASE tickDone \/ UNCHANGED vars
    BY <1>11 DEF tickDone, vars, TypeOK, Walking
  <1>12. QED
    BY <1>2, <1>3, <1>4, <1>5, <1>6, <1>7, <1>8, <1>9, <1>10, <1>11 DEF Next, TickStep

-----------------------------------------------------------------------------
(* Entries *)

(* A step that leaves the entries of u where they are. *)
SameLists(u) ==
    /\ u \in Elems(curSlot') <=> u \in Elems(curSlot)
    /\ Single(curSlot, u) => Single(curSlot', u)
    /\ \A i \in Ticks : /\ u \in Elems(slot_'[i]) <=> u \in Elems(slot_[i])
                        /\ Single(slot_[i], u) => Single(slot_'[i], u)

(* A task with which the step has nothing to do. *)
LEMMA FrameLists ==
    ASSUME NEW u \in Tasks, Once(u), Counted(u), task'[u] = task[u], SameLists(u),
           u \in postponed' <=> u \in postponed, Called(u)' <=> Called(u)
    PROVE  Once(u)' /\ Counted(u)'
  <1>1. Once(u)'
    <2>1. Nowhere(u) => Nowhere(u)'
      BY DEF Nowhere, SameLists
    <2>2. InWalk(u) => InWalk(u)'
      BY DEF InWalk, SameLists
    <2>3. InSlot(u) => InSlot(u)'
      BY DEF InSlot, SameLists
    <2>4. QED
      BY <2>1, <2>2, <2>3 DEF Once
  <1>2. Counted(u)'
    BY DEF Counted
  <1>3. QED
    BY <1>1, <1>2

(* Its time, while no tick passes. *)
LEMMA FrameTime ==
    ASSUME NEW u \in Tasks, OnTime(u), ZeroOnce(u), task'[u] = task[u], SameLists(u), curTick_' = curTick_
    PROVE  OnTime(u)' /\ ZeroOnce(u)'
  <1>1. Due(u)' = Due(u)
    BY DEF Due
  <1>2. Reach(u) => Reach(u)'
    BY <1>1 DEF Reach, Ahead
  <1>3. OnTime(u)'
    BY <1>1, <1>2 DEF OnTime, SameLists
  <1>4. QED
    BY <1>3 DEF ZeroOnce

(* Nothing is moved. *)
LEMMA SameUnchanged ==
    ASSUME NEW u \in Tasks, curSlot' = curSlot, slot_' = slot_
    PROVE  SameLists(u)
  BY DEF SameLists, Elems, Single

(* Another task's entry is appended. *)
LEMMA SameAppend ==
    ASSUME TypeOK, NEW i \in Ticks, NEW t \in Tasks, slot_' = [slot_ EXCEPT ![i] = Append(@, t)],
           NEW u \in Tasks \ {t},
           \/ curSlot' = curSlot
           \/ curSlot # <<>> /\ curSlot' = Tail(curSlot) /\ u # Head(curSlot)
    PROVE  SameLists(u)
  <1>1. /\ slot_'[i] = Append(slot_[i], t) /\ slot_[i] \in Seq(Tasks) /\ curSlot \in Seq(Tasks)
        /\ \A j \in Ticks \ {i} : slot_'[j] = slot_[j]
    BY SlotAppend DEF TypeOK
  <1>2. /\ Elems(Append(slot_[i], t)) = Elems(slot_[i]) \cup {t}
        /\ Single(slot_[i], u) => Single(Append(slot_[i], t), u)
    BY <1>1, AppendPlaces
  <1>3. /\ u \in Elems(slot_'[i]) <=> u \in Elems(slot_[i])
        /\ Single(slot_[i], u) => Single(slot_'[i], u)
    BY <1>1, <1>2
  <1>4. \A j \in Ticks \ {i} : /\ u \in Elems(slot_'[j]) <=> u \in Elems(slot_[j])
                               /\ Single(slot_[j], u) => Single(slot_'[j], u)
    BY <1>1
  <1>5. /\ u \in Elems(curSlot') <=> u \in Elems(curSlot)
        /\ Single(curSlot, u) => Single(curSlot', u)
    <2>1. CASE curSlot' = curSlot
      BY <2>1 DEF Elems, Single
    <2>2. CASE curSlot # <<>> /\ curSlot' = Tail(curSlot) /\ u # Head(curSlot)
      <3>1. /\ Elems(curSlot) = Elems(Tail(curSlot)) \cup {Head(curSlot)}
            /\ Single(curSlot, u) => Single(Tail(curSlot), u)
        BY <1>1, <2>2, TailPlaces
      <3>2. QED
        BY <2>2, <3>1
    <2>3. QED
      BY <2>1, <2>2
  <1>6. QED
    BY <1>3, <1>4, <1>5 DEF SameLists

(* The iterator moves on from another task. *)
LEMMA SameTail ==
    ASSUME TypeOK, slot_' = slot_, curSlot # <<>>, curSlot' = Tail(curSlot),
           NEW u \in Tasks, u # Head(curSlot)
    PROVE  SameLists(u)
  <1>1. curSlot \in Seq(Tasks)
    BY DEF TypeOK
  <1>2. /\ Elems(curSlot) = Elems(Tail(curSlot)) \cup {Head(curSlot)}
        /\ Single(curSlot, u) => Single(Tail(curSlot), u)
    BY <1>1, TailPlaces
  <1>3. \A j \in Ticks : /\ u \in Elems(slot_'[j]) <=> u \in Elems(slot_[j])
                         /\ Single(slot_[j], u) => Single(slot_'[j], u)
    OBVIOUS
  <1>4. QED
    BY <1>2, <1>3 DEF SameLists

(* Another task's entry is erased; the erased task's own slot has one entry
   less. *)
LEMMA RemoveFacts ==
    ASSUME TypeOK, Placed, NEW t \in Tasks, removeTask(t)
    PROVE  /\ \A u \in Tasks \ {t} : SameLists(u) /\ task'[u] = task[u]
           /\ task'[t] = [task[t] EXCEPT !.owner = "user"]
           /\ InSlot(t) => \A i \in Ticks : t \notin Elems(slot_'[i])
           /\ \E i \in Ticks : t \in Elems(slot_[i])
           /\ curSlot' = curSlot /\ pc' = pc /\ postponed' = postponed /\ curTick_' = curTick_
           /\ task[t].owner = "wheel"
  <1> DEFINE n == task[t].setTick
             s == slot_[n]
  <1>0. /\ slot_ \in [Ticks -> Seq(Tasks)] /\ task \in [Tasks -> TaskRecord]
        /\ curSlot' = curSlot /\ pc' = pc /\ postponed' = postponed /\ curTick_' = curTick_
        /\ task[t].owner = "wheel" /\ task' = [task EXCEPT ![t] = [task[t] EXCEPT !.owner = "user"]]
    BY DEF removeTask, TypeOK
  <1>1. PICK k \in 1 .. Len(s) :
           s[k] = t /\ slot_' = [slot_ EXCEPT ![n] = SubSeq(s, 1, k - 1) \o SubSeq(s, k + 1, Len(s))]
    BY DEF removeTask
  <1>2. /\ task'[t] = [task[t] EXCEPT !.owner = "user"]
        /\ \A u \in Tasks \ {t} : task'[u] = task[u]
    BY <1>0, TaskUpdates, TaskChanged
  <1>3. CASE n \in Ticks
    <2> DEFINE r == SubSeq(s, 1, k - 1) \o SubSeq(s, k + 1, Len(s))
    <2>1. s \in Seq(Tasks)
      BY <1>0, <1>3
    <2>2. r \in Seq(Tasks) /\ Erased(r, s, k)
      BY <2>1, EraseList
    <2>3. slot_'[n] = r /\ \A j \in Ticks \ {n} : slot_'[j] = slot_[j]
      BY <1>0, <1>1, <1>3
    <2> HIDE DEF r
    <2>4. /\ \A x : x # s[k] => (x \in Elems(r) <=> x \in Elems(s))
          /\ Single(s, s[k]) => s[k] \notin Elems(r)
          /\ \A x : x # s[k] /\ Single(s, x) => Single(r, x)
      BY <2>2, ErasePlaces
    <2>5. ASSUME NEW u \in Tasks \ {t} PROVE SameLists(u)
      <3>1. /\ u \in Elems(slot_'[n]) <=> u \in Elems(slot_[n])
            /\ Single(slot_[n], u) => Single(slot_'[n], u)
        BY <1>1, <2>3, <2>4
      <3>2. \A j \in Ticks \ {n} : /\ u \in Elems(slot_'[j]) <=> u \in Elems(slot_[j])
                                   /\ Single(slot_[j], u) => Single(slot_'[j], u)
        BY <2>3
      <3>3. /\ u \in Elems(curSlot') <=> u \in Elems(curSlot)
            /\ Single(curSlot, u) => Single(curSlot', u)
        BY <1>0
      <3>4. QED
        BY <3>1, <3>2, <3>3 DEF SameLists
    <2>6. ASSUME InSlot(t), NEW i \in Ticks PROVE t \notin Elems(slot_'[i])
      <3>1. CASE i = n
        BY <1>1, <2>3, <2>4, <2>6, <3>1 DEF InSlot
      <3>2. CASE i # n
        BY <2>3, <2>6, <3>2 DEF InSlot
      <3>3. QED
        BY <3>1, <3>2
    <2>7. t \in Elems(slot_[n])
      BY <1>1 DEF Elems
    <2>8. QED
      BY <1>0, <1>2, <1>3, <2>5, <2>6, <2>7
  <1>4. QED
    BY <1>0, <1>3 DEF Placed

(* Every step leaves the tasks of the wheel with a slot. *)
LEMMA PlacedStep ==
    ASSUME TypeOK, Walking, Placed, [Next]_vars
    PROVE  Placed'
  <1>0. task \in [Tasks -> TaskRecord]
    BY DEF TypeOK
  <1>1. CASE start
    BY <1>0, <1>1, ForgetFacts, TaskFields DEF Placed, TaskRecord
  <1>2. ASSUME NEW t \in Tasks, NEW r \in Requests, addTask(t, r[1], r[2]) PROVE Placed'
    <2>1. PICK tick \in Ticks : Added(t, r, tick)
      BY <1>2, AddFacts
    <2>2. QED
      BY <2>1 DEF Placed, Added
  <1>3. ASSUME NEW t \in Tasks, removeTask(t) PROVE Placed'
    <2>1. task'[t].owner = "user" /\ \A u \in Tasks \ {t} : task'[u] = task[u]
      BY <1>0, <1>3, RemoveFacts DEF TaskRecord
    <2>2. QED
      BY <2>1 DEF Placed
  <1>4. CASE onTick
    <2>1. \A u \in Tasks : task'[u].owner = task[u].owner /\ task'[u].setTick = task[u].setTick
      BY <1>4, AgeFacts DEF Aged
    <2>2. QED
      BY <2>1 DEF Placed
  <1>5. CASE tickPostpone \/ tickFire \/ tickDelete \/ tickRepeat
    <2>1. PICK h \in Tasks : PutBack(h) \/ Fires(h) \/ Deleted(h) \/ \E tick \in Ticks : Repeated(h, tick)
      BY <1>5, PostponeFacts, FireFacts, DeleteFacts, RepeatFacts
    <2>2. \A u \in Tasks \ {h} : task'[u] = task[u]
      BY <2>1 DEF PutBack, Fires, Deleted, Repeated, HeadChange
    <2>3. \/ task'[h].owner = task[h].owner /\ task'[h].setTick = task[h].setTick
          \/ task'[h].owner = "freed"
          \/ task'[h].setTick \in Ticks
      BY <2>1 DEF PutBack, Fires, Deleted, Repeated
    <2>4. QED
      BY <2>2, <2>3 DEF Placed
  <1>6. CASE stop \/ Expire \/ tickDone \/ UNCHANGED vars
    BY <1>6 DEF stop, Expire, tickDone, vars, Placed
  <1>7. QED
    BY <1>1, <1>2, <1>3, <1>4, <1>5, <1>6 DEF Next, TickStep

(* What is in a sequence once is in it. *)
LEMMA SingleIn ==
    ASSUME NEW s, NEW x, Single(s, x)
    PROVE  x \in Elems(s)
  BY DEF Single, Elems

(* A task at the iterator that was never put back is the wheel's, and has this
   entry only. *)
LEMMA HeadOnce ==
    ASSUME ListInv, curSlot # <<>>, NEW h \in Tasks \ postponed, h = Head(curSlot)
    PROVE  task[h].owner = "wheel" /\ InWalk(h) /\ h \notin Elems(Tail(curSlot))
  <1>1. curSlot \in Seq(Tasks) /\ Once(h)
    BY DEF ListInv, TypeOK
  <1>2. /\ Elems(curSlot) = Elems(Tail(curSlot)) \cup {h}
        /\ Single(curSlot, h) => h \notin Elems(Tail(curSlot))
    BY <1>1, TailPlaces
  <1>3. QED
    BY <1>1, <1>2 DEF Once, Nowhere, InWalk, InSlot

(* A new task is listed once. *)
LEMMA AddOnce ==
    ASSUME ListInv, NEW t \in Tasks, NEW r \in Requests, addTask(t, r[1], r[2]), NEW u \in Tasks
    PROVE  Once(u)' /\ Counted(u)'
  <1>1. PICK tick \in Ticks : Added(t, r, tick)
    BY AddFacts DEF ListInv
  <1>2. TypeOK /\ Once(u) /\ Counted(u)
    BY DEF ListInv
  <1>3. CASE u # t
    <2>1. SameLists(u)
      BY <1>1, <1>2, <1>3, SameAppend DEF Added
    <2>2. task'[u] = task[u] /\ (u \in postponed' <=> u \in postponed) /\ (Called(u)' <=> Called(u))
      BY <1>1, <1>3 DEF Added, Called
    <2>3. QED
      BY <1>2, <2>1, <2>2, FrameLists
  <1>4. CASE u = t
    <2>1. Nowhere(t)
      BY <1>1, <1>2, <1>4 DEF Added, Once
    <2>2. /\ slot_[tick] \in Seq(Tasks) /\ slot_'[tick] = Append(slot_[tick], t)
          /\ \A j \in Ticks \ {tick} : slot_'[j] = slot_[j]
      BY <1>1, <1>2, SlotAppend DEF Added, TypeOK
    <2>3. Single(slot_'[tick], t)
      BY <2>1, <2>2, AppendPlaces DEF Nowhere
    <2>4. \A j \in Ticks \ {tick} : t \notin Elems(slot_'[j])
      BY <2>1, <2>2 DEF Nowhere
    <2>5. t \notin Elems(curSlot')
      BY <1>1, <2>1 DEF Nowhere, Added
    <2>6. InSlot(t)'
      BY <1>1, <2>3, <2>4, <2>5 DEF InSlot, Added
    <2>7. ~Called(t)'
      <3>1. ASSUME pc = "callback", Head(curSlot) = t PROVE FALSE
        <4>1. curSlot # <<>> /\ curSlot \in Seq(Tasks)
          BY <1>2, <3>1 DEF ListInv, Walking, TypeOK
        <4>2. t \in Elems(curSlot)
          BY <3>1, <4>1, TailPlaces
        <4>3. QED
          BY <2>1, <4>2 DEF Nowhere
      <3>2. QED
        BY <1>1, <3>1 DEF Called, Added
    <2>8. Counted(t)'
      BY <1>1, <2>7 DEF Counted, Added
    <2>9. Once(t)'
      BY <1>1, <2>6 DEF Once, Added
    <2>10. QED
      BY <1>4, <2>8, <2>9
  <1>5. QED
    BY <1>3, <1>4

(* A removed task is listed no more. *)
LEMMA RemoveOnce ==
    ASSUME ListInv, NEW t \in Tasks, removeTask(t), NEW u \in Tasks
    PROVE  Once(u)' /\ Counted(u)'
  <1>1. /\ \A w \in Tasks \ {t} : SameLists(w) /\ task'[w] = task[w]
        /\ task'[t] = [task[t] EXCEPT !.owner = "user"]
        /\ InSlot(t) => \A i \in Ticks : t \notin Elems(slot_'[i])
        /\ \E i \in Ticks : t \in Elems(slot_[i])
        /\ curSlot' = curSlot /\ pc' = pc /\ postponed' = postponed
        /\ task[t].owner = "wheel"
    BY RemoveFacts DEF ListInv
  <1>2. TypeOK /\ Once(u) /\ Counted(u)
    BY DEF ListInv
  <1>3. CASE u # t
    <2>1. SameLists(u) /\ task'[u] = task[u]
      BY <1>1, <1>3
    <2>2. (u \in postponed' <=> u \in postponed) /\ (Called(u)' <=> Called(u))
      BY <1>1 DEF Called
    <2>3. QED
      BY <1>2, <2>1, <2>2, FrameLists
  <1>4. CASE u = t
    <2>1. task'[t].owner = "user"
      BY <1>1, <1>2 DEF TypeOK, TaskRecord
    <2>2. t \notin postponed => InSlot(t)
      BY <1>1, <1>2, <1>4 DEF Once, InWalk
    <2>3. t \notin postponed => Nowhere(t)'
      BY <1>1, <2>2 DEF Nowhere, InSlot
    <2>4. Once(t)' /\ Counted(t)'
      BY <1>1, <2>1, <2>3 DEF Once, Counted
    <2>5. QED
      BY <1>4, <2>4
  <1>5. QED
    BY <1>3, <1>4

(* start forgets the tasks in the slots. *)
LEMMA StartOnce ==
    ASSUME ListInv, start, NEW u \in Tasks
    PROVE  Once(u)' /\ Counted(u)'
  <1>1. TypeOK /\ Once(u) /\ Counted(u)
    BY DEF ListInv
  <1>2. /\ slot_' = EmptyWheel /\ curSlot' = curSlot /\ pc' = pc /\ postponed' = postponed
    BY DEF start
  <1>3. \A i \in Ticks : u \notin Elems(slot_'[i])
    BY <1>2 DEF EmptyWheel, Elems
  <1>4. \/ task'[u] = task[u] /\ \A i \in Ticks : u \notin Elems(slot_[i])
        \/ task'[u] = [task[u] EXCEPT !.owner = "lost"] /\ \E i \in Ticks : u \in Elems(slot_[i])
    BY <1>1, ForgetFacts
  <1>5. CASE task'[u] = task[u] /\ \A i \in Ticks : u \notin Elems(slot_[i])
    <2>1. ~InSlot(u)
      BY <1>5, SingleIn DEF InSlot
    <2>2. (InWalk(u) => InWalk(u)') /\ (Nowhere(u) => Nowhere(u)')
      BY <1>2, <1>3 DEF InWalk, Nowhere, Elems, Single
    <2>3. Once(u)'
      BY <1>1, <1>2, <1>5, <2>1, <2>2 DEF Once
    <2>4. Counted(u)'
      BY <1>1, <1>2, <1>5 DEF Counted, Called
    <2>5. QED
      BY <2>3, <2>4
  <1>6. CASE task'[u] = [task[u] EXCEPT !.owner = "lost"] /\ \E i \in Ticks : u \in Elems(slot_[i])
    <2>1. task'[u].owner = "lost"
      BY <1>1, <1>6 DEF TypeOK, TaskRecord
    <2>2. u \notin postponed => InSlot(u)
      BY <1>1, <1>6 DEF Once, InWalk, Nowhere
    <2>3. u \notin postponed => Nowhere(u)'
      BY <1>2, <1>3, <2>2 DEF Nowhere, InSlot
    <2>4. QED
      BY <1>2, <2>1, <2>3 DEF Once, Counted
  <1>7. QED
    BY <1>4, <1>5, <1>6

(* onTick takes over the entries of the slot. *)
LEMMA TickOnce ==
    ASSUME ListInv, onTick, NEW u \in Tasks
    PROVE  Once(u)' /\ Counted(u)'
  <1> DEFINE tick == (curTick_ + 1) % SLOTNUM
  <1>1. TypeOK /\ Once(u) /\ Counted(u)
    BY DEF ListInv
  <1>2. tick \in Ticks
    <2>1. curTick_ \in Ticks
      BY <1>1 DEF TypeOK
    <2>2. QED
      BY <2>1, TickType
  <1>3. /\ pc = "idle" /\ pc' \in {"idle", "process"} /\ postponed' = postponed
        /\ curSlot' = slot_[tick] /\ slot_' = [slot_ EXCEPT ![tick] = <<>>]
    BY DEF onTick
  <1> HIDE DEF tick
  <1>4. slot_'[tick] = <<>> /\ \A i \in Ticks \ {tick} : slot_'[i] = slot_[i]
    BY <1>1, <1>2, <1>3 DEF TypeOK
  <1>5. \A i \in Ticks : u \notin Elems(slot_[i]) => u \notin Elems(slot_'[i])
    <2>1. u \notin Elems(<<>>)
      BY DEF Elems
    <2>2. QED
      BY <1>4, <2>1
  <1>6. curSlot = <<>> /\ ~Single(curSlot, u)
    BY <1>3 DEF ListInv, Walking, Single
  <1>7. Aged(u)
    BY <1>1, AgeFacts
  <1>8. Counted(u)'
    BY <1>1, <1>3, <1>7 DEF Counted, Aged, Called
  <1>9. Nowhere(u) => Nowhere(u)'
    BY <1>2, <1>3, <1>5 DEF Nowhere
  <1>10. InSlot(u) => InSlot(u)' \/ InWalk(u)'
    <2>1. SUFFICES ASSUME InSlot(u) PROVE InSlot(u)' \/ InWalk(u)'
      OBVIOUS
    <2>2. task'[u].setTick = task[u].setTick
      BY <1>7 DEF Aged
    <2>3. CASE task[u].setTick = tick
      <3>1. Single(curSlot', u)
        BY <1>3, <2>1, <2>3 DEF InSlot
      <3>2. u \notin Elems(slot_'[tick])
        BY <1>4 DEF Elems
      <3>3. \A i \in Ticks : u \notin Elems(slot_'[i])
        BY <1>4, <2>1, <2>3, <3>2 DEF InSlot
      <3>4. QED
        BY <3>1, <3>3 DEF InWalk
    <2>4. CASE task[u].setTick # tick
      <3>1. u \notin Elems(curSlot')
        BY <1>2, <1>3, <2>1, <2>4 DEF InSlot
      <3>2. Single(slot_'[task[u].setTick], u)
        BY <1>4, <2>1, <2>4 DEF InSlot
      <3>3. QED
        BY <1>5, <2>1, <2>2, <3>1, <3>2 DEF InSlot
    <2>5. QED
      BY <2>3, <2>4
  <1>11. Once(u)'
    BY <1>1, <1>3, <1>6, <1>7, <1>9, <1>10 DEF Once, InWalk, Aged
  <1>12. QED
    BY <1>8, <1>11

(* The turn of onTick on one entry. *)
LEMMA WalkOnce ==
    ASSUME ListInv, tickPostpone \/ tickFire \/ tickDelete \/ tickRepeat, NEW u \in Tasks
    PROVE  Once(u)' /\ Counted(u)'
  <1>1. TypeOK /\ Walking /\ Once(u) /\ Counted(u) /\ curTick_ \in Ticks
    BY DEF ListInv, TypeOK
  <1>2. CASE tickPostpone
    <2>1. PICK h \in Tasks : PutBack(h)
      BY <1>1, <1>2, PostponeFacts
    <2>2. CASE u = h
      BY <2>1, <2>2 DEF PutBack, Once, Counted
    <2>3. CASE u # h
      <3>1. SameLists(u)
        BY <1>1, <2>1, <2>3, SameAppend DEF PutBack
      <3>2. task'[u] = task[u] /\ (u \in postponed' <=> u \in postponed) /\ (Called(u)' <=> Called(u))
        BY <2>1, <2>3 DEF PutBack, HeadChange, Called
      <3>3. QED
        BY <1>1, <3>1, <3>2, FrameLists
    <2>4. QED
      BY <2>2, <2>3
  <1>3. CASE tickFire
    <2>1. PICK h \in Tasks : Fires(h)
      BY <1>1, <1>3, FireFacts
    <2>2. SameLists(u)
      BY <2>1, SameUnchanged DEF Fires
    <2>3. CASE u = h
      <3>1. Once(h)'
        <4>1. (InWalk(h) => InWalk(h)') /\ (InSlot(h) => InSlot(h)')
          BY <2>1, <2>2, <2>3 DEF InWalk, InSlot, SameLists, Fires
        <4>2. QED
          BY <1>1, <2>1, <2>3, <4>1 DEF Once, Fires
      <3>2. Counted(h)'
        <4>1. task[h].fired \in Nat /\ task[h].times \in Nat \cup {-1} /\ task[h].req \in Nat \cup {-1}
          BY <1>1, TaskFields DEF TypeOK
        <4>2. Called(h)' /\ ~Called(h)
          BY <2>1 DEF Fires, HeadChange, Called
        <4>3. task'[h].req = task[h].req
          BY <2>1 DEF Fires, HeadChange
        <4>4. QED
          BY <1>1, <2>1, <2>3, <4>1, <4>2, <4>3 DEF Counted, Fires
      <3>3. QED
        BY <2>3, <3>1, <3>2
    <2>4. CASE u # h
      <3>1. task'[u] = task[u] /\ (u \in postponed' <=> u \in postponed) /\ (Called(u)' <=> Called(u))
        BY <2>1, <2>4 DEF Fires, HeadChange, Called
      <3>2. QED
        BY <1>1, <2>2, <3>1, FrameLists
    <2>5. QED
      BY <2>3, <2>4
  <1>4. CASE tickDelete
    <2>1. PICK h \in Tasks : Deleted(h)
      BY <1>1, <1>4, DeleteFacts
    <2>2. CASE u = h /\ h \notin postponed
      <3>1. task[h].owner = "wheel" /\ InWalk(h) /\ h \notin Elems(Tail(curSlot))
        BY <2>1, <2>2, HeadOnce DEF Deleted, HeadChange
      <3>2. Nowhere(h)'
        BY <2>1, <3>1 DEF Nowhere, InWalk, Deleted
      <3>3. task[h].fired \in Nat /\ task[h].req \in Nat \cup {-1}
        BY <1>1, TaskFields DEF TypeOK
      <3>4. Called(h) /\ task'[h].req = task[h].req
        BY <2>1 DEF Deleted, HeadChange, Called
      <3>5. Counted(h)'
        BY <1>1, <2>1, <2>2, <3>1, <3>3, <3>4 DEF Counted, Deleted
      <3>6. Once(h)'
        BY <2>1, <3>2 DEF Once, Deleted
      <3>7. QED
        BY <2>2, <3>5, <3>6
    <2>3. CASE u = h /\ h \in postponed
      BY <2>1, <2>3 DEF Deleted, Once, Counted
    <2>4. CASE u # h
      <3>1. SameLists(u)
        BY <1>1, <2>1, <2>4, SameTail DEF Deleted, HeadChange
      <3>2. task'[u] = task[u] /\ (u \in postponed' <=> u \in postponed) /\ (Called(u)' <=> Called(u))
        BY <2>1, <2>4 DEF Deleted, HeadChange, Called
      <3>3. QED
        BY <1>1, <3>1, <3>2, FrameLists
    <2>5. QED
      BY <2>2, <2>3, <2>4
  <1>5. CASE tickRepeat
    <2>1. PICK h \in Tasks, tick \in Ticks : Repeated(h, tick)
      BY <1>1, <1>5, RepeatFacts
    <2>2. CASE u = h /\ h \notin postponed
      <3>1. task[h].owner = "wheel" /\ InWalk(h) /\ h \notin Elems(Tail(curSlot))
        BY <2>1, <2>2, HeadOnce DEF Repeated, HeadChange
      <3>2. /\ slot_[tick] \in Seq(Tasks) /\ slot_'[tick] = Append(slot_[tick], h)
            /\ \A j \in Ticks \ {tick} : slot_'[j] = slot_[j]
        BY <1>1, <2>1, SlotAppend DEF Repeated, TypeOK
      <3>3. Single(slot_'[tick], h)
        BY <3>1, <3>2, AppendPlaces DEF InWalk
      <3>4. \A j \in Ticks \ {tick} : h \notin Elems(slot_'[j])
        BY <3>1, <3>2 DEF InWalk
      <3>5. h \notin Elems(curSlot')
        BY <2>1, <3>1 DEF Repeated
      <3>6. InSlot(h)'
        BY <2>1, <3>3, <3>4, <3>5 DEF InSlot, Repeated
      <3>7. task[h].fired \in Nat /\ task[h].req \in Nat \cup {-1} /\ task[h].times \in Nat \cup {-1}
        BY <1>1, TaskFields DEF TypeOK
      <3>8. Called(h) /\ ~Called(h)' /\ task'[h].req = task[h].req
        BY <2>1 DEF Repeated, HeadChange, Called
      <3>9. Counted(h)'
        <4>1. /\ task'[h].times = IF task[h].times > 0 THEN task[h].times - 1 ELSE task[h].times
              /\ task'[h].owner = "wheel" /\ task'[h].fired = task[h].fired /\ task[h].times \notin {0, 1}
          BY <2>1, <3>1 DEF Repeated
        <4>2. task[h].times >= 0 => task[h].fired + task[h].times = task[h].req + 1 /\ task[h].req # 0
          BY <1>1, <2>2, <3>1, <3>7, <3>8, <4>1 DEF Counted
        <4>3. task'[h].times >= 0 =>
                 /\ task'[h].fired + task'[h].times = task'[h].req
                 /\ task'[h].times # 0 /\ task'[h].req # 0
          BY <3>7, <3>8, <4>1, <4>2
        <4>4. QED
          BY <3>8, <4>1, <4>3 DEF Counted
      <3>10. Once(h)'
        BY <2>1, <3>1, <3>6 DEF Once, Repeated
      <3>11. QED
        BY <2>2, <3>9, <3>10
    <2>3. CASE u = h /\ h \in postponed
      BY <2>1, <2>3 DEF Repeated, Once, Counted
    <2>4. CASE u # h
      <3>1. SameLists(u)
        BY <1>1, <2>1, <2>4, SameAppend DEF Repeated, HeadChange
      <3>2. task'[u] = task[u] /\ (u \in postponed' <=> u \in postponed) /\ (Called(u)' <=> Called(u))
        BY <2>1, <2>4 DEF Repeated, HeadChange, Called
      <3>3. QED
        BY <1>1, <3>1, <3>2, FrameLists
    <2>5. QED
      BY <2>2, <2>3, <2>4
  <1>6. QED
    BY <1>2, <1>3, <1>4, <1>5

(* Every step keeps the entries in order. *)
LEMMA ListStep == ListInv /\ [Next]_vars => ListInv'
  <1> SUFFICES ASSUME ListInv, [Next]_vars PROVE ListInv'
    OBVIOUS
  <1>1. TypeOK' /\ Walking' /\ Placed'
    BY TypeStep, PlacedStep DEF ListInv
  <1>2. ASSUME NEW u \in Tasks PROVE Once(u)' /\ Counted(u)'
    <2>1. Once(u) /\ Counted(u)
      BY DEF ListInv
    <2>2. CASE stop \/ Expire \/ tickDone \/ UNCHANGED vars
      <3>1. /\ curSlot' = curSlot /\ slot_' = slot_ /\ task' = task /\ postponed' = postponed
            /\ pc' = pc \/ (pc = "process" /\ pc' = "idle")
        BY <2>2 DEF stop, Expire, tickDone, vars
      <3>2. SameLists(u)
        BY <3>1, SameUnchanged
      <3>3. QED
        BY <2>1, <3>1, <3>2, FrameLists DEF Called
    <2>3. QED
      BY <2>2, StartOnce, AddOnce, RemoveOnce, TickOnce, WalkOnce DEF Next, TickStep
  <1>3. QED
    BY <1>1, <1>2 DEF ListInv

(* The empty wheel. *)
LEMMA InitList == Init => ListInv
  <1> SUFFICES ASSUME Init PROVE ListInv
    OBVIOUS
  <1>1. NewTask \in TaskRecord
    BY DEF NewTask, TaskRecord
  <1>2. task \in [Tasks -> TaskRecord] /\ \A t \in Tasks : task[t].owner = "user"
    BY <1>1 DEF Init, NewTask
  <1>3. slot_ \in [Ticks -> Seq(Tasks)] /\ curSlot \in Seq(Tasks)
    BY DEF Init, EmptyWheel
  <1>4. 0 \in Ticks
    BY SlotAssumption DEF Ticks
  <1>5. TypeOK
    BY <1>2, <1>3, <1>4 DEF Init, TypeOK
  <1>6. Walking /\ Placed
    BY <1>2 DEF Init, Walking, Placed
  <1>7. ASSUME NEW t \in Tasks PROVE Once(t) /\ Counted(t)
    <2>1. Nowhere(t)
      BY DEF Init, EmptyWheel, Nowhere, Elems
    <2>2. QED
      BY <1>2, <2>1 DEF Once, Counted
  <1>8. QED
    BY <1>5, <1>6, <1>7 DEF ListInv

(* The lists are in order in every reachable state. *)
THEOREM ListInvariance == Spec => []ListInv
  BY InitList, ListStep, PTL DEF Spec

(* Every variable of the wheel keeps its type, for any number of slots. *)
THEOREM TypeCorrect == Spec => []TypeOK
  <1>1. ListInv => TypeOK
    BY DEF ListInv
  <1>2. QED
    BY <1>1, ListInvariance, PTL

(* No task pointer dangles and none is doubled, for any number of slots, tasks
   and intervals, whatever the callbacks add, remove, start and stop. *)
THEOREM ListedOnceHolds == Spec => []ListedOnce
  <1>1. ListInv => ListedOnce
    <2> SUFFICES ASSUME ListInv, NEW t \in Tasks, t \notin postponed
                 PROVE  IF task[t].owner = "wheel"
                        THEN \E p \in Places(t) : Places(t) = {p} /\ p[1] \in {-1, task[t].setTick}
                        ELSE Places(t) = {}
      BY DEF ListedOnce
    <2>1. Once(t)
      BY DEF ListInv
    <2>2. ASSUME NEW p PROVE p \in Places(t) <=>
             \/ \E i \in Ticks : \E k \in 1 .. Len(slot_[i]) : slot_[i][k] = t /\ p = <<i, k>>
             \/ \E k \in 1 .. Len(curSlot) : curSlot[k] = t /\ p = <<-1, k>>
      BY DEF Places
    <2>3. CASE Nowhere(t)
      <3>1. Places(t) = {}
        BY <2>2, <2>3 DEF Nowhere, Elems
      <3>2. QED
        BY <2>1, <2>3, <3>1 DEF Once, Nowhere, InWalk, InSlot, Single, Elems
    <2>4. CASE InWalk(t)
      <3>1. PICK k \in 1 .. Len(curSlot) : \A j \in 1 .. Len(curSlot) : curSlot[j] = t <=> j = k
        BY <2>4 DEF InWalk, Single
      <3>2. \A i \in Ticks : \A j \in 1 .. Len(slot_[i]) : slot_[i][j] # t
        BY <2>4 DEF InWalk, Elems
      <3>3. <<-1, k>> \in Places(t)
        BY <2>2, <3>1
      <3>4. ASSUME NEW q \in Places(t) PROVE q = <<-1, k>>
        BY <2>2, <3>1, <3>2
      <3>5. Places(t) = {<<-1, k>>}
        BY <3>3, <3>4
      <3>6. task[t].owner = "wheel"
        BY <2>1, <2>4, SingleIn DEF Once, Nowhere, InWalk
      <3>7. QED
        BY <3>3, <3>5, <3>6
    <2>5. CASE InSlot(t)
      <3> DEFINE n == task[t].setTick
      <3>1. PICK k \in 1 .. Len(slot_[n]) : \A j \in 1 .. Len(slot_[n]) : slot_[n][j] = t <=> j = k
        BY <2>5 DEF InSlot, Single
      <3>2. /\ \A i \in Ticks \ {n} : \A j \in 1 .. Len(slot_[i]) : slot_[i][j] # t
            /\ \A j \in 1 .. Len(curSlot) : curSlot[j] # t
            /\ n \in Ticks
        BY <2>5 DEF InSlot, Elems
      <3> HIDE DEF n
      <3>3. <<n, k>> \in Places(t)
        BY <2>2, <3>1, <3>2
      <3>4. ASSUME NEW q \in Places(t) PROVE q = <<n, k>>
        BY <2>2, <3>1, <3>2
      <3>5. Places(t) = {<<n, k>>}
        BY <3>3, <3>4
      <3>6. task[t].owner = "wheel"
        BY <2>1, <2>5, SingleIn DEF Once, Nowhere, InSlot
      <3>7. QED
        BY <3>3, <3>5, <3>6 DEF n
    <2>6. QED
      BY <2>1, <2>3, <2>4, <2>5 DEF Once
  <1>2. QED
    BY <1>1, ListInvariance, PTL

(* A task is deleted by onTick after exactly the calls it asked for, or after one
   if it asked for none, for every number of tasks and slots. *)
THEOREM FiresExactlyTimesHolds == Spec => []FiresExactlyTimes
  <1>1. ListInv => FiresExactlyTimes
    BY DEF ListInv, Counted, FiresExactlyTimes
  <1>2. QED
    BY <1>1, ListInvariance, PTL

-----------------------------------------------------------------------------
(* Time *)

(* The slot n ticks from now is reached after n ticks, or a whole number of
   turns earlier. *)
LEMMA AheadBy ==
    ASSUME NEW c \in Ticks, NEW n \in Nat \ {0}
    PROVE  \E d \in 1 .. SLOTNUM :
              Ahead(c, (c + n) % SLOTNUM, d) /\ d <= n /\ (n <= SLOTNUM => d = n)
  <1> DEFINE s == (c + n) % SLOTNUM
  <1>1. SLOTNUM \in Nat \ {0} /\ c \in Nat /\ c < SLOTNUM
    BY SlotAssumption DEF Ticks
  <1>2. s \in Ticks
    BY TickType
  <1>3. CASE n <= SLOTNUM
    <2>1. s = c + n \/ s = c + n - SLOTNUM
      <3>1. CASE c + n < SLOTNUM
        BY <1>1, <3>1
      <3>2. CASE c + n >= SLOTNUM
        <4>1. c + n < 2 * SLOTNUM
          BY <1>1, <1>3
        <4>2. QED
          BY <1>1, <3>2, <4>1
      <3>3. QED
        BY <1>1, <3>1, <3>2
    <2> HIDE DEF s
    <2>2. n \in 1 .. SLOTNUM
      BY <1>1, <1>3
    <2>3. QED
      BY <2>1, <2>2 DEF Ahead, s
  <1>4. CASE n > SLOTNUM
    <2> HIDE DEF s
    <2> DEFINE d == IF s > c THEN s - c ELSE s - c + SLOTNUM
    <2>1. d \in 1 .. SLOTNUM /\ d <= n /\ ~(n <= SLOTNUM) /\ (s = c + d \/ s = c + d - SLOTNUM)
      BY <1>1, <1>2, <1>4 DEF Ticks
    <2>2. QED
      BY <2>1 DEF Ahead, s
  <1>5. QED
    BY <1>1, <1>3, <1>4

(* One tick brings every slot one step nearer. *)
LEMMA AheadTick ==
    ASSUME NEW c \in Ticks, NEW s \in Ticks, NEW d \in 1 .. SLOTNUM, Ahead(c, s, d)
    PROVE  /\ d = 1 <=> s = (c + 1) % SLOTNUM
           /\ d # 1 => Ahead((c + 1) % SLOTNUM, s, d - 1)
  <1>1. SLOTNUM \in Nat \ {0} /\ c \in Nat /\ c < SLOTNUM /\ s \in Nat /\ s < SLOTNUM
    BY SlotAssumption DEF Ticks
  <1>2. (c + 1) % SLOTNUM = IF c + 1 < SLOTNUM THEN c + 1 ELSE 0
    <2>1. CASE c + 1 < SLOTNUM
      BY <1>1, <2>1
    <2>2. CASE ~(c + 1 < SLOTNUM)
      <3>1. c + 1 = SLOTNUM
        BY <1>1, <2>2
      <3>2. SLOTNUM % SLOTNUM = 0
        BY <1>1
      <3>3. QED
        BY <2>2, <3>1, <3>2
    <2>3. QED
      BY <2>1, <2>2
  <1> DEFINE e == (c + 1) % SLOTNUM
  <1>3. e = IF c + 1 < SLOTNUM THEN c + 1 ELSE 0
    BY <1>2
  <1> HIDE DEF e
  <1>4. (d = 1 <=> s = e) /\ (d # 1 => Ahead(e, s, d - 1))
    BY <1>1, <1>3 DEF Ahead
  <1>5. QED
    BY <1>4 DEF e

(* A task that has just got its entry is on time. *)
LEMMA FreshOnTime ==
    ASSUME TypeOK, NEW t \in Tasks, NEW i \in Ticks, curTick_' = curTick_,
           slot_' = [slot_ EXCEPT ![i] = Append(@, t)], task'[t].setTick = i, task'[t].age = 0,
           task'[t].setInterval \in Nat, i = (curTick_ + Due(t)') % SLOTNUM
    PROVE  OnTime(t)'
  <1>1. Due(t)' \in Nat \ {0} /\ (task'[t].setInterval <= SLOTNUM => Due(t)' <= SLOTNUM)
    BY SlotAssumption DEF Due
  <1>2. PICK d \in 1 .. SLOTNUM :
           Ahead(curTick_, i, d) /\ d <= Due(t)' /\ (Due(t)' <= SLOTNUM => d = Due(t)')
    BY <1>1, AheadBy, SMTT(20) DEF TypeOK
  <1>3. 0 + d = d
    BY <1>2
  <1>4. Reach(t)'
    BY <1>1, <1>2, <1>3 DEF Reach, Ahead
  <1>5. slot_[i] \in Seq(Tasks) /\ slot_'[i] = Append(slot_[i], t)
    BY SlotAppend DEF TypeOK
  <1>6. t \in Elems(slot_'[i])
    BY <1>5, AppendPlaces
  <1>7. QED
    BY <1>4, <1>6 DEF OnTime

(* A tick keeps every task on time. *)
LEMMA TickOnTime ==
    ASSUME ListInv, onTick, NEW u \in Tasks, OnTime(u)
    PROVE  OnTime(u)'
  <1> DEFINE tick == (curTick_ + 1) % SLOTNUM
  <1>0. TypeOK /\ curTick_ \in Ticks
    BY DEF ListInv, TypeOK
  <1>1. tick \in Ticks
    BY <1>0, TickType
  <1>2. /\ pc = "idle" /\ curTick_' = tick
        /\ curSlot' = slot_[tick] /\ slot_' = [slot_ EXCEPT ![tick] = <<>>]
    BY DEF onTick
  <1>3. \A i \in Ticks \ {tick} : slot_'[i] = slot_[i]
    BY <1>0, <1>1, <1>2 DEF TypeOK
  <1>4. Aged(u) /\ task[u].age \in Nat /\ task[u].setInterval \in Nat \cup {-1}
    BY <1>0, AgeFacts, TaskFields DEF TypeOK
  <1>5. SUFFICES ASSUME task[u].owner = "wheel" PROVE OnTime(u)'
    BY <1>4 DEF OnTime, Aged
  <1>6. curSlot = <<>> /\ u \notin Elems(curSlot)
    BY <1>2 DEF ListInv, Walking, Elems
  <1>7. /\ task[u].setTick \in Ticks /\ task[u].setInterval \in Nat
        /\ u \in Elems(slot_[task[u].setTick]) /\ Reach(u)
    BY <1>5, <1>6 DEF OnTime
  <1>8. PICK d \in 1 .. SLOTNUM :
           /\ Ahead(curTick_, task[u].setTick, d)
           /\ task[u].age + d <= Due(u)
           /\ task[u].setInterval <= SLOTNUM => task[u].age + d = Due(u)
    BY <1>7 DEF Reach
  <1>9. /\ d = 1 <=> task[u].setTick = tick
        /\ d # 1 => Ahead(tick, task[u].setTick, d - 1)
    BY <1>0, <1>7, <1>8, AheadTick
  <1> HIDE DEF tick
  <1>10. Due(u) \in Nat /\ Due(u)' = Due(u)
    BY <1>4, <1>7 DEF Due, Aged
  <1>11. /\ task'[u].age = task[u].age + 1 /\ task'[u].setTick = task[u].setTick
         /\ task'[u].setInterval = task[u].setInterval
    <2>1. task[u].age <= Due(u)
      BY <1>4, <1>8, <1>10
    <2>2. QED
      BY <1>4, <1>5, <2>1 DEF Aged
  <1>12. CASE d = 1
    <2>1. u \in Elems(curSlot')
      BY <1>2, <1>7, <1>9, <1>12
    <2>2. task'[u].age <= Due(u)' /\ (task'[u].setInterval <= SLOTNUM => task'[u].age = Due(u)')
      BY <1>8, <1>10, <1>11, <1>12
    <2>3. QED
      BY <1>7, <1>11, <2>1, <2>2 DEF OnTime
  <1>13. CASE d # 1
    <2>1. u \in Elems(slot_'[task'[u].setTick])
      BY <1>3, <1>7, <1>9, <1>11, <1>13
    <2>2. /\ d - 1 \in 1 .. SLOTNUM /\ task'[u].age + (d - 1) <= Due(u)'
          /\ task'[u].setInterval <= SLOTNUM => task'[u].age + (d - 1) = Due(u)'
      BY <1>4, <1>8, <1>10, <1>11, <1>13, SlotAssumption
    <2>3. Ahead(curTick_', task'[u].setTick, d - 1)
      BY <1>2, <1>9, <1>11, <1>13
    <2>4. Reach(u)'
      BY <2>2, <2>3 DEF Reach, Ahead
    <2>5. QED
      BY <1>7, <1>11, <2>1, <2>4 DEF OnTime
  <1>14. QED
    BY <1>12, <1>13

(* A step that keeps the fields of u that tell its time, the current tick, and
   the entries of u, or adds some. *)
LEMMA KeptOnTime ==
    ASSUME NEW u \in Tasks, OnTime(u), curTick_' = curTick_,
           task'[u].owner = task[u].owner, task'[u].setTick = task[u].setTick,
           task'[u].age = task[u].age, task'[u].setInterval = task[u].setInterval,
           u \in Elems(curSlot) => u \in Elems(curSlot'),
           \A i \in Ticks : u \in Elems(slot_[i]) => u \in Elems(slot_'[i])
    PROVE  OnTime(u)'
  <1>1. Due(u)' = Due(u)
    BY DEF Due
  <1>2. Reach(u) => Reach(u)'
    BY <1>1 DEF Reach, Ahead
  <1>3. QED
    BY <1>1, <1>2 DEF OnTime

(* onTick keeps every task on time while it walks its list. *)
LEMMA WalkOnTime ==
    ASSUME ListInv, tickPostpone \/ tickFire \/ tickDelete \/ tickRepeat,
           NEW u \in Tasks, OnTime(u), ZeroOnce(u)
    PROVE  OnTime(u)' /\ ZeroOnce(u)'
  <1>1. TypeOK /\ Walking /\ curTick_ \in Ticks
    BY DEF ListInv, TypeOK
  <1>2. CASE tickPostpone
    <2>1. PICK h \in Tasks : PutBack(h)
      BY <1>1, <1>2, PostponeFacts
    <2>2. CASE u = h
      <3>1. /\ slot_[curTick_] \in Seq(Tasks) /\ slot_'[curTick_] = Append(slot_[curTick_], h)
            /\ \A j \in Ticks \ {curTick_} : slot_'[j] = slot_[j]
        BY <1>1, <2>1, SlotAppend DEF PutBack, TypeOK
      <3>2. h \in Elems(slot_'[curTick_])
        BY <3>1, AppendPlaces
      <3>3. \A i \in Ticks : h \in Elems(slot_[i]) => h \in Elems(slot_'[i])
        BY <3>1, <3>2
      <3>4. /\ curTick_' = curTick_ /\ curSlot' = curSlot
            /\ task'[h].owner = task[h].owner /\ task'[h].setTick = task[h].setTick
            /\ task'[h].age = task[h].age /\ task'[h].setInterval = task[h].setInterval
            /\ task'[h].times = task[h].times
        BY <2>1 DEF PutBack, HeadChange
      <3>5. OnTime(h)'
        BY <2>2, <3>3, <3>4, KeptOnTime
      <3>6. QED
        BY <2>2, <3>4, <3>5 DEF ZeroOnce
    <2>3. CASE u # h
      <3>1. SameLists(u)
        BY <1>1, <2>1, <2>3, SameAppend DEF PutBack
      <3>2. task'[u] = task[u] /\ curTick_' = curTick_
        BY <2>1, <2>3 DEF PutBack, HeadChange
      <3>3. QED
        BY <3>1, <3>2, FrameTime
    <2>4. QED
      BY <2>2, <2>3
  <1>3. CASE tickFire
    <2>1. PICK h \in Tasks : Fires(h)
      BY <1>1, <1>3, FireFacts
    <2>2. /\ curTick_' = curTick_ /\ curSlot' = curSlot /\ slot_' = slot_
          /\ task'[u].owner = task[u].owner /\ task'[u].setTick = task[u].setTick
          /\ task'[u].age = task[u].age /\ task'[u].setInterval = task[u].setInterval
          /\ task'[u].times = task[u].times
      BY <2>1 DEF Fires, HeadChange
    <2>3. OnTime(u)'
      BY <2>2, KeptOnTime
    <2>4. QED
      BY <2>2, <2>3 DEF ZeroOnce
  <1>4. CASE tickDelete
    <2>1. PICK h \in Tasks : Deleted(h)
      BY <1>1, <1>4, DeleteFacts
    <2>2. CASE u = h
      BY <2>1, <2>2 DEF Deleted, OnTime, ZeroOnce
    <2>3. CASE u # h
      <3>1. SameLists(u)
        BY <1>1, <2>1, <2>3, SameTail DEF Deleted, HeadChange
      <3>2. task'[u] = task[u] /\ curTick_' = curTick_
        BY <2>1, <2>3 DEF Deleted, HeadChange
      <3>3. QED
        BY <3>1, <3>2, FrameTime
    <2>4. QED
      BY <2>2, <2>3
  <1>5. CASE tickRepeat
    <2>1. PICK h \in Tasks, tick \in Ticks : Repeated(h, tick)
      BY <1>1, <1>5, RepeatFacts
    <2>2. CASE u = h
      <3>1. /\ task[h].times \notin {0, 1} /\ task'[h].setInterval = task[h].setInterval
            /\ task'[h].owner = task[h].owner /\ curTick_' = curTick_
            /\ tick = (curTick_ + task[h].setInterval) % SLOTNUM
            /\ task'[h].setTick = tick /\ task'[h].age = 0
            /\ slot_' = [slot_ EXCEPT ![tick] = Append(@, h)]
        BY <2>1 DEF Repeated, HeadChange
      <3>2. task[h].setInterval # 0
        BY <2>2, <3>1 DEF ZeroOnce
      <3>3. ZeroOnce(h)'
        BY <3>1, <3>2 DEF ZeroOnce
      <3>4. CASE task[h].owner # "wheel"
        BY <2>2, <3>1, <3>3, <3>4 DEF OnTime
      <3>5. CASE task[h].owner = "wheel"
        <4>1. task'[h].setInterval \in Nat
          BY <2>2, <3>1, <3>5 DEF OnTime
        <4>2. Due(h)' = task[h].setInterval
          BY <3>1, <3>2 DEF Due
        <4>3. OnTime(h)'
          BY <1>1, <3>1, <4>1, <4>2, FreshOnTime
        <4>4. QED
          BY <2>2, <3>3, <4>3
      <3>6. QED
        BY <3>4, <3>5
    <2>3. CASE u # h
      <3>1. SameLists(u)
        BY <1>1, <2>1, <2>3, SameAppend DEF Repeated, HeadChange
      <3>2. task'[u] = task[u] /\ curTick_' = curTick_
        BY <2>1, <2>3 DEF Repeated, HeadChange
      <3>3. QED
        BY <3>1, <3>2, FrameTime
    <2>4. QED
      BY <2>2, <2>3
  <1>6. QED
    BY <1>2, <1>3, <1>4, <1>5

(* So does every step, when no task of interval zero is repeated. *)
LEMMA TimeStep ==
    ASSUME ZeroOnlyOnce, ListInv, TimeInv, [Next]_vars
    PROVE  TimeInv'
  <1> SUFFICES ASSUME NEW u \in Tasks PROVE OnTime(u)' /\ ZeroOnce(u)'
    BY DEF TimeInv
  <1>1. TypeOK /\ Placed /\ OnTime(u) /\ ZeroOnce(u) /\ task \in [Tasks -> TaskRecord]
    BY DEF ListInv, TimeInv, TypeOK
  <1>2. CASE start
    <2>1. curSlot' = curSlot
      BY <1>2 DEF start
    <2>2. CASE task'[u] = task[u] /\ \A i \in Ticks : u \notin Elems(slot_[i])
      <3>1. Due(u)' = Due(u)
        BY <2>2 DEF Due
      <3>2. OnTime(u)'
        BY <1>1, <2>1, <2>2, <3>1 DEF OnTime
      <3>3. QED
        BY <1>1, <2>2, <3>2 DEF ZeroOnce
    <2>3. CASE task'[u] = [task[u] EXCEPT !.owner = "lost"]
      <3>1. /\ task'[u].owner = "lost" /\ task'[u].setInterval = task[u].setInterval
            /\ task'[u].times = task[u].times
        BY <1>1, <2>3 DEF TaskRecord
      <3>2. QED
        BY <1>1, <3>1 DEF OnTime, ZeroOnce
    <2>4. QED
      BY <1>1, <1>2, <2>2, <2>3, ForgetFacts
  <1>3. ASSUME NEW t \in Tasks, NEW r \in Requests, addTask(t, r[1], r[2])
        PROVE  OnTime(u)' /\ ZeroOnce(u)'
    <2>1. PICK tick \in Ticks : Added(t, r, tick)
      BY <1>1, <1>3, AddFacts
    <2>2. CASE u = t
      <3>1. /\ task'[t].setInterval = r[1] /\ r[1] \in Nat /\ task'[t].times = r[2]
            /\ tick = IF r[1] = 0 THEN (curTick_ + 1) % SLOTNUM ELSE (curTick_ + r[1]) % SLOTNUM
            /\ curTick_' = curTick_ /\ task'[t].setTick = tick /\ task'[t].age = 0
            /\ slot_' = [slot_ EXCEPT ![tick] = Append(@, t)]
        BY <2>1 DEF Added
      <3>2. Due(t)' = IF r[1] = 0 THEN 1 ELSE r[1]
        BY <3>1 DEF Due
      <3>3. tick = (curTick_ + Due(t)') % SLOTNUM
        BY <3>1, <3>2
      <3>4. OnTime(t)'
        BY <1>1, <3>1, <3>3, FreshOnTime
      <3>5. ZeroOnce(t)'
        BY <3>1 DEF ZeroOnce, ZeroOnlyOnce
      <3>6. QED
        BY <2>2, <3>4, <3>5
    <2>3. CASE u # t
      <3>1. SameLists(u)
        BY <1>1, <2>1, <2>3, SameAppend DEF Added
      <3>2. task'[u] = task[u] /\ curTick_' = curTick_
        BY <2>1, <2>3 DEF Added
      <3>3. QED
        BY <1>1, <3>1, <3>2, FrameTime
    <2>4. QED
      BY <2>2, <2>3
  <1>4. ASSUME NEW t \in Tasks, removeTask(t) PROVE OnTime(u)' /\ ZeroOnce(u)'
    <2>1. /\ \A w \in Tasks \ {t} : SameLists(w) /\ task'[w] = task[w]
          /\ task'[t] = [task[t] EXCEPT !.owner = "user"] /\ curTick_' = curTick_
      BY <1>1, <1>4, RemoveFacts
    <2>2. CASE u = t
      <3>1. /\ task'[u].owner = "user" /\ task'[u].setInterval = task[u].setInterval
            /\ task'[u].times = task[u].times
        BY <1>1, <2>1, <2>2 DEF TaskRecord
      <3>2. QED
        BY <1>1, <3>1 DEF OnTime, ZeroOnce
    <2>3. CASE u # t
      BY <1>1, <2>1, <2>3, FrameTime
    <2>4. QED
      BY <2>2, <2>3
  <1>5. CASE onTick
    <2>1. OnTime(u)'
      BY <1>1, <1>5, TickOnTime
    <2>2. Aged(u)
      BY <1>1, <1>5, AgeFacts
    <2>3. QED
      BY <1>1, <2>1, <2>2 DEF Aged, ZeroOnce
  <1>6. CASE stop \/ Expire \/ tickDone \/ UNCHANGED vars
    <2>1. curSlot' = curSlot /\ slot_' = slot_ /\ task' = task /\ curTick_' = curTick_
      BY <1>6 DEF stop, Expire, tickDone, vars
    <2>2. SameLists(u)
      BY <2>1, SameUnchanged
    <2>3. QED
      BY <1>1, <2>1, <2>2, FrameTime
  <1>7. CASE tickPostpone \/ tickFire \/ tickDelete \/ tickRepeat
    BY <1>1, <1>7, WalkOnTime
  <1>8. QED
    BY <1>2, <1>3, <1>4, <1>5, <1>6, <1>7 DEF Next, TickStep

(* Tasks fire on their tick, for any number of slots, tasks and intervals: the
   slot arithmetic of addTask and the tick of onTick agree, as long as the
   application does not ask for a repeated task of interval zero. *)
THEOREM FiresWhenDueHolds ==
    ASSUME ZeroOnlyOnce
    PROVE  Spec => []FiresWhenDue
  <1>1. Init => ListInv /\ TimeInv
    <2>1. Init => TimeInv
      <3> SUFFICES ASSUME Init, NEW t \in Tasks PROVE OnTime(t) /\ ZeroOnce(t)
        BY DEF TimeInv
      <3>1. task[t].owner = "user" /\ task[t].times = 1
        BY DEF Init, NewTask
      <3>2. QED
        BY <3>1 DEF OnTime, ZeroOnce
    <2>2. QED
      BY <2>1, InitList
  <1>2. ListInv /\ TimeInv /\ [Next]_vars => (ListInv /\ TimeInv)'
    BY ListStep, TimeStep
  <1>3. ListInv /\ TimeInv => FiresWhenDue
    <2> SUFFICES ASSUME ListInv, TimeInv, NEW t \in Tasks, task[t].owner = "wheel"
                 PROVE  /\ task[t].age <= Due(t)
                        /\ t \notin postponed /\ task[t].setInterval <= SLOTNUM =>
                              (t \in Elems(curSlot) <=> task[t].age = Due(t))
      BY DEF FiresWhenDue
    <2>1. OnTime(t) /\ Once(t) /\ task[t].age \in Nat
      BY TaskFields DEF ListInv, TimeInv, TypeOK
    <2>2. CASE /\ t \in Elems(curSlot) /\ task[t].age <= Due(t)
               /\ task[t].setInterval <= SLOTNUM => task[t].age = Due(t)
      BY <2>2
    <2>3. CASE t \in Elems(slot_[task[t].setTick]) /\ Reach(t) /\ task[t].setTick \in Ticks
      <3>1. Due(t) \in Int
        BY <2>1 DEF OnTime, Due
      <3>2. PICK d \in 1 .. SLOTNUM : task[t].age + d <= Due(t)
        BY <2>3 DEF Reach
      <3>3. task[t].age < Due(t)
        BY <2>1, <3>1, <3>2, SlotAssumption
      <3>4. t \notin postponed => t \notin Elems(curSlot)
        BY <2>1, <2>3 DEF Once, InWalk, InSlot
      <3>5. QED
        BY <2>1, <3>1, <3>3, <3>4
    <2>4. QED
      BY <2>1, <2>2, <2>3 DEF OnTime
  <1>4. QED
    BY <1>1, <1>2, <1>3, PTL DEF Spec
=============================================================================
