---------------------------- MODULE ThreadsProofs ----------------------------
(* Proofs about Semaphore, ELThreadpool and Dns, for every value of their
   constants. *)
EXTENDS Semaphore, ELThreadpool, Dns, SequenceTheorems, FiniteSetTheorems, NaturalsInduction,
        TLAPS

(* Semaphore.  With single-unit calls NoSleeperBesideUnits is inductive relative
   to the type invariant; need is then one everywhere. *)

(* The signal wakes a waiter and moves nobody else. *)
LEMMA SignalFacts ==
    ASSUME NEW p \in [Takers -> {"idle", "lock", "wait"}], NEW q, Signal(p, q)
    PROVE  /\ q \in [Takers -> {"idle", "lock", "wait"}]
           /\ Waiting(p) # {} => \E t \in Takers : q[t] = "lock"
           /\ Waiting(p) = {} => Waiting(q) = {}
BY DEF Signal, Waiting

(* Every reachable state of take and give is well typed: in particular the
   unsigned resources_ never wraps below zero, whatever the units asked for. *)
THEOREM TypeCorrect == Spec => []TypeOK
<1>1. Init => TypeOK
  BY MaxUnitsAssumption DEF Init, TypeOK
<1>2. TypeOK /\ [Next]_vars => TypeOK'
  <2>. SUFFICES ASSUME TypeOK, [Next]_vars PROVE TypeOK'
    OBVIOUS
  <2>. USE UnitsAssumption DEF TypeOK
  <2>1. ASSUME NEW r \in Units, give(r) PROVE TypeOK'
    BY <2>1, SignalFacts DEF give
  <2>2. ASSUME NEW t \in Takers, NEW r \in Units, take(t, r) PROVE TypeOK'
    BY <2>2 DEF take
  <2>3. ASSUME NEW t \in Takers, takeWait(t) PROVE TypeOK'
    BY <2>3 DEF takeWait
  <2>4. ASSUME NEW t \in Takers, takeDone(t) PROVE TypeOK'
    <3>0. need[t] \in Nat
      BY UnitsAssumption
    <3>1. resources_' \in Nat
      BY <2>4, <3>0 DEF takeDone
    <3>2. pc' \in [Takers -> {"idle", "lock", "wait"}]
      BY <2>4, SignalFacts DEF takeDone
    <3>. QED BY <2>4, <3>1, <3>2 DEF takeDone
  <2>5. ASSUME NEW t \in Takers, SpuriousWakeup(t) PROVE TypeOK'
    BY <2>5 DEF SpuriousWakeup
  <2>6. CASE UNCHANGED vars
    BY <2>6 DEF vars
  <2>. QED BY <2>1, <2>2, <2>3, <2>4, <2>5, <2>6 DEF Next, TakerStep
<1>. QED BY <1>1, <1>2, PTL DEF Spec

(* The lost-signal argument for any number of threads: while there are units, a
   sleeping taker implies one that is awake (take, give, single-unit calls). *)
THEOREM NoSleeperBesideUnitsHolds == Spec => []NoSleeperBesideUnits
<1>1. Init => NoSleeperBesideUnits
  BY DEF Init, NoSleeperBesideUnits, Waiting
<1>2. TypeOK /\ NoSleeperBesideUnits /\ [Next]_vars => NoSleeperBesideUnits'
  <2>. SUFFICES ASSUME TypeOK, NoSleeperBesideUnits, [Next]_vars,
                       Units = {1}, resources_' > 0, Waiting(pc') # {}
                PROVE  \E u \in Takers : pc'[u] = "lock"
    BY DEF NoSleeperBesideUnits, Waiting
  <2>0. \A t \in Takers : need[t] = 1
    BY DEF TypeOK
  <2>. USE DEF TypeOK
  <2>1. ASSUME NEW r \in Units, give(r) PROVE \E u \in Takers : pc'[u] = "lock"
    BY <2>1, SignalFacts DEF give
  <2>2. ASSUME NEW t \in Takers, NEW r \in Units, take(t, r)
        PROVE  \E u \in Takers : pc'[u] = "lock"
    BY <2>2 DEF take
  <2>3. ASSUME NEW t \in Takers, takeWait(t) PROVE \E u \in Takers : pc'[u] = "lock"
    BY <2>0, <2>3 DEF takeWait
  <2>4. ASSUME NEW t \in Takers, takeDone(t) PROVE \E u \in Takers : pc'[u] = "lock"
    <3>1. [pc EXCEPT ![t] = "idle"] \in [Takers -> {"idle", "lock", "wait"}]
      OBVIOUS
    <3>2. Signal([pc EXCEPT ![t] = "idle"], pc')
      BY <2>4 DEF takeDone
    <3>. QED BY <3>1, <3>2, SignalFacts
  <2>5. ASSUME NEW t \in Takers, SpuriousWakeup(t)
        PROVE  \E u \in Takers : pc'[u] = "lock"
    BY <2>5 DEF SpuriousWakeup
  <2>6. CASE UNCHANGED vars
    BY <2>6 DEF vars, NoSleeperBesideUnits, Waiting
  <2>. QED BY <2>1, <2>2, <2>3, <2>4, <2>5, <2>6 DEF Next, TakerStep
<1>. QED BY <1>1, <1>2, TypeCorrect, PTL DEF Spec

-----------------------------------------------------------------------------
(* ELThreadpool *)

LoopRecord == [live : BOOLEAN, inited : BOOLEAN, quit : BOOLEAN,
               thread : {"running", "none", "returned", "joined"}]

PoolTyped ==
    /\ processors \in {Processors, -1}
    /\ MaxThreads_ \in Nat /\ nextThread_ \in Nat
    /\ loop \in Seq(LoopRecord) /\ loops_ \in Seq(Nat)
    /\ quitting \in Nat \X {"no", "request", "join", "delete"}

(* The pool holds loops that exist, each once, and no more than the limit,
   which is at most the capacity. *)
PoolHeld ==
    /\ Len(loops_) <= MaxThreads_ /\ MaxThreads_ <= capacity
    /\ \A a \in 1 .. Len(loops_) : loops_[a] \in 1 .. Len(loop) /\ loop[loops_[a]].live
    /\ \A a, b \in 1 .. Len(loops_) : loops_[a] = loops_[b] => a = b

(* quit() is at the last loop of those left. *)
QuitAtLast == quitting # NotQuitting => quitting[1] = Len(loops_)

(* The loop at place a has been handed out. *)
Out(a) == loops_[a] \in DOMAIN since

(* The places in the order of their last turn: those after nextThread_, then
   those up to it. *)
Sooner(a, b) == IF a > nextThread_ THEN b <= nextThread_ \/ a < b
                ELSE b <= nextThread_ /\ a < b

(* Since start() turns have gone from some place to the end and, perhaps, on
   from the first place. *)
Turn ==
    /\ loops_ # <<>>
    /\ DOMAIN since \subseteq Range(loops_)
    /\ DOMAIN since # {} => nextThread_ \in 1 .. Len(loops_)
    /\ \A a \in 1 .. Len(loops_) : Out(a) /\ a <= nextThread_ => \A b \in a .. nextThread_ : Out(b)
    /\ \A a \in 1 .. Len(loops_) :
         Out(a) /\ a > nextThread_ => /\ \A b \in a .. Len(loops_) : Out(b)
                                      /\ \A b \in 1 .. nextThread_ : Out(b)
    /\ \A a, b \in 1 .. Len(loops_) :
         Out(a) /\ Out(b) /\ Sooner(a, b) => loops_[b] \in since[loops_[a]]

(* The inductive invariant of ELThreadpool: between start() and quit() the turns
   so far have the shape Turn. *)
PoolInv ==
    variant = "EL" => /\ PoolTyped /\ PoolHeld /\ QuitAtLast
                      /\ open /\ quitting = NotQuitting => Turn

(* nextThread_ %= MaxThreads_. *)
LEMMA ModFacts ==
    ASSUME NEW n \in Nat, NEW m \in Nat \ {0}
    PROVE  /\ n % m \in 0 .. m - 1
           /\ n < m => n % m = n
           /\ n = m => n % m = 0
  <1>1. m % m = 0
    OBVIOUS
  <1>2. QED
    BY <1>1

(* The step hands out the loop l at place c of the vector, which is the next
   place, the first one after the last, or that of a loop just added. *)
Handing(c, l) ==
    /\ loops_' \in Seq(Nat) /\ c \in 1 .. Len(loops_') /\ loops_'[c] = l
    /\ Range(loops_) \subseteq Range(loops_')
    /\ \A a \in 1 .. Len(loops_) : a \in 1 .. Len(loops_') /\ loops_'[a] = loops_[a]
    /\ \A a, b \in 1 .. Len(loops_') : loops_'[a] = loops_'[b] => a = b
    /\ \/ Len(loops_') = Len(loops_)
       \/ Len(loops_') = Len(loops_) + 1 /\ c = Len(loops_) + 1 /\ l \notin Range(loops_)
    /\ DOMAIN since # {} => \/ c = nextThread_ + 1
                            \/ c = 1 /\ nextThread_ = Len(loops_) /\ Len(loops_') = Len(loops_)
    /\ nextThread_' = c
    /\ since' = [k \in DOMAIN since \cup {l} |-> IF k = l THEN {} ELSE since[k] \cup {l}]

(* The loop at the next place, or at the first after the last, is the one that
   has waited longest. *)
LEMMA HandingInTurn ==
    ASSUME PoolTyped, Turn, NEW c, NEW l, Handing(c, l), l \in DOMAIN since
    PROVE  Range(loops_) \ {l} \subseteq since[l]
  <1>1. Len(loops_) \in Nat /\ nextThread_ \in 1 .. Len(loops_) /\ nextThread_ \in Nat
    BY LenProperties DEF PoolTyped, Turn
  <1>2. l \in Range(loops_)
    BY DEF Turn
  <1>3. /\ Len(loops_') = Len(loops_) /\ c \in 1 .. Len(loops_) /\ loops_[c] = l /\ Out(c)
        /\ c = nextThread_ + 1 \/ (c = 1 /\ nextThread_ = Len(loops_))
    BY <1>1, <1>2 DEF Handing, Out
  <1>4. ASSUME NEW b \in 1 .. Len(loops_), b # c PROVE loops_[b] \in since[l]
    <2>1. CASE c = nextThread_ + 1
      <3>1. Out(b)
        BY <1>1, <1>3, <2>1 DEF Turn
      <3>2. Sooner(c, b)
        BY <1>1, <1>3, <1>4, <2>1 DEF Sooner
      <3>3. QED
        BY <1>3, <3>1, <3>2 DEF Turn
    <2>2. CASE c = 1 /\ nextThread_ = Len(loops_)
      <3>1. Out(b)
        BY <1>1, <1>3, <2>2 DEF Turn
      <3>2. Sooner(c, b)
        BY <1>1, <1>3, <1>4, <2>2 DEF Sooner
      <3>3. QED
        BY <1>3, <3>1, <3>2 DEF Turn
    <2>3. QED
      BY <1>3, <2>1, <2>2
  <1>5. ASSUME NEW k \in Range(loops_), k # l PROVE k \in since[l]
    <2>1. PICK b \in 1 .. Len(loops_) : loops_[b] = k
      <3>1. DOMAIN loops_ = 1 .. Len(loops_)
        BY LenProperties DEF PoolTyped
      <3>2. QED
        BY <3>1 DEF Range
    <2>2. b # c
      BY <1>3, <1>5, <2>1
    <2>3. QED
      BY <1>4, <2>1, <2>2
  <1>6. QED
    BY <1>5

(* Which places have had a turn after the step. *)
LEMMA HandingOut ==
    ASSUME PoolTyped, Turn, NEW c, NEW l, Handing(c, l)
    PROVE  /\ \A a \in 1 .. Len(loops_') : Out(a)' <=> a = c \/ (a \in 1 .. Len(loops_) /\ Out(a))
           /\ \A a \in 1 .. Len(loops_) : Out(a) /\ a # c =>
                 /\ loops_'[a] = loops_[a]
                 /\ since'[loops_'[a]] = since[loops_[a]] \cup {l}
  <1>0. DOMAIN loops_ = 1 .. Len(loops_)
    BY LenProperties DEF PoolTyped
  <1>1. DOMAIN since' = DOMAIN since \cup {l}
    BY DEF Handing
  <1>2. ASSUME NEW a \in 1 .. Len(loops_'), Out(a)', a # c PROVE a \in 1 .. Len(loops_) /\ Out(a)
    <2>1. loops_'[a] # l
      BY <1>2 DEF Handing
    <2>2. loops_'[a] \in DOMAIN since
      BY <1>1, <1>2, <2>1 DEF Out
    <2>3. PICK b \in 1 .. Len(loops_) : loops_[b] = loops_'[a]
      BY <1>0, <2>2 DEF Turn, Range
    <2>4. a = b
      BY <2>3 DEF Handing
    <2>5. QED
      BY <2>2, <2>3, <2>4 DEF Out
  <1>3. ASSUME NEW a \in 1 .. Len(loops_'), a = c \/ (a \in 1 .. Len(loops_) /\ Out(a)) PROVE Out(a)'
    BY <1>1, <1>3 DEF Out, Handing
  <1>4. ASSUME NEW a \in 1 .. Len(loops_), Out(a), a # c
        PROVE  loops_'[a] = loops_[a] /\ since'[loops_'[a]] = since[loops_[a]] \cup {l}
    <2>1. a \in 1 .. Len(loops_') /\ loops_'[a] = loops_[a] /\ loops_'[a] # l
      BY <1>4 DEF Handing
    <2>2. loops_'[a] \in DOMAIN since
      BY <1>4, <2>1 DEF Out
    <2>3. QED
      BY <2>1, <2>2 DEF Handing
  <1>5. QED
    BY <1>2, <1>3, <1>4

(* Handing out the next loop keeps the turns in order. *)
LEMMA HandingTurn ==
    ASSUME PoolTyped, Turn, NEW c, NEW l, Handing(c, l)
    PROVE  Turn'
  <1> DEFINE n == Len(loops_)
             m == Len(loops_')
             N == nextThread_
  <1>1. /\ n \in Nat /\ m \in Nat /\ c \in 1 .. m /\ N \in Nat /\ N' = c
        /\ m = n \/ (m = n + 1 /\ c = n + 1)
    BY LenProperties DEF PoolTyped, Handing
  <1>2. \A a \in 1 .. m : Out(a)' <=> a = c \/ (a \in 1 .. n /\ Out(a))
    BY HandingOut
  <1>3. /\ \A a \in 1 .. n : Out(a) /\ a <= N => \A b \in a .. N : Out(b)
        /\ \A a \in 1 .. n : Out(a) /\ a > N => /\ \A b \in a .. n : Out(b)
                                                /\ \A b \in 1 .. N : Out(b)
        /\ \A a, b \in 1 .. n : Out(a) /\ Out(b) /\ Sooner(a, b) => loops_[b] \in since[loops_[a]]
    BY DEF Turn
  <1>4. \A a \in 1 .. n : Out(a) => N \in 1 .. n /\ (c = N + 1 \/ (c = 1 /\ N = n /\ m = n))
    BY DEF Turn, Handing, Out
  <1>5. loops_' # <<>>
    <2>1. Len(loops_') > 0
      BY <1>1
    <2>2. QED
      BY <2>1
  <1>6. DOMAIN since' \subseteq Range(loops_')
    <2>1. l \in Range(loops_')
      <3>1. DOMAIN loops_' = 1 .. Len(loops_')
        BY LenProperties DEF Handing
      <3>2. QED
        BY <3>1 DEF Range, Handing
    <2>2. QED
      BY <2>1 DEF Turn, Handing
  <1>7. ASSUME NEW a \in 1 .. m, Out(a)', a <= c, NEW b \in a .. c PROVE Out(b)'
    BY <1>1, <1>2, <1>3, <1>4, <1>7
  <1>8. ASSUME NEW a \in 1 .. m, Out(a)', a > c
        PROVE  /\ \A b \in a .. m : Out(b)'
               /\ \A b \in 1 .. c : Out(b)'
    BY <1>1, <1>2, <1>3, <1>4, <1>8
  <1>9. ASSUME NEW a \in 1 .. m, NEW b \in 1 .. m, Out(a)', Out(b)', Sooner(a, b)'
        PROVE  loops_'[b] \in since'[loops_'[a]]
    <2>1. a # c
      BY <1>1, <1>9 DEF Sooner
    <2>2. a \in 1 .. n /\ Out(a) /\ loops_'[a] = loops_[a] /\ since'[loops_'[a]] = since[loops_[a]] \cup {l}
      BY <1>2, <1>9, <2>1, HandingOut
    <2>3. CASE b = c
      BY <2>2, <2>3 DEF Handing
    <2>4. CASE b # c
      <3>1. b \in 1 .. n /\ Out(b) /\ loops_'[b] = loops_[b]
        BY <1>2, <1>9, <2>4, HandingOut
      <3>2. Sooner(a, b)
        BY <1>1, <1>4, <1>9, <2>1, <2>2, <2>4, <3>1 DEF Sooner
      <3>3. QED
        BY <1>3, <2>2, <3>1, <3>2
    <2>5. QED
      BY <2>3, <2>4
  <1>10. QED
    <2>1. nextThread_' \in 1 .. Len(loops_')
      BY <1>1
    <2>2. QED
      BY <1>1, <1>5, <1>6, <1>7, <1>8, <1>9, <2>1 DEF Turn

(* A loop that is created is new, and live. *)
LEMMA LoopCreated ==
    ASSUME PoolTyped, PoolHeld, NEW e \in LoopRecord, e.live, loop' = Append(loop, e)
    PROVE  /\ loop' \in Seq(LoopRecord) /\ Len(loop) \in Nat /\ Len(loop') = Len(loop) + 1
           /\ loop'[Len(loop')].live /\ Len(loop') \notin Range(loops_)
           /\ \A a \in 1 .. Len(loops_) : loops_[a] \in 1 .. Len(loop') /\ loop'[loops_[a]].live
  <1>1. /\ loop' \in Seq(LoopRecord) /\ Len(loop) \in Nat /\ Len(loop') = Len(loop) + 1
        /\ loop'[Len(loop) + 1] = e
        /\ \A k \in 1 .. Len(loop) : loop'[k] = loop[k]
    BY AppendProperties, LenProperties DEF PoolTyped
  <1>2. DOMAIN loops_ = 1 .. Len(loops_)
    BY LenProperties DEF PoolTyped
  <1>3. Len(loop') \notin Range(loops_)
    BY <1>1, <1>2 DEF PoolHeld, Range
  <1>4. QED
    BY <1>1, <1>3 DEF PoolHeld

(* Pushed on the vector it takes the last place. *)
LEMMA LoopPushed ==
    ASSUME PoolTyped, PoolHeld, NEW l \in Nat, l \notin Range(loops_), loops_' = Append(loops_, l)
    PROVE  /\ loops_' \in Seq(Nat) /\ Len(loops_) \in Nat /\ Len(loops_') = Len(loops_) + 1
           /\ loops_'[Len(loops_) + 1] = l
           /\ \A a \in 1 .. Len(loops_) : a \in 1 .. Len(loops_') /\ loops_'[a] = loops_[a]
           /\ \A a, b \in 1 .. Len(loops_') : loops_'[a] = loops_'[b] => a = b
           /\ Range(loops_) \subseteq Range(loops_')
  <1>1. /\ loops_' \in Seq(Nat) /\ Len(loops_) \in Nat /\ Len(loops_') = Len(loops_) + 1
        /\ loops_'[Len(loops_) + 1] = l
        /\ \A a \in 1 .. Len(loops_) : loops_'[a] = loops_[a]
    BY AppendProperties, LenProperties DEF PoolTyped
  <1>2. DOMAIN loops_ = 1 .. Len(loops_) /\ DOMAIN loops_' = 1 .. Len(loops_')
    BY <1>1, LenProperties DEF PoolTyped
  <1>3. \A a \in 1 .. Len(loops_) : a \in 1 .. Len(loops_') /\ loops_'[a] = loops_[a] /\ loops_'[a] # l
    BY <1>1, <1>2 DEF Range
  <1>4. \A a \in 1 .. Len(loops_') : a \in 1 .. Len(loops_) \/ (a = Len(loops_) + 1 /\ loops_'[a] = l)
    BY <1>1
  <1>5. ASSUME NEW a \in 1 .. Len(loops_'), NEW b \in 1 .. Len(loops_'), loops_'[a] = loops_'[b] PROVE a = b
    BY <1>3, <1>4, <1>5 DEF PoolHeld
  <1>6. Range(loops_) \subseteq Range(loops_')
    BY <1>2, <1>3 DEF Range
  <1>7. QED
    BY <1>1, <1>3, <1>5, <1>6

(* ELOpenLoop keeps the pool in shape when there is room for one loop more. *)
LEMMA OpenLoopHeld ==
    ASSUME PoolTyped, PoolHeld, NEW inited \in BOOLEAN, NEW thread \in runThread,
           loop' = Append(loop, NewLoop(inited, IF inited THEN thread ELSE "none")),
           loops_' = (IF inited THEN Append(loops_, Len(loop')) ELSE loops_),
           MaxThreads_' \in Nat, Len(loops_) < MaxThreads_', MaxThreads_' <= capacity, processors' = processors
    PROVE  /\ loop' \in Seq(LoopRecord) /\ loops_' \in Seq(Nat)
           /\ Len(loop') = Len(loop) + 1 /\ Len(loop') \in Nat /\ Len(loop') \notin Range(loops_)
           /\ loop'[Len(loop')].live
           /\ PoolHeld'
  <1> DEFINE e == NewLoop(inited, IF inited THEN thread ELSE "none")
  <1>1. e \in LoopRecord /\ e.live
    BY DEF NewLoop, LoopRecord, runThread
  <1> HIDE DEF e
  <1>2. /\ loop' \in Seq(LoopRecord) /\ Len(loop) \in Nat /\ Len(loop') = Len(loop) + 1
        /\ loop'[Len(loop')].live /\ Len(loop') \notin Range(loops_)
        /\ \A a \in 1 .. Len(loops_) : loops_[a] \in 1 .. Len(loop') /\ loop'[loops_[a]].live
    BY <1>1, LoopCreated DEF e
  <1>3. capacity' = capacity
    BY DEF capacity
  <1>4. CASE inited
    <2>1. /\ loops_' \in Seq(Nat) /\ Len(loops_) \in Nat /\ Len(loops_') = Len(loops_) + 1
          /\ loops_'[Len(loops_) + 1] = Len(loop')
          /\ \A a \in 1 .. Len(loops_) : a \in 1 .. Len(loops_') /\ loops_'[a] = loops_[a]
          /\ \A a, b \in 1 .. Len(loops_') : loops_'[a] = loops_'[b] => a = b
      <3>1. Len(loop') \in Nat /\ loops_' = Append(loops_, Len(loop'))
        BY <1>2, <1>4
      <3>2. QED
        BY <1>2, <3>1, LoopPushed
    <2>2. \A a \in 1 .. Len(loops_') : a \in 1 .. Len(loops_) \/ (a = Len(loops_) + 1 /\ loops_'[a] = Len(loop'))
      BY <2>1
    <2>3. \A a \in 1 .. Len(loops_') : loops_'[a] \in 1 .. Len(loop') /\ loop'[loops_'[a]].live
      BY <1>2, <2>1, <2>2, SMTT(20)
    <2>4. Len(loops_') <= MaxThreads_' /\ MaxThreads_' <= capacity'
      BY <1>3, <2>1
    <2>5. QED
      BY <1>2, <2>1, <2>3, <2>4, SMTT(20) DEF PoolHeld
  <1>5. CASE ~inited
    <2>1. loops_' = loops_ /\ loops_ \in Seq(Nat) /\ Len(loops_) \in Nat
      BY <1>5, LenProperties DEF PoolTyped
    <2>2. QED
      BY <1>2, <1>3, <2>1 DEF PoolHeld
  <1>6. QED
    BY <1>4, <1>5

(* Before the first turn after start() there is nothing to keep in order. *)
LEMMA NoTurnYet ==
    ASSUME loops_' # <<>>, DOMAIN since' = {}
    PROVE  Turn'
  BY DEF Turn, Out

(* A place taken by a loop that was not handed out changes no turn. *)
LEMMA TurnKept ==
    ASSUME PoolTyped, PoolHeld, Turn, NEW l \in Nat, l \notin Range(loops_), since' = since,
           DOMAIN since # {} => nextThread_' = nextThread_ /\ nextThread_ = Len(loops_),
           loops_' = Append(loops_, l)
    PROVE  Turn'
  <1>1. /\ loops_' \in Seq(Nat) /\ Len(loops_) \in Nat /\ Len(loops_') = Len(loops_) + 1
        /\ loops_'[Len(loops_) + 1] = l
        /\ \A a \in 1 .. Len(loops_) : a \in 1 .. Len(loops_') /\ loops_'[a] = loops_[a]
        /\ Range(loops_) \subseteq Range(loops_')
    BY LoopPushed
  <1>2. loops_' # <<>>
    <2>1. Len(loops_') > 0
      BY <1>1
    <2>2. QED
      BY <2>1
  <1>3. CASE DOMAIN since = {}
    BY <1>2, <1>3, NoTurnYet
  <1>4. CASE DOMAIN since # {}
    <2>1. nextThread_' = nextThread_ /\ nextThread_ = Len(loops_) /\ nextThread_ \in 1 .. Len(loops_)
      BY <1>4 DEF Turn
    <2>2. \A a \in 1 .. Len(loops_') : Out(a)' => a \in 1 .. Len(loops_) /\ Out(a)
      <3>1. l \notin DOMAIN since
        BY DEF Turn
      <3>2. \A a \in 1 .. Len(loops_') : a \in 1 .. Len(loops_) \/ loops_'[a] = l
        BY <1>1
      <3>3. QED
        BY <1>1, <3>1, <3>2 DEF Out
    <2>3. \A a \in 1 .. Len(loops_) : Out(a) => Out(a)' /\ loops_'[a] = loops_[a]
      BY <1>1 DEF Out
    <2>4. \A a, b \in 1 .. Len(loops_) : Sooner(a, b)' => Sooner(a, b)
      BY <2>1 DEF Sooner
    <2>5. nextThread_' \in 1 .. Len(loops_')
      BY <1>1, <2>1
    <2>6. DOMAIN since' \subseteq Range(loops_')
      BY <1>1 DEF Turn
    <2>7. ASSUME NEW a \in 1 .. Len(loops_'), Out(a)', NEW b \in a .. nextThread_' PROVE Out(b)'
      <3>1. a \in 1 .. Len(loops_) /\ Out(a) /\ a <= nextThread_ /\ b \in a .. nextThread_ /\ b \in 1 .. Len(loops_)
        BY <1>1, <2>1, <2>2, <2>7
      <3>2. QED
        BY <2>3, <3>1 DEF Turn
    <2>8. ASSUME NEW a \in 1 .. Len(loops_'), Out(a)' PROVE ~(a > nextThread_')
      BY <1>1, <2>1, <2>2, <2>8
    <2>9. ASSUME NEW a \in 1 .. Len(loops_'), NEW b \in 1 .. Len(loops_'), Out(a)', Out(b)', Sooner(a, b)'
          PROVE  loops_'[b] \in since'[loops_'[a]]
      BY <2>2, <2>3, <2>4, <2>9 DEF Turn
    <2>10. QED
      BY <1>2, <2>5, <2>6, <2>7, <2>8, <2>9 DEF Turn
  <1>5. QED
    BY <1>3, <1>4

(* The place that is next: with turns taken, the one after the last, or the
   first when all places are used up. *)
LEMMA NextPlace ==
    ASSUME PoolTyped, PoolHeld, Turn
    PROVE  /\ NextIndex \in Nat /\ Len(loops_) \in Nat /\ Len(loops_) > 0 /\ NextIndex < MaxThreads_
           /\ DOMAIN since # {} =>
                \/ NextIndex = nextThread_ /\ nextThread_ <= Len(loops_)
                \/ NextIndex = 0 /\ nextThread_ = Len(loops_)
  <1>1. Len(loops_) \in Nat /\ MaxThreads_ \in Nat /\ nextThread_ \in Nat /\ Len(loops_) <= MaxThreads_
    BY LenProperties DEF PoolTyped, PoolHeld
  <1>2. Len(loops_) > 0
    <2>1. Len(loops_) # 0
      BY EmptySeq DEF PoolTyped, Turn
    <2>2. QED
      BY <1>1, <2>1
  <1>3. MaxThreads_ \in Nat \ {0}
    BY <1>1, <1>2
  <1>4. /\ NextIndex \in 0 .. MaxThreads_ - 1
        /\ nextThread_ < MaxThreads_ => NextIndex = nextThread_
        /\ nextThread_ = MaxThreads_ => NextIndex = 0
    BY <1>1, <1>3, ModFacts DEF NextIndex
  <1>5. DOMAIN since # {} => nextThread_ \in 1 .. Len(loops_)
    BY DEF Turn
  <1> HIDE DEF NextIndex
  <1>6. QED
    BY <1>1, <1>2, <1>4, <1>5

(* The pool may open at least one loop. *)
LEMMA CapacityFacts ==
    ASSUME processors \in {Processors, -1}
    PROVE  capacity \in Nat \ {0}
  BY PoolAssumption DEF capacity, Redundancy

(* start of ELThreadpool: the first loop, with no turn taken. *)
LEMMA StartInv ==
    ASSUME variant = "EL", PoolInv, elStart
    PROVE  PoolInv'
  <1>1. PoolTyped /\ PoolHeld /\ loops_ = <<>> /\ quitting = NotQuitting /\ ~open
    BY DEF PoolInv, elStart, Calling, Turn
  <1>2. PICK inited \in BOOLEAN, thread \in runThread :
           /\ loop' = Append(loop, NewLoop(inited, IF inited THEN thread ELSE "none"))
           /\ loops_' = (IF inited THEN Append(loops_, Len(loop')) ELSE loops_)
           /\ IF inited /\ thread = "running" THEN Started
              ELSE nextThread_' = nextThread_ /\ UNCHANGED <<open, since>>
    BY DEF elStart, ELOpenLoop
  <1>3. /\ variant' = variant /\ processors' = processors /\ quitting' = quitting
        /\ MaxThreads_' = IF MaxThreads_ = 0 THEN capacity ELSE MaxThreads_
        /\ nextThread_' = nextThread_
    BY <1>2 DEF elStart, Started
  <1>4. MaxThreads_' \in Nat /\ Len(loops_) < MaxThreads_' /\ MaxThreads_' <= capacity
    <2>1. capacity \in Nat \ {0} /\ MaxThreads_ \in Nat /\ MaxThreads_ <= capacity
      BY <1>1, CapacityFacts DEF PoolTyped, PoolHeld
    <2>2. Len(loops_) = 0
      BY <1>1, EmptySeq DEF PoolTyped
    <2> HIDE DEF capacity
    <2>3. QED
      BY <1>3, <2>1, <2>2
  <1>5. /\ loop' \in Seq(LoopRecord) /\ loops_' \in Seq(Nat) /\ Len(loop') \in Nat /\ PoolHeld'
    BY <1>1, <1>2, <1>3, <1>4, OpenLoopHeld
  <1>6. PoolTyped'
    BY <1>1, <1>3, <1>4, <1>5 DEF PoolTyped
  <1>7. ASSUME open' PROVE Turn'
    <2>1. inited /\ since' = <<>>
      BY <1>1, <1>2, <1>7 DEF Started
    <2>2. loops_' # <<>>
      <3>1. loops_' = Append(loops_, Len(loop')) /\ loops_ \in Seq(Nat) /\ Len(loop') \in Nat
        BY <1>1, <1>2, <1>5, <2>1 DEF PoolTyped
      <3>2. Len(loops_') = Len(loops_) + 1 /\ Len(loops_) \in Nat
        BY <3>1, AppendProperties, LenProperties
      <3>3. Len(loops_') > 0
        BY <3>2
      <3>4. QED
        BY <3>3
    <2>3. DOMAIN since' = {}
      BY <2>1
    <2>4. QED
      BY <2>2, <2>3, NoTurnYet
  <1>8. QuitAtLast'
    BY <1>1, <1>3 DEF QuitAtLast
  <1>9. QED
    BY <1>5, <1>6, <1>7, <1>8 DEF PoolInv

(* What a call of getNextEventLoop of ELThreadpool does: it hands out the loop
   whose turn it is, or nothing. *)
LEMMA NextCases ==
    ASSUME variant = "EL", PoolInv, elGetNextEventLoop
    PROVE  /\ PoolTyped' /\ PoolHeld' /\ Turn'
           /\ \/ since' = since
              \/ \E c, l : Handing(c, l) /\ loop'[l].live
  <1> DEFINE i == NextIndex
             n == Len(loops_)
  <1>1. PoolTyped /\ PoolHeld /\ Turn
    BY DEF PoolInv, elGetNextEventLoop, Calling
  <1>2. /\ i \in Nat /\ n \in Nat /\ n > 0 /\ i < MaxThreads_ /\ MaxThreads_ \in Nat
        /\ DOMAIN since # {} => \/ i = nextThread_ /\ nextThread_ <= n
                                \/ i = 0 /\ nextThread_ = n
    BY <1>1, NextPlace DEF PoolTyped
  <1>3. variant' = variant /\ processors' = processors /\ MaxThreads_' = MaxThreads_ /\ quitting' = quitting
    BY DEF elGetNextEventLoop
  <1>4. CASE i < n /\ HandOut(i, loops_[i + 1]) /\ UNCHANGED <<loops_, loop>>
    <2>1. /\ i + 1 \in 1 .. n /\ loops_' = loops_ /\ loop' = loop /\ loops_ \in Seq(Nat)
          /\ nextThread_' = i + 1
      BY <1>1, <1>2, <1>4 DEF HandOut, PoolTyped
    <2>2. DOMAIN since # {} => \/ i + 1 = nextThread_ + 1
                               \/ i + 1 = 1 /\ nextThread_ = n
      BY <1>2
    <2>3. since' = [k \in DOMAIN since \cup {loops_[i + 1]} |->
                      IF k = loops_[i + 1] THEN {} ELSE since[k] \cup {loops_[i + 1]}]
      BY <1>4 DEF HandOut
    <2> HIDE DEF i
    <2>4. Handing(i + 1, loops_[i + 1])
      BY <1>1, <2>1, <2>2, <2>3 DEF Handing, PoolHeld
    <2>5. loop'[loops_[i + 1]].live
      BY <1>1, <2>1 DEF PoolHeld
    <2>6. Turn'
      BY <1>1, <2>4, HandingTurn
    <2>7. PoolTyped'
      <3>1. nextThread_' \in Nat
        BY <1>2, <2>1
      <3>2. QED
        BY <1>1, <1>3, <2>1, <3>1 DEF PoolTyped
    <2>8. PoolHeld'
      BY <1>1, <1>3, <2>1 DEF PoolHeld, capacity
    <2>9. QED
      BY <2>4, <2>5, <2>6, <2>7, <2>8
  <1>5. CASE i = n /\ ELOpenLoop(i, HandOut(i, Len(loop) + 1))
    <2>1. PICK inited \in BOOLEAN, thread \in runThread :
             /\ loop' = Append(loop, NewLoop(inited, IF inited THEN thread ELSE "none"))
             /\ loops_' = (IF inited THEN Append(loops_, Len(loop')) ELSE loops_)
             /\ IF inited /\ thread = "running" THEN HandOut(i, Len(loop) + 1)
                ELSE nextThread_' = i /\ UNCHANGED <<open, since>>
      BY <1>5 DEF ELOpenLoop
    <2>2. MaxThreads_' \in Nat /\ Len(loops_) < MaxThreads_' /\ MaxThreads_' <= capacity
      BY <1>1, <1>2, <1>3, <1>5 DEF PoolHeld
    <2>3. /\ loop' \in Seq(LoopRecord) /\ loops_' \in Seq(Nat)
          /\ Len(loop') = Len(loop) + 1 /\ Len(loop') \in Nat /\ Len(loop') \notin Range(loops_)
          /\ loop'[Len(loop')].live
          /\ PoolHeld'
      BY <1>1, <1>3, <2>1, <2>2, OpenLoopHeld
    <2>4. nextThread_' \in Nat
      BY <1>2, <2>1 DEF HandOut
    <2>5. PoolTyped'
      BY <1>1, <1>3, <2>3, <2>4 DEF PoolTyped
    <2>6. DOMAIN since # {} => i = nextThread_ /\ nextThread_ = n
      BY <1>2, <1>5
    <2>7. CASE inited /\ thread = "running"
      <3> DEFINE l == Len(loop')
      <3>1. /\ nextThread_' = n + 1 /\ loops_' = Append(loops_, l)
            /\ since' = [k \in DOMAIN since \cup {l} |-> IF k = l THEN {} ELSE since[k] \cup {l}]
        BY <1>5, <2>1, <2>3, <2>7 DEF HandOut
      <3>2. l \in Nat /\ l \notin Range(loops_) /\ loop'[l].live
        BY <2>3
      <3> HIDE DEF l
      <3>3. /\ Len(loops_') = n + 1 /\ loops_'[n + 1] = l
            /\ \A a \in 1 .. n : a \in 1 .. Len(loops_') /\ loops_'[a] = loops_[a]
            /\ \A a, b \in 1 .. Len(loops_') : loops_'[a] = loops_'[b] => a = b
            /\ Range(loops_) \subseteq Range(loops_')
        BY <1>1, <3>1, <3>2, LoopPushed
      <3>4. n + 1 \in 1 .. Len(loops_') /\ (DOMAIN since # {} => n + 1 = nextThread_ + 1)
        BY <1>2, <2>6, <3>3
      <3>5. Handing(n + 1, l)
        BY <2>3, <3>1, <3>2, <3>3, <3>4 DEF Handing
      <3>6. Turn'
        BY <1>1, <3>5, HandingTurn
      <3>7. QED
        BY <2>3, <2>5, <3>2, <3>5, <3>6
    <2>8. CASE ~(inited /\ thread = "running")
      <3>1. nextThread_' = i /\ since' = since
        BY <2>1, <2>8
      <3>2. CASE inited
        <4>1. loops_' = Append(loops_, Len(loop'))
          BY <2>1, <3>2
        <4> HIDE DEF i
        <4>2. Turn'
          BY <1>1, <2>3, <2>6, <3>1, <4>1, TurnKept
        <4>3. QED
          BY <2>3, <2>5, <3>1, <4>2
      <3>3. CASE ~inited
        <4>1. loops_' = loops_
          BY <2>1, <3>3
        <4>2. Turn'
          <5>1. CASE DOMAIN since = {}
            BY <1>1, <3>1, <4>1, <5>1, NoTurnYet DEF Turn
          <5>2. CASE DOMAIN since # {}
            <6>1. nextThread_' = nextThread_
              BY <2>6, <3>1, <5>2
            <6>2. QED
              BY <1>1, <3>1, <4>1, <6>1 DEF Turn, Out, Sooner
          <5>3. QED
            BY <5>1, <5>2
        <4>3. QED
          BY <2>3, <2>5, <3>1, <4>2
      <3>4. QED
        BY <3>2, <3>3
    <2>9. QED
      BY <2>7, <2>8
  <1>6. CASE i > n /\ nextThread_' = i /\ UNCHANGED <<loops_, loop, open, since>>
    <2>1. DOMAIN since = {}
      <3> HIDE DEF i, n
      <3>1. ~(i = nextThread_ /\ nextThread_ <= n) /\ ~(i = 0 /\ nextThread_ = n)
        BY <1>2, <1>6
      <3>2. QED
        BY <1>2, <3>1
    <2>2. Turn'
      BY <1>1, <1>6, <2>1, NoTurnYet DEF Turn
    <2>3. PoolTyped' /\ PoolHeld'
      BY <1>1, <1>2, <1>3, <1>6 DEF PoolTyped, PoolHeld, capacity
    <2>4. QED
      BY <1>6, <2>2, <2>3
  <1>7. QED
    BY <1>4, <1>5, <1>6 DEF elGetNextEventLoop

(* Marking one loop, or ending its thread, moves no loop. *)
LEMMA LoopUpdated ==
    ASSUME PoolTyped, PoolHeld, NEW l \in 1 .. Len(loop), NEW e \in LoopRecord, e.live = loop[l].live,
           loop' = [loop EXCEPT ![l] = e],
           UNCHANGED <<processors, MaxThreads_, nextThread_, loops_>>,
           quitting' \in Nat \X {"no", "request", "join", "delete"}
    PROVE  PoolTyped' /\ PoolHeld'
  <1>1. /\ loop' \in Seq(LoopRecord) /\ Len(loop') = Len(loop)
        /\ \A k \in 1 .. Len(loop) : loop'[k] = IF k = l THEN e ELSE loop[k]
    BY ExceptSeq DEF PoolTyped
  <1>2. \A k \in 1 .. Len(loop) : loop'[k].live = loop[k].live
    BY <1>1
  <1>3. PoolTyped'
    BY <1>1 DEF PoolTyped
  <1>4. PoolHeld'
    BY <1>1, <1>2 DEF PoolHeld, capacity
  <1>5. QED
    BY <1>3, <1>4

(* The changes of one loop's record. *)
LEMMA RecordUpdates ==
    ASSUME PoolTyped, NEW l \in 1 .. Len(loop)
    PROVE  /\ loop[l] \in LoopRecord
           /\ [loop[l] EXCEPT !.quit = TRUE] \in LoopRecord
           /\ [loop[l] EXCEPT !.quit = TRUE].live = loop[l].live
           /\ \A w \in {"returned", "joined"} : /\ [loop[l] EXCEPT !.thread = w] \in LoopRecord
                                                /\ [loop[l] EXCEPT !.thread = w].live = loop[l].live
  <1>1. loop[l] \in LoopRecord
    BY ElementOfSeq DEF PoolTyped
  <1>2. QED
    BY <1>1 DEF LoopRecord

(* The loop quit() is at. *)
LEMMA CurrentFacts ==
    ASSUME PoolTyped, PoolHeld, QuitAtLast, NEW w \in {"request", "join", "delete"}, At(w)
    PROVE  /\ quitting[1] = Len(loops_) /\ Len(loops_) \in Nat \ {0} /\ quitting = <<Len(loops_), w>>
           /\ Current = loops_[Len(loops_)] /\ Current \in 1 .. Len(loop)
  <1>1. /\ DOMAIN loops_ = 1 .. Len(loops_) /\ Len(loops_) \in Nat
        /\ quitting = <<quitting[1], quitting[2]>> /\ quitting[1] \in Nat /\ quitting[2] = w
    BY LenProperties DEF PoolTyped, At
  <1>2. quitting # NotQuitting
    BY <1>1 DEF NotQuitting
  <1>3. quitting[1] = Len(loops_) /\ quitting[1] \in 1 .. Len(loops_)
    BY <1>1, <1>2 DEF QuitAtLast, At
  <1>4. QED
    BY <1>1, <1>3 DEF PoolHeld, Current

(* The steps of quit() up to the deletion. *)
LEMMA RequestInv ==
    ASSUME variant = "EL", PoolTyped, PoolHeld, QuitAtLast, variant' = variant,
           NEW w \in {"request", "join"}, At(w), NEW v \in {"join", "delete"},
           quitting' = <<quitting[1], v>>, NEW e \in LoopRecord, e.live = loop[Current].live,
           loop' = [loop EXCEPT ![Current] = e],
           UNCHANGED <<processors, MaxThreads_, nextThread_, loops_>>
    PROVE  PoolInv'
  <1>1. quitting[1] = Len(loops_) /\ Len(loops_) \in Nat \ {0} /\ Current \in 1 .. Len(loop)
    BY CurrentFacts
  <1>2. quitting' \in Nat \X {"no", "request", "join", "delete"} /\ quitting' # NotQuitting
        /\ quitting'[1] = Len(loops_)
    BY <1>1 DEF NotQuitting
  <1> HIDE DEF Current
  <1>3. PoolTyped' /\ PoolHeld'
    BY <1>1, <1>2, LoopUpdated
  <1>4. QED
    BY <1>2, <1>3 DEF PoolInv, QuitAtLast

(* The deletion takes the last loop, which no other place holds. *)
LEMMA DeleteInv ==
    ASSUME variant = "EL", PoolInv, elDeleteLoop
    PROVE  PoolInv'
  <1> DEFINE n == Len(loops_)
  <1>1. PoolTyped /\ PoolHeld /\ QuitAtLast
    BY DEF PoolInv
  <1>2. /\ quitting[1] = n /\ n \in Nat \ {0}
        /\ Current = loops_[n] /\ Current \in 1 .. Len(loop)
    BY <1>1, CurrentFacts DEF elDeleteLoop
  <1>3. /\ loop' = [loop EXCEPT ![Current].live = FALSE]
        /\ loops_' = Front(loops_) /\ quitting' = <<n - 1, "request">>
        /\ UNCHANGED <<variant, processors, MaxThreads_, nextThread_>>
    BY <1>2 DEF elDeleteLoop
  <1>4. /\ loops_' \in Seq(Nat) /\ Len(loops_') = n - 1
        /\ \A a \in 1 .. n - 1 : loops_'[a] = loops_[a]
    <2>1. loops_ \in Seq(Nat) /\ loops_' = SubSeq(loops_, 1, n - 1)
      BY <1>1, <1>3 DEF PoolTyped, Front
    <2>2. 1 \in 1 .. n + 1 /\ n - 1 \in 0 .. n
      BY <1>2
    <2>3. /\ loops_' \in Seq(Nat)
          /\ Len(loops_') = (IF 1 <= n - 1 THEN n - 1 - 1 + 1 ELSE 0)
          /\ \A a \in 1 .. n - 1 - 1 + 1 : loops_'[a] = loops_[1 + a - 1]
      BY <2>1, <2>2, SubSeqProperties
    <2> HIDE DEF n
    <2>4. n - 1 - 1 + 1 = n - 1 /\ (IF 1 <= n - 1 THEN n - 1 - 1 + 1 ELSE 0) = n - 1
      BY <1>2
    <2>5. \A a \in 1 .. n - 1 : 1 + a - 1 = a
      OBVIOUS
    <2>6. Len(loops_') = n - 1 /\ \A a \in 1 .. n - 1 : loops_'[a] = loops_[1 + a - 1]
      BY <2>3, <2>4
    <2>7. QED
      BY <2>3, <2>5, <2>6
  <1>5. /\ loop' \in Seq(LoopRecord) /\ Len(loop') = Len(loop)
        /\ \A k \in 1 .. Len(loop) : k # Current => loop'[k] = loop[k]
    <2>1. loop[Current] \in LoopRecord /\ loop \in Seq(LoopRecord)
      BY <1>1, <1>2, RecordUpdates DEF PoolTyped
    <2>2. [loop[Current] EXCEPT !.live = FALSE] \in LoopRecord
      BY <2>1 DEF LoopRecord
    <2> HIDE DEF Current
    <2>3. QED
      BY <1>2, <1>3, <2>1, <2>2, ExceptSeq
  <1>6. PoolTyped'
    <2>1. quitting' \in Nat \X {"no", "request", "join", "delete"}
      BY <1>2, <1>3
    <2>2. QED
      BY <1>1, <1>3, <1>4, <1>5, <2>1 DEF PoolTyped
  <1>7. PoolHeld'
    <2>1. \A a \in 1 .. n - 1 : a \in 1 .. n /\ loops_'[a] = loops_[a] /\ loops_'[a] # Current
      BY <1>1, <1>2, <1>4 DEF PoolHeld
    <2>2. \A a \in 1 .. Len(loops_') : loops_'[a] \in 1 .. Len(loop') /\ loop'[loops_'[a]].live
      BY <1>1, <1>4, <1>5, <2>1 DEF PoolHeld
    <2>3. \A a, b \in 1 .. Len(loops_') : loops_'[a] = loops_'[b] => a = b
      BY <1>1, <1>4, <2>1 DEF PoolHeld
    <2>4. Len(loops_') <= MaxThreads_' /\ MaxThreads_' <= capacity'
      <3>1. n <= MaxThreads_ /\ MaxThreads_ <= capacity /\ capacity' = capacity /\ MaxThreads_ \in Nat
        BY <1>1, <1>3 DEF PoolHeld, PoolTyped, capacity
      <3> HIDE DEF capacity
      <3>2. QED
        BY <1>2, <1>3, <1>4, <3>1
    <2>5. QED
      BY <2>2, <2>3, <2>4 DEF PoolHeld
  <1>8. quitting' # NotQuitting /\ quitting'[1] = Len(loops_')
    BY <1>2, <1>3, <1>4 DEF NotQuitting
  <1>9. QED
    BY <1>6, <1>7, <1>8 DEF PoolInv, QuitAtLast

(* Every step of the pool and of its threads keeps the invariant. *)
LEMMA PoolStep ==
    ASSUME PoolInv, [PoolNext]_poolVars
    PROVE  PoolInv'
  <1>0. variant' = variant
    BY DEF PoolNext, poolVars, elStart, eventLoopStart, elGetNextEventLoop, eventLoopGetNextEventLoop,
           getNextEventLoopUnset, setMaxThreads, elQuit, eventLoopQuit, QuitStep, requestQuit, joinThread,
           elDeleteLoop, quitReturn, ThreadStep, runInThread, Crash
  <1>1. SUFFICES ASSUME variant = "EL" PROVE PoolInv'
    BY <1>0 DEF PoolInv
  <1>2. /\ PoolTyped /\ PoolHeld /\ QuitAtLast
        /\ open /\ quitting = NotQuitting => Turn
    BY <1>1 DEF PoolInv
  <1>3. ASSUME UNCHANGED <<variant, processors, MaxThreads_, nextThread_, loops_, loop, open, quitting, since>>
        PROVE  PoolInv'
    BY <1>1, <1>2, <1>3 DEF PoolInv, PoolTyped, PoolHeld, QuitAtLast, Turn, Out, Sooner, capacity
  <1>4. CASE UNCHANGED poolVars
    BY <1>3, <1>4 DEF poolVars
  <1>5. ASSUME Crash PROVE PoolInv'
    BY <1>3, <1>5 DEF Crash
  <1>6. CASE elStart
    BY <1>1, <1>6, StartInv
  <1>7. CASE elGetNextEventLoop
    <2>1. PoolTyped' /\ PoolHeld' /\ Turn'
      BY <1>1, <1>7, NextCases
    <2>2. quitting' = quitting /\ quitting = NotQuitting
      BY <1>7 DEF elGetNextEventLoop, Calling
    <2>3. QED
      BY <2>1, <2>2 DEF PoolInv, QuitAtLast
  <1>8. CASE getNextEventLoopUnset
    BY <1>5, <1>8 DEF getNextEventLoopUnset
  <1>9. CASE \E k \in Limits : setMaxThreads(k)
    <2>1. PICK k \in Limits : setMaxThreads(k)
      BY <1>9
    <2>2. capacity \in Nat \ {0} /\ capacity' = capacity /\ Capacity = capacity
      BY <1>1, <1>2, <2>1, CapacityFacts DEF PoolTyped, setMaxThreads, capacity, Capacity
    <2> HIDE DEF capacity
    <2>3. k \in Nat /\ k >= Len(loops_) /\ MaxThreads_' = IF k > capacity THEN capacity ELSE k
      BY <2>1, <2>2, PoolAssumption DEF setMaxThreads
    <2>4. Len(loops_) \in Nat /\ MaxThreads_ \in Nat /\ Len(loops_) <= MaxThreads_ /\ MaxThreads_ <= capacity
      BY <1>2, LenProperties DEF PoolTyped, PoolHeld
    <2>5. MaxThreads_' \in Nat /\ Len(loops_) <= MaxThreads_' /\ MaxThreads_' <= capacity'
      BY <2>2, <2>3, <2>4
    <2>6. UNCHANGED <<variant, processors, nextThread_, loops_, loop, open, quitting, since>>
      BY <2>1 DEF setMaxThreads
    <2>7. PoolTyped' /\ PoolHeld'
      BY <1>2, <2>5, <2>6 DEF PoolTyped, PoolHeld
    <2>8. QuitAtLast' /\ (open' /\ quitting' = NotQuitting => Turn')
      BY <1>2, <2>6 DEF QuitAtLast, Turn, Out, Sooner
    <2>9. QED
      BY <2>7, <2>8 DEF PoolInv
  <1>10. CASE elQuit
    <2>1. /\ quitting' = <<Len(loops_), "request">> /\ Len(loops_) \in Nat
          /\ UNCHANGED <<processors, MaxThreads_, nextThread_, loops_, loop>>
      BY <1>2, <1>10, LenProperties DEF elQuit, PoolTyped
    <2>2. /\ quitting' \in Nat \X {"no", "request", "join", "delete"} /\ quitting'[1] = Len(loops_)
          /\ quitting' # NotQuitting
      BY <2>1 DEF NotQuitting
    <2>3. PoolTyped' /\ PoolHeld'
      BY <1>2, <2>1, <2>2 DEF PoolTyped, PoolHeld, capacity
    <2>4. QED
      BY <2>1, <2>2, <2>3 DEF PoolInv, QuitAtLast
  <1>11. CASE requestQuit
    <2>1. At("request") /\ Current \in 1 .. Len(loop)
      BY <1>2, <1>11, CurrentFacts DEF requestQuit
    <2>2. SUFFICES ASSUME ~Crash PROVE PoolInv'
      BY <1>5
    <2>3. /\ loop' = [loop EXCEPT ![Current].quit = TRUE]
          /\ quitting' = <<quitting[1], "join">>
          /\ UNCHANGED <<variant, processors, MaxThreads_, nextThread_, loops_>>
      BY <1>11, <2>2 DEF requestQuit
    <2>4. /\ [loop[Current] EXCEPT !.quit = TRUE] \in LoopRecord
          /\ [loop[Current] EXCEPT !.quit = TRUE].live = loop[Current].live
      BY <1>2, <2>1, RecordUpdates
    <2> HIDE DEF Current
    <2>5. loop' = [loop EXCEPT ![Current] = [loop[Current] EXCEPT !.quit = TRUE]]
      BY <2>3
    <2>6. QED
      BY <1>1, <1>2, <2>1, <2>3, <2>4, <2>5, RequestInv
  <1>12. CASE joinThread
    <2>1. At("join") /\ Current \in 1 .. Len(loop)
      BY <1>2, <1>12, CurrentFacts DEF joinThread
    <2>2. SUFFICES ASSUME ~Crash PROVE PoolInv'
      BY <1>5
    <2>3. /\ loop' = [loop EXCEPT ![Current].thread = "joined"]
          /\ quitting' = <<quitting[1], "delete">>
          /\ UNCHANGED <<variant, processors, MaxThreads_, nextThread_, loops_>>
      BY <1>12, <2>2 DEF joinThread
    <2>4. /\ [loop[Current] EXCEPT !.thread = "joined"] \in LoopRecord
          /\ [loop[Current] EXCEPT !.thread = "joined"].live = loop[Current].live
      BY <1>2, <2>1, RecordUpdates
    <2> HIDE DEF Current
    <2>5. loop' = [loop EXCEPT ![Current] = [loop[Current] EXCEPT !.thread = "joined"]]
      BY <2>3
    <2>6. QED
      BY <1>1, <1>2, <2>1, <2>3, <2>4, <2>5, RequestInv
  <1>13. CASE elDeleteLoop
    BY <1>1, <1>13, DeleteInv
  <1>14. CASE quitReturn
    <2>1. /\ quitting' = NotQuitting /\ open' = FALSE
          /\ UNCHANGED <<processors, MaxThreads_, nextThread_, loops_, loop>>
      BY <1>14 DEF quitReturn
    <2>2. PoolTyped' /\ PoolHeld'
      BY <1>2, <2>1 DEF PoolTyped, PoolHeld, capacity, NotQuitting
    <2>3. QED
      BY <2>1, <2>2 DEF PoolInv, QuitAtLast
  <1>15. CASE ThreadStep
    <2>1. PICK l \in DOMAIN loop : runInThread(l)
      BY <1>15 DEF ThreadStep
    <2>2. l \in 1 .. Len(loop)
      BY <1>2, LenProperties DEF PoolTyped
    <2>3. /\ loop' = [loop EXCEPT ![l].thread = "returned"]
          /\ UNCHANGED <<processors, MaxThreads_, nextThread_, loops_, open, quitting, since>>
      BY <2>1 DEF runInThread
    <2>4. /\ [loop[l] EXCEPT !.thread = "returned"] \in LoopRecord
          /\ [loop[l] EXCEPT !.thread = "returned"].live = loop[l].live
      BY <1>2, <2>2, RecordUpdates
    <2>5. loop' = [loop EXCEPT ![l] = [loop[l] EXCEPT !.thread = "returned"]]
      BY <2>3
    <2>6. PoolTyped' /\ PoolHeld'
      <3>1. quitting' \in Nat \X {"no", "request", "join", "delete"}
        BY <1>2, <2>3 DEF PoolTyped
      <3>2. QED
        BY <1>2, <2>2, <2>3, <2>4, <2>5, <3>1, LoopUpdated
    <2>7. QuitAtLast' /\ (open' /\ quitting' = NotQuitting => Turn')
      BY <1>2, <2>3 DEF QuitAtLast, Turn, Out, Sooner
    <2>8. QED
      BY <2>6, <2>7 DEF PoolInv
  <1>16. ~eventLoopStart /\ ~eventLoopGetNextEventLoop /\ ~eventLoopQuit
    BY <1>1 DEF eventLoopStart, eventLoopGetNextEventLoop, eventLoopQuit
  <1>17. QED
    BY <1>4, <1>6, <1>7, <1>8, <1>9, <1>10, <1>11, <1>12, <1>13, <1>14, <1>15, <1>16 DEF PoolNext, QuitStep

(* Only start(), which forgets the turns, and a call that hands a loop out in
   turn change the history. *)
LEMMA TurnStep ==
    ASSUME PoolInv, [PoolNext]_poolVars, variant = "EL", since' # since,
           NEW l \in DOMAIN since', since'[l] = {}
    PROVE  /\ loop'[l].live
           /\ l \in DOMAIN since => Range(loops_) \ {l} \subseteq since[l]
  <1>1. CASE elStart
    <2>1. since' = <<>>
      BY <1>1 DEF elStart, ELOpenLoop, Started
    <2>2. QED
      BY <2>1
  <1>2. CASE elGetNextEventLoop
    <2>1. PICK c, k : Handing(c, k) /\ loop'[k].live
      BY <1>2, NextCases
    <2>2. l = k
      BY <2>1 DEF Handing
    <2>3. PoolTyped /\ Turn
      BY <1>2 DEF PoolInv, elGetNextEventLoop, Calling
    <2>4. QED
      BY <2>1, <2>2, <2>3, HandingInTurn
  <1>3. CASE ~elStart /\ ~elGetNextEventLoop
    BY <1>3 DEF PoolNext, poolVars, eventLoopStart, eventLoopGetNextEventLoop, getNextEventLoopUnset, setMaxThreads,
                elQuit, eventLoopQuit, QuitStep, requestQuit, joinThread, elDeleteLoop, quitReturn, ThreadStep,
                runInThread, Crash
  <1>4. QED
    BY <1>1, <1>2, <1>3

(* ELThreadpool::getNextEventLoop for any number of processors, any limits and
   any number of loops: no loop comes up again before every other loop of the
   pool has had its turn, and none that quit() has deleted. *)
THEOREM HandedOutInTurnHolds == PoolSpec => HandedOutInTurn
<1>1. PoolInit => PoolInv
  <2>. SUFFICES ASSUME PoolInit PROVE PoolTyped /\ PoolHeld /\ QuitAtLast /\ ~open
    BY DEF PoolInv
  <2>2. PoolTyped
    BY DEF PoolInit, PoolTyped, getNumberOfProcessors, NotQuitting
  <2>3. capacity \in Nat \ {0}
    BY <2>2, CapacityFacts DEF PoolTyped
  <2>4. loops_ = <<>> /\ Len(loops_) = 0 /\ MaxThreads_ = 0
    BY DEF PoolInit
  <2> HIDE DEF capacity
  <2>5. PoolHeld
    BY <2>3, <2>4 DEF PoolHeld
  <2>6. QED
    BY <2>2, <2>5 DEF PoolInit, QuitAtLast
<1>2. PoolInv /\ [PoolNext]_poolVars => PoolInv'
  BY PoolStep
<1>3. PoolInv /\ [PoolNext]_poolVars =>
        [ variant = "EL" /\ since' # since =>
            \A l \in DOMAIN since' :
              since'[l] = {} => /\ loop'[l].live
                                /\ l \in DOMAIN since => Range(loops_) \ {l} \subseteq since[l] ]_poolVars
  BY TurnStep
<1>. QED BY <1>1, <1>2, <1>3, PTL DEF PoolSpec, HandedOutInTurn

-----------------------------------------------------------------------------
(* Dns *)

Buckets == 0 .. DNS_BUCKET_SIZE - 1
Entry == [task : Tasks, no : Nat]
EntriesOf(t) == {e \in Entries : e.task = t}

DnsTyped ==
    /\ bucket_ \in [Buckets -> Seq(Entry)] /\ current_ \in Nat /\ count_ \in Int
    /\ posted \in [Tasks -> Nat] /\ addresses \in [Tasks -> Nat] /\ requested \in [Tasks -> Nat]
    /\ asked \subseteq Nat
    /\ datagrams \in Seq([id : Nat, response : BOOLEAN, answers : Answers \cup {<<>>}])
    /\ response # None => response.id \in Nat

(* An entry is in the table once, and belongs to a request made before. *)
EntriesOnce ==
    /\ \A i \in Buckets : \A k \in 1 .. Len(bucket_[i]) : bucket_[i][k].no < current_
    /\ \A i, j \in Buckets : \A k \in 1 .. Len(bucket_[i]), l \in 1 .. Len(bucket_[j]) :
         bucket_[i][k].no = bucket_[j][l].no => i = j /\ k = l

(* A request is still in the table, or it may have been posted. *)
Accounted ==
    \A t \in Tasks : /\ posted[t] + Cardinality(EntriesOf(t)) <= requested[t]
                     /\ posted[t] <= addresses[t]

(* The inductive invariant of Dns. *)
DnsInv ==
    /\ DnsTyped /\ EntriesOnce /\ Accounted
    /\ IsFiniteSet(Entries)
    /\ ~dnsStopped => count_ = Cardinality(Entries)

(* A place of a bucket is one of its entries, and the other way round. *)
LEMMA EntryPlaces ==
    ASSUME DnsTyped
    PROVE  /\ \A e : e \in Entries <=> \E i \in Buckets : \E k \in 1 .. Len(bucket_[i]) : e = bucket_[i][k]
           /\ \A i \in Buckets : Len(bucket_[i]) \in Nat
           /\ Entries \subseteq Entry
  <1>1. \A i \in Buckets : /\ bucket_[i] \in Seq(Entry) /\ Len(bucket_[i]) \in Nat
                           /\ DOMAIN bucket_[i] = 1 .. Len(bucket_[i])
                           /\ \A k \in 1 .. Len(bucket_[i]) : bucket_[i][k] \in Entry
    BY LenProperties, ElementOfSeq DEF DnsTyped
  <1>2. DOMAIN bucket_ = Buckets
    BY DEF DnsTyped
  <1>3. ASSUME NEW e PROVE e \in Entries <=> \E i \in Buckets : e \in Range(bucket_[i])
    BY <1>2 DEF Entries
  <1>4. ASSUME NEW e PROVE e \in Entries <=> \E i \in Buckets : \E k \in 1 .. Len(bucket_[i]) : e = bucket_[i][k]
    BY <1>1, <1>3 DEF Range
  <1>5. QED
    BY <1>1, <1>4

(* The sequence with the element at place p taken out. *)
LEMMA RemoveAtFacts ==
    ASSUME NEW S, NEW s \in Seq(S), NEW p \in 1 .. Len(s)
    PROVE  /\ RemoveAt(s, p) \in Seq(S) /\ Len(s) \in Nat /\ Len(RemoveAt(s, p)) = Len(s) - 1
           /\ \A k \in 1 .. Len(s) - 1 : RemoveAt(s, p)[k] = IF k < p THEN s[k] ELSE s[k + 1]
  <1> DEFINE a == SubSeq(s, 1, p - 1)
             b == SubSeq(s, p + 1, Len(s))
             n == Len(s)
  <1>1. n \in Nat
    BY LenProperties
  <1>2. a \in Seq(S) /\ Len(a) = p - 1 /\ \A k \in 1 .. p - 1 : a[k] = s[k]
    BY <1>1
  <1>3. b \in Seq(S) /\ Len(b) = n - p /\ \A k \in 1 .. n - p : b[k] = s[p + k]
    BY <1>1
  <1> HIDE DEF a, b
  <1>4. /\ a \o b \in Seq(S) /\ Len(a \o b) = Len(a) + Len(b)
        /\ \A k \in 1 .. Len(a) + Len(b) : (a \o b)[k] = IF k <= Len(a) THEN a[k] ELSE b[k - Len(a)]
    BY <1>2, <1>3, ConcatProperties
  <1>5. RemoveAt(s, p) = a \o b
    BY DEF RemoveAt, a, b
  <1> HIDE DEF n
  <1>6. Len(a) + Len(b) = n - 1 /\ p \in Nat /\ p <= n
    BY <1>1, <1>2, <1>3 DEF n
  <1>7. ASSUME NEW k \in 1 .. n - 1 PROVE (a \o b)[k] = IF k < p THEN s[k] ELSE s[k + 1]
    <2>1. CASE k < p
      <3>1. k \in 1 .. p - 1 /\ k <= Len(a) /\ k \in 1 .. Len(a) + Len(b)
        BY <1>2, <1>6, <2>1
      <3>2. QED
        BY <1>2, <1>4, <2>1, <3>1
    <2>2. CASE ~(k < p)
      <3>1. k - Len(a) \in 1 .. n - p /\ ~(k <= Len(a)) /\ p + (k - Len(a)) = k + 1 /\ k \in 1 .. Len(a) + Len(b)
        BY <1>1, <1>2, <1>6, <2>2
      <3>2. QED
        BY <1>3, <1>4, <2>2, <3>1
    <2>3. QED
      BY <2>1, <2>2
  <1>8. QED
    BY <1>1, <1>4, <1>5, <1>6, <1>7 DEF n

(* request() enters one entry, of the request's own number. *)
LEMMA EntryAdded ==
    ASSUME DnsTyped, EntriesOnce, NEW t \in Tasks, NEW b \in Buckets,
           bucket_' = [bucket_ EXCEPT ![b] = <<[task |-> t, no |-> current_]>> \o @],
           current_' = current_ + 1
    PROVE  /\ bucket_' \in [Buckets -> Seq(Entry)] /\ EntriesOnce'
           /\ [task |-> t, no |-> current_] \notin Entries
           /\ Entries' = Entries \cup {[task |-> t, no |-> current_]}
  <1> DEFINE e == [task |-> t, no |-> current_]
             s == bucket_[b]
             u == <<e>> \o s
  <1>1. e \in Entry /\ s \in Seq(Entry) /\ Len(s) \in Nat /\ e.no = current_
    BY LenProperties DEF DnsTyped, Entry
  <1>2. /\ u \in Seq(Entry) /\ Len(u) = Len(s) + 1 /\ u[1] = e
        /\ \A k \in 1 .. Len(s) : u[k + 1] = s[k]
    <2> HIDE DEF e, s
    <2>1. <<e>> \in Seq(Entry) /\ Len(<<e>>) = 1 /\ <<e>>[1] = e
      BY <1>1
    <2>2. /\ u \in Seq(Entry) /\ Len(u) = Len(<<e>>) + Len(s)
          /\ \A k \in 1 .. Len(<<e>>) + Len(s) : u[k] = IF k <= Len(<<e>>) THEN <<e>>[k] ELSE s[k - Len(<<e>>)]
      BY <1>1, <2>1, ConcatProperties
    <2> HIDE DEF u
    <2>3. 1 \in 1 .. Len(<<e>>) + Len(s) /\ 1 <= Len(<<e>>) /\ Len(u) = Len(s) + 1
      BY <1>1, <2>1, <2>2
    <2>4. ASSUME NEW k \in 1 .. Len(s) PROVE u[k + 1] = s[k]
      <3>1. k + 1 \in 1 .. Len(<<e>>) + Len(s) /\ ~(k + 1 <= Len(<<e>>)) /\ k + 1 - Len(<<e>>) = k
        BY <1>1, <2>1
      <3>2. QED
        BY <2>2, <3>1
    <2>5. QED
      BY <2>1, <2>2, <2>3, <2>4
  <1> HIDE DEF u
  <1>3. \A k \in 1 .. Len(u) : (k = 1 /\ u[k] = e) \/ (k - 1 \in 1 .. Len(s) /\ u[k] = s[k - 1])
    <2>1. ASSUME NEW k \in 1 .. Len(u), k # 1 PROVE k - 1 \in 1 .. Len(s) /\ u[k] = s[k - 1]
      <3>1. k - 1 \in 1 .. Len(s) /\ (k - 1) + 1 = k
        BY <1>1, <1>2, <2>1
      <3>2. QED
        BY <1>2, <3>1
    <2>2. QED
      BY <1>2, <2>1
  <1>4. /\ bucket_' \in [Buckets -> Seq(Entry)]
        /\ \A i \in Buckets : bucket_'[i] = IF i = b THEN u ELSE bucket_[i]
    <2>1. bucket_' = [bucket_ EXCEPT ![b] = u]
      BY DEF u
    <2>2. QED
      BY <1>2, <2>1 DEF DnsTyped
  <1>5. /\ \A i \in Buckets : \A k \in 1 .. Len(bucket_[i]) : bucket_[i][k].no < current_ /\ bucket_[i][k].no \in Nat
        /\ \A i, j \in Buckets : \A k \in 1 .. Len(bucket_[i]), l \in 1 .. Len(bucket_[j]) :
             bucket_[i][k].no = bucket_[j][l].no => i = j /\ k = l
    <2>1. \A i \in Buckets : \A k \in 1 .. Len(bucket_[i]) : bucket_[i][k] \in Entry
      BY ElementOfSeq DEF DnsTyped
    <2>2. QED
      BY <2>1 DEF EntriesOnce, Entry
  <1>6. current_ \in Nat
    BY DEF DnsTyped
  <1>7. e \notin Entries
    <2> HIDE DEF e
    <2>1. QED
      BY <1>1, <1>5, <1>6, EntryPlaces, SMTT(20)
  <1> HIDE DEF e, s
  <1>8. ASSUME NEW i \in Buckets, NEW k \in 1 .. Len(bucket_'[i])
        PROVE  \/ i = b /\ k = 1 /\ bucket_'[i][k] = e
               \/ i = b /\ k - 1 \in 1 .. Len(bucket_[i]) /\ bucket_'[i][k] = bucket_[i][k - 1]
               \/ i # b /\ k \in 1 .. Len(bucket_[i]) /\ bucket_'[i][k] = bucket_[i][k]
    BY <1>3, <1>4, <1>8 DEF s
  <1>old. ASSUME NEW i \in Buckets, NEW k \in 1 .. Len(bucket_'[i])
          PROVE  \/ i = b /\ k = 1 /\ bucket_'[i][k] = e
                 \/ bucket_'[i][k].no \in Nat /\ bucket_'[i][k].no < current_
    <2>1. \/ i = b /\ k = 1 /\ bucket_'[i][k] = e
          \/ \E q \in 1 .. Len(bucket_[i]) : bucket_'[i][k] = bucket_[i][q]
      BY <1>8
    <2>2. QED
      BY <1>5, <2>1
  <1>9. EntriesOnce'
    <2>1. ASSUME NEW i \in Buckets, NEW k \in 1 .. Len(bucket_'[i]) PROVE bucket_'[i][k].no < current_'
      <3>1. bucket_'[i][k].no = current_ \/ (bucket_'[i][k].no \in Nat /\ bucket_'[i][k].no < current_)
        BY <1>1, <1>old
      <3>2. QED
        BY <1>6, <3>1
    <2>2. ASSUME NEW i \in Buckets, NEW j \in Buckets, NEW k \in 1 .. Len(bucket_'[i]),
                 NEW l \in 1 .. Len(bucket_'[j]), bucket_'[i][k].no = bucket_'[j][l].no
          PROVE  i = j /\ k = l
      <3>1. CASE bucket_'[i][k] = e /\ i = b /\ k = 1
        <4>1. ~(bucket_'[j][l].no \in Nat /\ bucket_'[j][l].no < current_)
          BY <1>1, <1>6, <2>2, <3>1
        <4>2. QED
          BY <1>old, <3>1, <4>1
      <3>2. CASE bucket_'[j][l] = e /\ j = b /\ l = 1
        <4>1. ~(bucket_'[i][k].no \in Nat /\ bucket_'[i][k].no < current_)
          BY <1>1, <1>6, <2>2, <3>2
        <4>2. QED
          BY <1>old, <3>2, <4>1
      <3>3. CASE /\ ~(bucket_'[i][k] = e /\ i = b /\ k = 1)
                 /\ ~(bucket_'[j][l] = e /\ j = b /\ l = 1)
        <4>1. \/ i = b /\ k - 1 \in 1 .. Len(bucket_[i]) /\ bucket_'[i][k] = bucket_[i][k - 1]
              \/ i # b /\ k \in 1 .. Len(bucket_[i]) /\ bucket_'[i][k] = bucket_[i][k]
          BY <1>8, <3>3
        <4>2. \/ j = b /\ l - 1 \in 1 .. Len(bucket_[j]) /\ bucket_'[j][l] = bucket_[j][l - 1]
              \/ j # b /\ l \in 1 .. Len(bucket_[j]) /\ bucket_'[j][l] = bucket_[j][l]
          BY <1>8, <3>3
        <4>3. i = j /\ (i = b => k - 1 = l - 1) /\ (i # b => k = l)
          BY <1>5, <2>2, <4>1, <4>2, SMTT(20)
        <4>4. k \in Int /\ l \in Int
          OBVIOUS
        <4>5. QED
          BY <4>3, <4>4
      <3>4. QED
        BY <3>1, <3>2, <3>3
    <2>3. QED
      BY <2>1, <2>2 DEF EntriesOnce
  <1>10. Entries' = Entries \cup {e}
    <2>1. \A i \in Buckets : Len(bucket_'[i]) \in Nat /\ DOMAIN bucket_'[i] = 1 .. Len(bucket_'[i])
      BY <1>4, LenProperties
    <2>2. DOMAIN bucket_' = Buckets
      BY <1>4
    <2>3. \A x : x \in Entries' <=> \E i \in Buckets : \E k \in 1 .. Len(bucket_'[i]) : x = bucket_'[i][k]
      BY <2>1, <2>2, SMTT(20) DEF Entries, Range
    <2>4. \A x : x \in Entries <=> \E i \in Buckets : \E k \in 1 .. Len(bucket_[i]) : x = bucket_[i][k]
      BY EntryPlaces
    <2>5. ASSUME NEW x \in Entries' PROVE x \in Entries \cup {e}
      BY <1>8, <2>3, <2>4
    <2>6. ASSUME NEW x \in Entries PROVE x \in Entries'
      <3>0. PICK i \in Buckets : \E k \in 1 .. Len(bucket_[i]) : x = bucket_[i][k]
        BY <2>4
      <3>1. PICK k \in 1 .. Len(bucket_[i]) : x = bucket_[i][k]
        BY <3>0
      <3>2. CASE i = b
        <4>1. k + 1 \in 1 .. Len(bucket_'[i]) /\ bucket_'[i][k + 1] = x
          BY <1>1, <1>2, <1>4, <3>1, <3>2 DEF s
        <4>2. QED
          BY <2>3, <4>1
      <3>3. CASE i # b
        BY <1>4, <2>3, <3>1, <3>3
      <3>4. QED
        BY <3>2, <3>3
    <2>7. e \in Entries'
      <3>0. bucket_'[b] = u
        BY <1>4
      <3>1. 1 \in 1 .. Len(bucket_'[b]) /\ bucket_'[b][1] = e
        BY <1>1, <1>2, <3>0
      <3>2. QED
        BY <2>3, <3>1
    <2>8. QED
      BY <2>5, <2>6, <2>7
  <1>11. QED
    BY <1>4, <1>7, <1>9, <1>10 DEF e

(* find_query takes one entry out, and only that one. *)
LEMMA EntryRemoved ==
    ASSUME DnsTyped, EntriesOnce, NEW b \in Buckets, NEW p \in 1 .. Len(bucket_[b]),
           bucket_' = [bucket_ EXCEPT ![b] = RemoveAt(@, p)], current_' = current_
    PROVE  /\ bucket_' \in [Buckets -> Seq(Entry)] /\ EntriesOnce'
           /\ bucket_[b][p] \in Entries
           /\ Entries' = Entries \ {bucket_[b][p]}
  <1> DEFINE s == bucket_[b]
             u == RemoveAt(s, p)
             n == Len(s)
             from(i, k) == IF i = b /\ k >= p THEN k + 1 ELSE k
  <1>1. s \in Seq(Entry) /\ n \in Nat /\ p \in Nat /\ p <= n
    BY LenProperties DEF DnsTyped
  <1>2. u \in Seq(Entry) /\ Len(u) = n - 1 /\ \A k \in 1 .. n - 1 : u[k] = IF k < p THEN s[k] ELSE s[k + 1]
    BY <1>1, RemoveAtFacts
  <1> HIDE DEF u
  <1>3. /\ bucket_' \in [Buckets -> Seq(Entry)]
        /\ \A i \in Buckets : bucket_'[i] = IF i = b THEN u ELSE bucket_[i]
    <2>1. bucket_' = [bucket_ EXCEPT ![b] = u]
      BY DEF u
    <2>2. QED
      BY <1>2, <2>1 DEF DnsTyped
  <1>4. \A i \in Buckets : Len(bucket_[i]) \in Nat
    BY EntryPlaces
  <1>5. ASSUME NEW i \in Buckets, NEW k \in 1 .. Len(bucket_'[i])
        PROVE  /\ from(i, k) \in 1 .. Len(bucket_[i]) /\ bucket_'[i][k] = bucket_[i][from(i, k)]
               /\ ~(i = b /\ from(i, k) = p)
    <2>1. CASE i = b
      <3>1. bucket_'[i] = u /\ k \in 1 .. n - 1
        BY <1>2, <1>3, <2>1
      <3>2. bucket_'[i][k] = IF k < p THEN s[k] ELSE s[k + 1]
        BY <1>2, <3>1
      <3>3. CASE k < p
        BY <1>1, <2>1, <3>1, <3>2, <3>3
      <3>4. CASE ~(k < p)
        BY <1>1, <2>1, <3>1, <3>2, <3>4
      <3>5. QED
        BY <3>3, <3>4
    <2>2. CASE i # b
      BY <1>3, <2>2
    <2>3. QED
      BY <2>1, <2>2
  <1>6. ASSUME NEW i \in Buckets, NEW q \in 1 .. Len(bucket_[i]), ~(i = b /\ q = p)
        PROVE  \E k \in 1 .. Len(bucket_'[i]) : bucket_'[i][k] = bucket_[i][q]
    <2>1. CASE i = b
      <3>1. bucket_'[i] = u
        BY <1>3, <2>1
      <3>2. CASE q < p
        <4>1. q \in 1 .. n - 1 /\ u[q] = s[q]
          BY <1>1, <1>2, <2>1, <3>2
        <4>2. QED
          BY <1>2, <2>1, <3>1, <4>1
      <3>3. CASE ~(q < p)
        <4>1. q - 1 \in 1 .. n - 1 /\ ~(q - 1 < p) /\ (q - 1) + 1 = q
          BY <1>1, <1>6, <2>1, <3>3
        <4>2. u[q - 1] = s[q]
          BY <1>2, <4>1
        <4>3. QED
          BY <1>2, <2>1, <3>1, <4>1, <4>2
      <3>4. QED
        BY <3>2, <3>3
    <2>2. CASE i # b
      BY <1>3, <2>2
    <2>3. QED
      BY <2>1, <2>2
  <1>7. EntriesOnce'
    <2>1. ASSUME NEW i \in Buckets, NEW k \in 1 .. Len(bucket_'[i]) PROVE bucket_'[i][k].no < current_'
      BY <1>5 DEF EntriesOnce
    <2>2. ASSUME NEW i \in Buckets, NEW j \in Buckets, NEW k \in 1 .. Len(bucket_'[i]),
                 NEW l \in 1 .. Len(bucket_'[j]), bucket_'[i][k].no = bucket_'[j][l].no
          PROVE  i = j /\ k = l
      <3> HIDE DEF from
      <3>0. /\ from(i, k) \in 1 .. Len(bucket_[i]) /\ from(j, l) \in 1 .. Len(bucket_[j])
            /\ bucket_'[i][k] = bucket_[i][from(i, k)] /\ bucket_'[j][l] = bucket_[j][from(j, l)]
        BY <1>5
      <3>1. i = j /\ from(i, k) = from(j, l)
        BY <2>2, <3>0, SMTT(20) DEF EntriesOnce
      <3>2. k \in Int /\ l \in Int
        OBVIOUS
      <3>3. k = l
        BY <1>1, <3>1, <3>2 DEF from
      <3>4. QED
        BY <3>1, <3>3
    <2>3. QED
      BY <2>1, <2>2 DEF EntriesOnce
  <1> HIDE DEF from, s, n
  <1>8. Entries' = Entries \ {bucket_[b][p]}
    <2>1. \A i \in Buckets : DOMAIN bucket_'[i] = 1 .. Len(bucket_'[i])
      BY <1>3, LenProperties
    <2>2. DOMAIN bucket_' = Buckets
      BY <1>3
    <2>3. \A x : x \in Entries' <=> \E i \in Buckets : \E k \in 1 .. Len(bucket_'[i]) : x = bucket_'[i][k]
      BY <2>1, <2>2 DEF Entries, Range
    <2>4. \A x : x \in Entries <=> \E i \in Buckets : \E k \in 1 .. Len(bucket_[i]) : x = bucket_[i][k]
      BY EntryPlaces
    <2>5. ASSUME NEW x \in Entries' PROVE x \in Entries /\ x # bucket_[b][p]
      <3>0. PICK i \in Buckets : \E k \in 1 .. Len(bucket_'[i]) : x = bucket_'[i][k]
        BY <2>3
      <3>1. PICK k \in 1 .. Len(bucket_'[i]) : x = bucket_'[i][k]
        BY <3>0
      <3>2. /\ from(i, k) \in 1 .. Len(bucket_[i]) /\ x = bucket_[i][from(i, k)]
            /\ ~(i = b /\ from(i, k) = p)
        BY <1>5, <3>1
      <3>3. QED
        BY <2>4, <3>2 DEF EntriesOnce
    <2>6. ASSUME NEW x \in Entries, x # bucket_[b][p] PROVE x \in Entries'
      <3>0. PICK i \in Buckets : \E q \in 1 .. Len(bucket_[i]) : x = bucket_[i][q]
        BY <2>4
      <3>1. PICK q \in 1 .. Len(bucket_[i]) : x = bucket_[i][q]
        BY <3>0
      <3>2. \E k \in 1 .. Len(bucket_'[i]) : bucket_'[i][k] = x
        BY <1>6, <2>6, <3>1
      <3>3. QED
        BY <2>3, <3>2
    <2>7. QED
      BY <2>5, <2>6
  <1>9. bucket_[b][p] \in Entries
    BY EntryPlaces
  <1>10. QED
    BY <1>3, <1>7, <1>8, <1>9

(* How many entries each task has after one of them came or went. *)
LEMMA EntriesCounted ==
    ASSUME IsFiniteSet(Entries), NEW e
    PROVE  /\ Cardinality(Entries) \in Nat /\ \A t : Cardinality(EntriesOf(t)) \in Nat
           /\ e \notin Entries /\ Entries' = Entries \cup {e} =>
                /\ IsFiniteSet(Entries') /\ Cardinality(Entries') = Cardinality(Entries) + 1
                /\ \A t : Cardinality(EntriesOf(t)') = IF t = e.task THEN Cardinality(EntriesOf(t)) + 1
                                                       ELSE Cardinality(EntriesOf(t))
           /\ e \in Entries /\ Entries' = Entries \ {e} =>
                /\ IsFiniteSet(Entries') /\ Cardinality(Entries') = Cardinality(Entries) - 1
                /\ \A t : Cardinality(EntriesOf(t)') = IF t = e.task THEN Cardinality(EntriesOf(t)) - 1
                                                       ELSE Cardinality(EntriesOf(t))
  <1>1. ASSUME NEW t PROVE IsFiniteSet(EntriesOf(t)) /\ Cardinality(EntriesOf(t)) \in Nat
    <2>1. EntriesOf(t) \in SUBSET Entries
      BY DEF EntriesOf
    <2>2. IsFiniteSet(EntriesOf(t))
      BY <2>1, FS_Subset
    <2>3. QED
      BY <2>2, FS_CardinalityType
  <1>2. Cardinality(Entries) \in Nat
    BY FS_CardinalityType
  <1>3. ASSUME e \notin Entries, Entries' = Entries \cup {e}
        PROVE  /\ IsFiniteSet(Entries') /\ Cardinality(Entries') = Cardinality(Entries) + 1
               /\ \A t : Cardinality(EntriesOf(t)') = IF t = e.task THEN Cardinality(EntriesOf(t)) + 1
                                                      ELSE Cardinality(EntriesOf(t))
    <2>1. IsFiniteSet(Entries') /\ Cardinality(Entries') = Cardinality(Entries) + 1
      BY <1>3, FS_AddElement
    <2>2. ASSUME NEW t PROVE Cardinality(EntriesOf(t)') = IF t = e.task THEN Cardinality(EntriesOf(t)) + 1
                                                          ELSE Cardinality(EntriesOf(t))
      <3>1. CASE t = e.task
        <4>1. EntriesOf(t)' = EntriesOf(t) \cup {e} /\ e \notin EntriesOf(t)
          BY <1>3, <3>1 DEF EntriesOf
        <4>2. QED
          BY <1>1, <3>1, <4>1, FS_AddElement
      <3>2. CASE t # e.task
        <4>1. EntriesOf(t)' = EntriesOf(t)
          BY <1>3, <3>2 DEF EntriesOf
        <4>2. QED
          BY <3>2, <4>1
      <3>3. QED
        BY <3>1, <3>2
    <2>3. QED
      BY <2>1, <2>2
  <1>4. ASSUME e \in Entries, Entries' = Entries \ {e}
        PROVE  /\ IsFiniteSet(Entries') /\ Cardinality(Entries') = Cardinality(Entries) - 1
               /\ \A t : Cardinality(EntriesOf(t)') = IF t = e.task THEN Cardinality(EntriesOf(t)) - 1
                                                      ELSE Cardinality(EntriesOf(t))
    <2>1. IsFiniteSet(Entries') /\ Cardinality(Entries') = Cardinality(Entries) - 1
      BY <1>4, FS_RemoveElement
    <2>2. ASSUME NEW t PROVE Cardinality(EntriesOf(t)') = IF t = e.task THEN Cardinality(EntriesOf(t)) - 1
                                                          ELSE Cardinality(EntriesOf(t))
      <3>1. CASE t = e.task
        <4>1. EntriesOf(t)' = EntriesOf(t) \ {e} /\ e \in EntriesOf(t)
          BY <1>4, <3>1 DEF EntriesOf
        <4>2. QED
          BY <1>1, <3>1, <4>1, FS_RemoveElement
      <3>2. CASE t # e.task
        <4>1. EntriesOf(t)' = EntriesOf(t)
          BY <1>4, <3>2 DEF EntriesOf
        <4>2. QED
          BY <3>2, <4>1
      <3>3. QED
        BY <3>1, <3>2
    <2>3. QED
      BY <2>1, <2>2
  <1>5. QED
    BY <1>1, <1>2, <1>3, <1>4

(* Steps that leave the table and the results alone. *)
LEMMA TableKept ==
    ASSUME DnsInv, UNCHANGED <<tableVars, resultVars, dnsStopped>>,
           datagrams' \in Seq([id : Nat, response : BOOLEAN, answers : Answers \cup {<<>>}]),
           response' # None => response'.id \in Nat
    PROVE  DnsInv'
  <1>1. Entries' = Entries /\ \A t : EntriesOf(t)' = EntriesOf(t)
    BY DEF Entries, EntriesOf, tableVars
  <1>2. DnsTyped' /\ EntriesOnce'
    BY DEF DnsInv, DnsTyped, EntriesOnce, tableVars, resultVars
  <1>3. Accounted'
    BY <1>1 DEF DnsInv, Accounted, tableVars, resultVars
  <1>4. QED
    BY <1>1, <1>2, <1>3 DEF DnsInv, tableVars

(* An id has its bucket. *)
LEMMA BucketOf ==
    ASSUME NEW id \in Nat
    PROVE  id % DNS_BUCKET_SIZE \in Buckets /\ id % IdCount \in Nat
  BY DnsAssumption DEF Buckets

(* request: an entry for the request, or none when the name cannot be coded. *)
LEMMA RequestAccounted ==
    ASSUME DnsInv, NEW t \in Tasks, NEW name \in Names, request(t, name)
    PROVE  DnsInv'
  <1> DEFINE id == current_ % IdCount
             b == id % DNS_BUCKET_SIZE
             e == [task |-> t, no |-> current_]
  <1>1. DnsTyped /\ EntriesOnce /\ Accounted /\ IsFiniteSet(Entries) /\ current_ \in Nat
    BY DEF DnsInv, DnsTyped
  <1>2. id \in Nat /\ b \in Buckets
    BY <1>1, BucketOf
  <1>3. /\ current_' = current_ + 1
        /\ UNCHANGED <<dnsStopped, datagrams, response, addresses, posted>>
        /\ \/ /\ bucket_' = [bucket_ EXCEPT ![b] = <<e>> \o @]
              /\ count_' = count_ + 1 /\ requested' = [requested EXCEPT ![t] = @ + 1]
              /\ asked' = IF server THEN asked \cup {id} ELSE asked
           \/ UNCHANGED <<bucket_, count_, requested, asked>>
    BY DEF request, resultVars
  <1> HIDE DEF id, b
  <1>4. CASE UNCHANGED <<bucket_, count_, requested, asked>>
    <2>1. Entries' = Entries /\ \A u : EntriesOf(u)' = EntriesOf(u)
      BY <1>4 DEF Entries, EntriesOf
    <2>2. DnsTyped'
      BY <1>1, <1>3, <1>4 DEF DnsTyped
    <2>3. EntriesOnce'
      <3>1. \A i \in Buckets : \A k \in 1 .. Len(bucket_[i]) : bucket_[i][k].no \in Nat
        <4>1. \A i \in Buckets : \A k \in 1 .. Len(bucket_[i]) : bucket_[i][k] \in Entry
          BY <1>1, ElementOfSeq DEF DnsTyped
        <4>2. QED
          BY <4>1 DEF Entry
      <3>2. QED
        BY <1>1, <1>3, <1>4, <3>1, SMTT(20) DEF EntriesOnce
    <2>4. Accounted'
      BY <1>1, <1>3, <1>4, <2>1 DEF Accounted
    <2>5. QED
      BY <1>1, <1>3, <1>4, <2>1, <2>2, <2>3, <2>4 DEF DnsInv
  <1>5. CASE /\ bucket_' = [bucket_ EXCEPT ![b] = <<e>> \o @]
             /\ count_' = count_ + 1 /\ requested' = [requested EXCEPT ![t] = @ + 1]
             /\ asked' = IF server THEN asked \cup {id} ELSE asked
    <2>1. /\ bucket_' \in [Buckets -> Seq(Entry)] /\ EntriesOnce'
          /\ e \notin Entries /\ Entries' = Entries \cup {e}
      BY <1>1, <1>2, <1>3, <1>5, EntryAdded
    <2>2. e.task = t
      OBVIOUS
    <2> HIDE DEF e
    <2>3. /\ Cardinality(Entries) \in Nat /\ \A u : Cardinality(EntriesOf(u)) \in Nat
          /\ IsFiniteSet(Entries') /\ Cardinality(Entries') = Cardinality(Entries) + 1
          /\ \A u : Cardinality(EntriesOf(u)') = IF u = e.task THEN Cardinality(EntriesOf(u)) + 1
                                                 ELSE Cardinality(EntriesOf(u))
      BY <1>1, <2>1, EntriesCounted
    <2>4. DnsTyped'
      BY <1>1, <1>2, <1>3, <1>5, <2>1 DEF DnsTyped
    <2>5. ASSUME NEW u \in Tasks
          PROVE  posted'[u] + Cardinality(EntriesOf(u)') <= requested'[u] /\ posted'[u] <= addresses'[u]
      <3>1. /\ posted[u] \in Nat /\ requested[u] \in Nat /\ posted' = posted /\ addresses' = addresses
            /\ requested'[u] = IF u = t THEN requested[u] + 1 ELSE requested[u]
        BY <1>1, <1>3, <1>5 DEF DnsTyped
      <3>2. Cardinality(EntriesOf(u)) \in Nat
            /\ Cardinality(EntriesOf(u)') = IF u = t THEN Cardinality(EntriesOf(u)) + 1
                                            ELSE Cardinality(EntriesOf(u))
        BY <2>2, <2>3
      <3>3. posted[u] + Cardinality(EntriesOf(u)) <= requested[u] /\ posted[u] <= addresses[u]
        BY <1>1 DEF Accounted
      <3>4. QED
        BY <3>1, <3>2, <3>3
    <2>6. QED
      BY <1>3, <1>5, <2>1, <2>3, <2>4, <2>5 DEF DnsInv, Accounted
  <1>6. QED
    BY <1>3, <1>4, <1>5

(* A record that finds its query: the entry goes, the task has one address
   more, and perhaps it is posted. *)
LEMMA RecordAccounted ==
    ASSUME DnsInv, recordFound
    PROVE  DnsInv'
  <1> DEFINE b == response.id % DNS_BUCKET_SIZE
  <1>0. PICK p \in Stops(response.id) :
          /\ addresses' = [addresses EXCEPT ![bucket_[b][p].task] = @ + 1]
          /\ posted' = IF LastRecord THEN [posted EXCEPT ![bucket_[b][p].task] = @ + 1] ELSE posted
          /\ find_query(response.id, p)
    BY DEF recordFound, Bucket
  <1> DEFINE e == bucket_[b][p]
             t == e.task
  <1>1. DnsTyped /\ EntriesOnce /\ Accounted /\ IsFiniteSet(Entries) /\ response.id \in Nat
    BY DEF DnsInv, DnsTyped, recordFound, AtRecord
  <1>2. b \in Buckets
    BY <1>1, BucketOf
  <1>3. bucket_[b] \in Seq(Entry) /\ DOMAIN bucket_[b] = 1 .. Len(bucket_[b]) /\ Len(bucket_[b]) \in Nat
    BY <1>1, <1>2, LenProperties DEF DnsTyped
  <1>4. p \in 1 .. Len(bucket_[b])
    BY <1>3 DEF Stops, Bucket
  <1>5. /\ bucket_' = [bucket_ EXCEPT ![b] = RemoveAt(@, p)] /\ count_' = count_ - 1
        /\ addresses' = [addresses EXCEPT ![t] = @ + 1]
        /\ posted' = [posted EXCEPT ![t] = @ + 1] \/ posted' = posted
        /\ UNCHANGED <<dnsStopped, current_, asked, datagrams, requested>>
    BY <1>0 DEF recordFound, find_query
  <1>6. response' # None => response'.id \in Nat
    BY <1>1 DEF recordFound, RecordsLeft
  <1>7. e \in Entry /\ t \in Tasks
    <2>1. e \in Entry
      BY <1>3, <1>4, ElementOfSeq
    <2>2. QED
      BY <2>1 DEF Entry
  <1> HIDE DEF b
  <1>8. /\ bucket_' \in [Buckets -> Seq(Entry)] /\ EntriesOnce'
        /\ e \in Entries /\ Entries' = Entries \ {e}
    BY <1>1, <1>2, <1>4, <1>5, EntryRemoved
  <1> HIDE DEF e
  <1>9. /\ Cardinality(Entries) \in Nat /\ \A u : Cardinality(EntriesOf(u)) \in Nat
        /\ IsFiniteSet(Entries') /\ Cardinality(Entries') = Cardinality(Entries) - 1
        /\ \A u : Cardinality(EntriesOf(u)') = IF u = e.task THEN Cardinality(EntriesOf(u)) - 1
                                               ELSE Cardinality(EntriesOf(u))
    BY <1>1, <1>8, EntriesCounted
  <1>10. DnsTyped'
    <2>1. posted' \in [Tasks -> Nat] /\ addresses' \in [Tasks -> Nat] /\ count_' \in Int
      <3>1. posted \in [Tasks -> Nat] /\ addresses \in [Tasks -> Nat] /\ count_ \in Int
        BY <1>1 DEF DnsTyped
      <3>2. posted' \in [Tasks -> Nat]
        BY <1>5, <1>7, <3>1
      <3>3. addresses' \in [Tasks -> Nat] /\ count_' \in Int
        BY <1>5, <1>7, <3>1
      <3>4. QED
        BY <3>2, <3>3
    <2>2. QED
      BY <1>1, <1>5, <1>6, <1>8, <2>1 DEF DnsTyped
  <1>11. ASSUME NEW u \in Tasks
         PROVE  posted'[u] + Cardinality(EntriesOf(u)') <= requested'[u] /\ posted'[u] <= addresses'[u]
    <2>1. /\ posted[u] \in Nat /\ addresses[u] \in Nat /\ requested' = requested /\ requested[u] \in Nat
          /\ posted'[u] \in Nat
          /\ posted'[u] <= IF u = t THEN posted[u] + 1 ELSE posted[u]
          /\ addresses'[u] = IF u = t THEN addresses[u] + 1 ELSE addresses[u]
      BY <1>1, <1>5, <1>7 DEF DnsTyped
    <2>2. Cardinality(EntriesOf(u)) \in Nat
          /\ Cardinality(EntriesOf(u)') = IF u = t THEN Cardinality(EntriesOf(u)) - 1
                                          ELSE Cardinality(EntriesOf(u))
      BY <1>9
    <2>3. posted[u] + Cardinality(EntriesOf(u)) <= requested[u] /\ posted[u] <= addresses[u]
      BY <1>1 DEF Accounted
    <2>4. QED
      BY <2>1, <2>2, <2>3
  <1>12. QED
    BY <1>5, <1>8, <1>9, <1>10, <1>11 DEF DnsInv, Accounted

(* An empty table has no entries. *)
LEMMA EmptyTableFacts ==
    ASSUME bucket_ = EmptyTable
    PROVE  /\ Entries = {} /\ EntriesOnce /\ bucket_ \in [Buckets -> Seq(Entry)]
           /\ IsFiniteSet(Entries) /\ Cardinality(Entries) = 0
           /\ \A t : Cardinality(EntriesOf(t)) = 0
  <1>1. bucket_ = [i \in Buckets |-> <<>>]
    BY DEF EmptyTable, Buckets
  <1>2. /\ bucket_ \in [Buckets -> Seq(Entry)]
        /\ \A i \in Buckets : Len(bucket_[i]) = 0 /\ Range(bucket_[i]) = {}
    BY <1>1 DEF Range
  <1>3. Entries = {} /\ \A t : EntriesOf(t) = {}
    BY <1>2 DEF Entries, EntriesOf
  <1>4. EntriesOnce
    BY <1>2 DEF EntriesOnce
  <1>5. QED
    BY <1>2, <1>3, <1>4, FS_EmptySet

(* Every step of Dns and of the network keeps the account. *)
LEMMA DnsStep ==
    ASSUME DnsInv, [DnsNext]_dnsVars
    PROVE  DnsInv'
  <1> DEFINE Datagram == [id : Nat, response : BOOLEAN, answers : Answers \cup {<<>>}]
  <1>1. datagrams \in Seq(Datagram) /\ asked \subseteq Nat /\ (response # None => response.id \in Nat)
    BY DEF DnsInv, DnsTyped
  <1>2. datagrams # <<>> => Head(datagrams) \in Datagram /\ Tail(datagrams) \in Seq(Datagram)
    BY <1>1, HeadTailProperties
  <1>3. <<>> \in Seq(Datagram)
    OBVIOUS
  <1>4. CASE UNCHANGED dnsVars
    BY <1>1, <1>4, TableKept DEF dnsVars, tableVars, resultVars
  <1>5. CASE dnsInit
    BY <1>1, <1>3, <1>5, TableKept DEF dnsInit
  <1>6. CASE dnsStop
    <2>1. /\ bucket_' = EmptyTable /\ dnsStopped' = TRUE /\ datagrams' = <<>>
          /\ UNCHANGED <<current_, count_, asked, response, addresses, posted, requested>>
      BY <1>6 DEF dnsStop, resultVars
    <2>2. /\ Entries' = {} /\ EntriesOnce' /\ bucket_' \in [Buckets -> Seq(Entry)]
          /\ IsFiniteSet(Entries') /\ \A t : Cardinality(EntriesOf(t)') = 0
      <3>1. /\ bucket_' \in [Buckets -> Seq(Entry)]
            /\ \A i \in Buckets : Len(bucket_'[i]) = 0 /\ Range(bucket_'[i]) = {}
        BY <2>1 DEF EmptyTable, Buckets, Range
      <3>2. Entries' = {} /\ \A t : EntriesOf(t)' = {}
        BY <3>1 DEF Entries, EntriesOf
      <3>3. EntriesOnce'
        BY <3>1 DEF EntriesOnce
      <3>4. QED
        BY <3>1, <3>2, <3>3, FS_EmptySet
    <2>3. DnsTyped'
      BY <1>3, <2>1, <2>2 DEF DnsInv, DnsTyped
    <2>4. ASSUME NEW u \in Tasks
          PROVE  posted'[u] + Cardinality(EntriesOf(u)') <= requested'[u] /\ posted'[u] <= addresses'[u]
      <3>1. posted[u] \in Nat /\ requested[u] \in Nat /\ Cardinality(EntriesOf(u)) \in Nat
        BY EntriesCounted DEF DnsInv, DnsTyped
      <3>2. posted[u] + Cardinality(EntriesOf(u)) <= requested[u] /\ posted[u] <= addresses[u]
        BY DEF DnsInv, Accounted
      <3>3. Cardinality(EntriesOf(u)') = 0
        BY <2>2
      <3>4. QED
        BY <2>1, <3>1, <3>2, <3>3
    <2>5. QED
      BY <2>1, <2>2, <2>3, <2>4 DEF DnsInv, Accounted
  <1>7. CASE setNameServer
    BY <1>1, <1>2, <1>3, <1>7, TableKept DEF setNameServer
  <1>8. CASE \E t \in Tasks, name \in Names : request(t, name)
    BY <1>8, RequestAccounted
  <1>9. CASE DnsArrives
    <2>1. PICK d \in Datagram : datagrams' = Append(datagrams, d)
      BY <1>1, <1>9 DEF DnsArrives
    <2>2. datagrams' \in Seq(Datagram)
      BY <1>1, <2>1, AppendProperties
    <2>3. QED
      BY <1>1, <1>9, <2>2, TableKept DEF DnsArrives
  <1>10. CASE handle_read
    BY <1>1, <1>10, TableKept DEF handle_read
  <1>11. CASE handle_readEmpty
    BY <1>1, <1>11, TableKept DEF handle_readEmpty
  <1>12. CASE handle_readNoResponse
    BY <1>1, <1>2, <1>12, TableKept DEF handle_readNoResponse
  <1>13. CASE handle_readResponse
    <2>1. Head(datagrams).id \in Nat
      BY <1>2, <1>13 DEF handle_readResponse
    <2>2. response' # None => response'.id \in Nat
      BY <1>1, <1>13, <2>1 DEF handle_readResponse
    <2>3. QED
      BY <1>2, <1>13, <2>2, TableKept DEF handle_readResponse
  <1>14. CASE recordFound
    BY <1>14, RecordAccounted
  <1>15. CASE recordPassed
    <2>1. response' # None => response'.id \in Nat
      BY <1>1, <1>15 DEF recordPassed, RecordsLeft, AtRecord
    <2>2. QED
      BY <1>1, <1>15, <2>1, TableKept DEF recordPassed
  <1>16. CASE callRaces
    BY <1>1, <1>16, TableKept DEF callRaces
  <1>17. CASE recordDangles
    BY <1>1, <1>17, TableKept DEF recordDangles
  <1>18. CASE \E t \in Tasks : runTask(t)
    BY <1>1, <1>18, TableKept DEF runTask
  <1>19. QED
    BY <1>4, <1>5, <1>6, <1>7, <1>8, <1>9, <1>10, <1>11, <1>12, <1>13, <1>14, <1>15, <1>16, <1>17, <1>18
       DEF DnsNext

(* What is deleted was posted, and what is undefined has a cause. *)
Blamed == raced \/ \E t \in Tasks : requested[t] > 1
HeapInv ==
    /\ ran \in [Tasks -> Nat] /\ raced \in BOOLEAN
    /\ \A t \in Tasks : ran[t] <= posted[t]
    /\ undefined => Blamed

(* A task that is in the queue of the loop, or has an entry, after it was
   deleted has been asked twice. *)
LEMMA AskedTwice ==
    ASSUME DnsInv, HeapInv, NEW t \in Tasks, Deleted(t), InQueue(t) \/ \E e \in Entries : e.task = t
    PROVE  requested[t] > 1
  <1>1. /\ posted[t] \in Nat /\ requested[t] \in Nat /\ ran[t] \in Nat /\ Cardinality(EntriesOf(t)) \in Nat
        /\ IsFiniteSet(EntriesOf(t))
    <2>1. EntriesOf(t) \in SUBSET Entries
      BY DEF EntriesOf
    <2>2. QED
      BY <2>1, EntriesCounted, FS_Subset DEF DnsInv, DnsTyped, HeapInv
  <1>2. posted[t] + Cardinality(EntriesOf(t)) <= requested[t] /\ ran[t] <= posted[t] /\ ran[t] > 0
    BY DEF DnsInv, Accounted, HeapInv, Deleted
  <1>3. CASE InQueue(t)
    BY <1>1, <1>2, <1>3 DEF InQueue
  <1>4. CASE \E e \in Entries : e.task = t
    <2>1. EntriesOf(t) # {}
      BY <1>4 DEF EntriesOf
    <2>2. Cardinality(EntriesOf(t)) # 0
      BY <1>1, <2>1, FS_EmptySet
    <2>3. QED
      BY <1>1, <1>2, <2>2
  <1>5. QED
    BY <1>3, <1>4

(* A step that deletes nothing and posts no less keeps all this. *)
LEMMA HeapKept ==
    ASSUME HeapInv, ~undefined', ran' = ran, raced' \in BOOLEAN, posted \in [Tasks -> Nat],
           \A t \in Tasks : posted'[t] \in Nat /\ posted[t] <= posted'[t]
    PROVE  HeapInv'
  <1>1. ASSUME NEW t \in Tasks PROVE ran'[t] <= posted'[t]
    <2>1. ran[t] \in Nat /\ posted[t] \in Nat /\ ran[t] <= posted[t] /\ posted'[t] \in Nat /\ posted[t] <= posted'[t]
      BY DEF HeapInv
    <2>2. QED
      BY <2>1
  <1>2. QED
    BY <1>1 DEF HeapInv

(* Every step keeps it. *)
LEMMA HeapStep ==
    ASSUME DnsInv, HeapInv, [DnsNext]_dnsVars
    PROVE  HeapInv'
  <1>1. posted \in [Tasks -> Nat] /\ requested \in [Tasks -> Nat] /\ ran \in [Tasks -> Nat] /\ raced \in BOOLEAN
    BY DEF DnsInv, DnsTyped, HeapInv
  <1>2. CASE UNCHANGED dnsVars
    BY <1>2 DEF dnsVars, HeapInv, Blamed
  <1>3. ASSUME ~undefined, UNCHANGED <<heapVars, posted>> PROVE HeapInv'
    BY <1>1, <1>3, HeapKept DEF heapVars
  <1>4. CASE ~undefined /\ \E t \in Tasks, name \in Names : request(t, name)
    <2>1. ~undefined' /\ ran' = ran /\ posted' = posted /\ (raced' = (raced \/ reading))
      BY <1>4 DEF request, resultVars
    <2>2. QED
      BY <1>1, <2>1, HeapKept
  <1>5. CASE callRaces
    BY <1>1, <1>5 DEF callRaces, HeapInv, Blamed, resultVars, tableVars
  <1>6. CASE ~undefined /\ recordFound
    <2>0. UNCHANGED <<ran, raced, undefined>>
      BY <1>6 DEF recordFound, heapVars
    <2>1. PICK u : posted' = [posted EXCEPT ![u] = @ + 1] \/ posted' = posted
      BY <1>6 DEF recordFound
    <2>2. ASSUME NEW t \in Tasks PROVE posted'[t] \in Nat /\ posted[t] <= posted'[t]
      BY <1>1, <2>1
    <2>3. QED
      BY <1>1, <1>6, <2>0, <2>2, HeapKept
  <1>7. CASE recordDangles
    <2>1. PICK i \in Stops(response.id) : Deleted(Bucket(response.id)[i].task)
      BY <1>7 DEF recordDangles
    <2>2. UNCHANGED <<ran, raced, posted, requested>>
      BY <1>7 DEF recordDangles, resultVars, tableVars
    <2>3. DnsTyped /\ response.id \in Nat
      BY <1>7 DEF recordDangles, AtRecord, DnsInv, DnsTyped
    <2> DEFINE b == response.id % DNS_BUCKET_SIZE
    <2>4. b \in Buckets
      BY <2>3, BucketOf
    <2>5. i \in 1 .. Len(bucket_[b]) /\ bucket_[b] \in Seq(Entry)
      <3>1. bucket_[b] \in Seq(Entry)
        BY <2>3, <2>4 DEF DnsTyped
      <3>2. QED
        BY <3>1, LenProperties DEF Stops, Bucket
    <2>6. bucket_[b][i] \in Entries /\ bucket_[b][i] \in Entry
      BY <2>3, <2>4, <2>5, EntryPlaces
    <2>7. bucket_[b][i].task \in Tasks /\ Deleted(bucket_[b][i].task)
      BY <2>1, <2>6 DEF Entry, Bucket
    <2>8. requested[bucket_[b][i].task] > 1
      BY <2>6, <2>7, AskedTwice
    <2>9. QED
      BY <2>2, <2>7, <2>8 DEF HeapInv, Blamed
  <1>8. CASE \E t \in Tasks : runTask(t)
    <2>1. PICK t \in Tasks : runTask(t)
      BY <1>8
    <2>2. /\ InQueue(t) /\ ran' = [ran EXCEPT ![t] = @ + 1] /\ undefined' = Deleted(t)
          /\ UNCHANGED <<raced, posted, requested>>
      BY <2>1 DEF runTask, resultVars, tableVars
    <2>3. ran' \in [Tasks -> Nat] /\ \A u \in Tasks : ran'[u] <= posted'[u]
      BY <1>1, <2>2 DEF InQueue, HeapInv
    <2>4. undefined' => requested[t] > 1
      BY <2>2, AskedTwice
    <2>5. QED
      BY <1>1, <2>2, <2>3, <2>4 DEF HeapInv, Blamed
  <1>9. QED
    <2>1. CASE ~undefined /\ (dnsInit \/ dnsStop \/ setNameServer)
      BY <1>3, <2>1 DEF dnsInit, dnsStop, setNameServer, resultVars
    <2>2. CASE ~undefined /\ (DnsArrives \/ handle_read \/ handle_readEmpty \/ handle_readNoResponse)
      BY <1>3, <2>2 DEF DnsArrives, handle_read, handle_readEmpty, handle_readNoResponse, resultVars
    <2>3. CASE ~undefined /\ (handle_readResponse \/ recordPassed)
      BY <1>3, <2>3 DEF handle_readResponse, recordPassed, resultVars
    <2>4. QED
      BY <1>2, <1>4, <1>5, <1>6, <1>7, <1>8, <2>1, <2>2, <2>3 DEF DnsNext

(* Dns for any tasks, names, answers and table: however the network repeats and
   reorders answers, no request is posted twice; a task asked once is deleted
   once, with no entry left that points at it; freed memory or a torn table has
   one of the two causes PostedOnce names; count_ agrees with the table until
   stop(). *)
THEOREM PostedOnceHolds == DnsSpec => []PostedOnce
<1>1. DnsInit => DnsInv /\ HeapInv
  <2>. SUFFICES ASSUME DnsInit PROVE DnsInv /\ HeapInv
    OBVIOUS
  <2>1. /\ Entries = {} /\ EntriesOnce /\ bucket_ \in [Buckets -> Seq(Entry)]
        /\ IsFiniteSet(Entries) /\ Cardinality(Entries) = 0
        /\ \A t : Cardinality(EntriesOf(t)) = 0
    BY EmptyTableFacts DEF DnsInit
  <2>2. DnsTyped
    BY <2>1 DEF DnsInit, DnsTyped
  <2>3. Accounted
    BY <2>1 DEF DnsInit, Accounted
  <2>4. DnsInv
    BY <2>1, <2>2, <2>3 DEF DnsInit, DnsInv
  <2>5. HeapInv
    <3>1. addresses = [t \in Tasks |-> 0] /\ posted = addresses /\ ran = addresses
      BY DEF DnsInit
    <3>2. ran \in [Tasks -> Nat] /\ \A t \in Tasks : ran[t] <= posted[t]
      BY <3>1
    <3>3. QED
      BY <3>2 DEF DnsInit, HeapInv
  <2>6. QED
    BY <2>4, <2>5
<1>2. DnsInv /\ HeapInv /\ [DnsNext]_dnsVars => DnsInv' /\ HeapInv'
  BY DnsStep, HeapStep
<1>3. DnsInv /\ HeapInv => PostedOnce
  <2>. SUFFICES ASSUME DnsInv, HeapInv PROVE PostedOnce
    OBVIOUS
  <2>1. ASSUME NEW t \in Tasks PROVE posted[t] <= requested[t] /\ posted[t] <= addresses[t]
    <3>1. posted[t] \in Nat /\ requested[t] \in Nat /\ Cardinality(EntriesOf(t)) \in Nat
      BY EntriesCounted DEF DnsInv, DnsTyped
    <3>2. posted[t] + Cardinality(EntriesOf(t)) <= requested[t] /\ posted[t] <= addresses[t]
      BY DEF DnsInv, Accounted
    <3>3. QED
      BY <3>1, <3>2
  <2>2. ASSUME NEW t \in Tasks, Deleted(t), requested[t] = 1
        PROVE  ~InQueue(t) /\ \A e \in Entries : e.task # t
    <3>1. ~(requested[t] > 1)
      BY <2>2
    <3>2. QED
      BY <2>2, <3>1, AskedTwice
  <2>3. QED
    BY <2>1, <2>2 DEF DnsInv, HeapInv, Blamed, PostedOnce
<1>. QED BY <1>1, <1>2, <1>3, PTL DEF DnsSpec
=============================================================================
