------------------------------ MODULE Semaphore ------------------------------
(***************************************************************************)
(* ndsl::utils::Semaphore: a counter under mutex_ and cond_, taken and     *)
(* given several units at a time.  A section under mutex_ is one step.     *)
(* pthread_cond_signal wakes one waiter of its choice; a wait may also end *)
(* spuriously.                                                             *)
(***************************************************************************)
EXTENDS Naturals

CONSTANTS
    Takers,      \* threads that call take
    Units,       \* the arguments r of take and give
    MaxUnits     \* bound: units in the semaphore

ASSUME UnitsAssumption == Units \subseteq Nat \ {0}
ASSUME MaxUnitsAssumption == MaxUnits \in Nat

VARIABLES
    resources_,
    pc,          \* taker -> "idle", "lock" (going for the mutex), "wait" (on cond_)
    need         \* taker -> the r of its take; arbitrary before the first

vars == <<resources_, pc, need>>

Waiting(p) == {t \in Takers : p[t] = "wait"}

(* pthread_cond_signal(&cond_): one waiter, if there is any, goes for the
   mutex. *)
Signal(p, q) ==
    IF Waiting(p) = {} THEN q = p
    ELSE \E t \in Waiting(p) : q = [p EXCEPT ![t] = "lock"]

Init ==
    /\ resources_ \in 0 .. MaxUnits
    /\ pc = [t \in Takers |-> "idle"]
    /\ need \in [Takers -> Units]

-----------------------------------------------------------------------------
(* A thread calls take(r). *)
take(t, r) ==
    /\ pc[t] = "idle"
    /\ pc' = [pc EXCEPT ![t] = "lock"]
    /\ need' = [need EXCEPT ![t] = r]
    /\ UNCHANGED resources_

(* take: too few units, wait on cond_. *)
takeWait(t) ==
    /\ pc[t] = "lock"
    /\ resources_ < need[t]
    /\ pc' = [pc EXCEPT ![t] = "wait"]
    /\ UNCHANGED <<resources_, need>>

(* A bug: the test is off by one. *)
takeDoneTooMany(t) ==
    /\ pc[t] = "lock"
    /\ resources_ + 1 >= need[t]
    /\ resources_' = resources_ - need[t]
    /\ pc' = [pc EXCEPT ![t] = "idle"]
    /\ UNCHANGED need

(* take: the units are taken and, while some are left, the signal is passed
   on. *)
takeDone(t) ==
    /\ pc[t] = "lock"
    /\ resources_ >= need[t]
    /\ resources_' = resources_ - need[t]
    /\ LET p == [pc EXCEPT ![t] = "idle"]
       IN  IF resources_' > 0 THEN Signal(p, pc') ELSE pc' = p
    /\ UNCHANGED need

(* A bug: resources_ is tested before the units are added. *)
giveQuiet(r) ==
    /\ resources_ + r <= MaxUnits
    /\ resources_' = resources_ + r
    /\ IF resources_ > 0 THEN Signal(pc, pc') ELSE pc' = pc
    /\ UNCHANGED need

(* give(r), by any thread. *)
give(r) ==
    /\ resources_ + r <= MaxUnits
    /\ resources_' = resources_ + r
    /\ IF resources_' > 0 THEN Signal(pc, pc') ELSE pc' = pc
    /\ UNCHANGED need

(* pthread_cond_wait may return without a signal. *)
SpuriousWakeup(t) ==
    /\ pc[t] = "wait"
    /\ pc' = [pc EXCEPT ![t] = "lock"]
    /\ UNCHANGED <<resources_, need>>

-----------------------------------------------------------------------------
TakerStep(t) == takeWait(t) \/ takeDone(t)

Next ==
    \/ \E r \in Units : give(r)
    \/ \E t \in Takers : TakerStep(t) \/ SpuriousWakeup(t) \/ \E r \in Units : take(t, r)

Spec == Init /\ [][Next]_vars

(* A thread that may take the mutex gets it. *)
FairSpec == Spec /\ \A t \in Takers : WF_vars(TakerStep(t))

-----------------------------------------------------------------------------
(* Properties *)

(* Every variable has its type; resources_, which is unsigned, is never taken
   below zero. *)
TypeOK ==
    /\ resources_ \in Nat
    /\ pc \in [Takers -> {"idle", "lock", "wait"}]
    /\ need \in [Takers -> Units]

(* No lost signal (take, give): while there are units, either no taker sleeps
   or one is awake and about to test resources_.  It rests on give's signal, and
   holds when every call is of a single unit: a taker that needs more may
   swallow the signal. *)
NoSleeperBesideUnits ==
    Units = {1} /\ resources_ > 0 /\ Waiting(pc) # {} =>
        \E t \in Takers : pc[t] = "lock"

(* Units do not lie unused: with single-unit calls, a taker that sleeps beside
   units is followed by no units or no sleeper. *)
UnitsUsed ==
    resources_ > 0 /\ Waiting(pc) # {} ~> resources_ = 0 \/ Waiting(pc) = {}
=============================================================================
