------------------------------ MODULE TimeWheel ------------------------------
(***************************************************************************)
(* ndsl::net::TimeWheel: a wheel of SLOTNUM lists of tasks, advanced by a  *)
(* periodic timerfd.  Everything runs on the thread of one EventLoop; the  *)
(* application calls in between two events, or from a task's callback      *)
(* while onTick is walking the list it swapped out of the current slot.    *)
(*                                                                         *)
(* The timerfd is external: it counts expirations; a read returns and      *)
(* clears the count.                                                       *)
(***************************************************************************)
EXTENDS Integers, Sequences

CONSTANTS
    Tasks,
    SLOTNUM,     \* number of slots
    Requests,    \* <<setInterval, times>> pairs the application uses
    MaxExp       \* bound: expirations that accumulate before a read

ASSUME SlotAssumption == SLOTNUM \in Nat \ {0}
ASSUME RequestAssumption == Requests \subseteq Nat \X (Nat \cup {-1})
ASSUME MaxExpAssumption == MaxExp \in Nat \ {0}

VARIABLES
    slot_,       \* slot_[i]: the tasks of slot i
    curTick_,
    isWorking_,
    exp,         \* expirations of the timerfd not yet read
    pc,          \* "idle"; onTick: "process" at the loop head, "callback" in doit
    curSlot,     \* onTick: the tasks from the iterator to the end
    task,        \* the Task structures, with their history
    clock,       \* history: expirations since the beginning, modulo SLOTNUM
    postponed    \* history: tasks that were put back for another turn

vars == <<slot_, curTick_, isWorking_, exp, pc, curSlot, task, clock, postponed>>

Ticks == 0 .. SLOTNUM - 1
Elems(s) == {s[k] : k \in 1 .. Len(s)}
EmptyWheel == [i \in Ticks |-> <<>>]

(* A Task as the application allocates it.  owner is who may use the pointer:
   "user" (not in the wheel), "wheel" (added), "freed" (deleted by onTick) or
   "lost" (dropped by initChannel, never deleted).  age counts the ticks
   since the task was armed, up to one more than it asked for; fired counts
   its callbacks; req is the times asked for. *)
NewTask == [owner |-> "user", setInterval |-> -1, times |-> 1, restInterval |-> -1,
            setTick |-> -1, age |-> 0, fired |-> 0, req |-> 1]

TaskRecord == [owner : {"user", "wheel", "freed", "lost"},
               setInterval : Nat \cup {-1}, times : Nat \cup {-1},
               restInterval : Nat \cup {-1}, setTick : Ticks \cup {-1},
               age : Nat, fired : Nat, req : Nat \cup {-1}]

(* When the task should fire, in ticks after it was armed: setInterval, and
   one for zero. *)
Due(t) == IF task[t].setInterval = 0 THEN 1 ELSE task[t].setInterval

(* The application has control. *)
CanCall == pc \in {"idle", "callback"}

Init ==
    /\ slot_ = EmptyWheel
    /\ curTick_ = 0
    /\ isWorking_ = FALSE
    /\ exp = 0
    /\ pc = "idle" /\ curSlot = <<>>
    /\ task = [t \in Tasks |-> NewTask]
    /\ clock = 0
    /\ postponed = {}

-----------------------------------------------------------------------------
(* initChannel empties every slot; the tasks in them are forgotten. *)
Forgotten ==
    [t \in Tasks |-> IF \E i \in Ticks : t \in Elems(slot_[i])
                     THEN [task[t] EXCEPT !.owner = "lost"] ELSE task[t]]

(* start: initChannel, arm the timerfd, enroll it.  settime or enroll may
   fail after the slots are emptied; when timerfd_create fails nothing has
   changed. *)
start ==
    /\ CanCall /\ ~isWorking_
    /\ isWorking_' \in BOOLEAN
    /\ slot_' = EmptyWheel
    /\ task' = Forgotten
    /\ exp' = 0
    /\ UNCHANGED <<curTick_, pc, curSlot, clock, postponed>>

(* stop: disarms the timerfd, which clears its count; the history forgets the
   expirations so discarded. *)
stop ==
    /\ CanCall /\ isWorking_
    /\ isWorking_' = FALSE
    /\ exp' = 0
    /\ clock' = (clock + SLOTNUM * exp - exp) % SLOTNUM
    /\ UNCHANGED <<slot_, curTick_, pc, curSlot, task, postponed>>

(* A bug: the slot of a full turn is one too far. *)
addTaskOffByOne(t, interval, times) ==
    LET tick == (curTick_ + interval + 1) % SLOTNUM
    IN  /\ CanCall
        /\ task[t].owner = "user" /\ t \notin postponed
        /\ task' = [task EXCEPT ![t] =
                      [owner |-> "wheel", setInterval |-> interval, times |-> times,
                       restInterval |-> interval, setTick |-> tick,
                       age |-> 0, fired |-> 0, req |-> times]]
        /\ slot_' = [slot_ EXCEPT ![tick] = Append(@, t)]
        /\ UNCHANGED <<curTick_, isWorking_, exp, pc, curSlot, clock, postponed>>

(* A bug: the task is set up but put in no slot. *)
addTaskUnlisted(t, interval, times) ==
    LET tick == IF interval = 0 THEN (curTick_ + 1) % SLOTNUM
                                ELSE (curTick_ + interval) % SLOTNUM
    IN  /\ CanCall
        /\ task[t].owner = "user" /\ t \notin postponed
        /\ task' = [task EXCEPT ![t] =
                      [owner |-> "wheel", setInterval |-> interval, times |-> times,
                       restInterval |-> interval, setTick |-> tick,
                       age |-> 0, fired |-> 0, req |-> times]]
        /\ UNCHANGED <<slot_, curTick_, isWorking_, exp, pc, curSlot, clock, postponed>>

(* addTask (and runAfter on a running wheel): an interval of zero means the
   next tick.  Bound: a task that was put back once is not added again, since
   each time would leave more entries behind. *)
addTask(t, interval, times) ==
    LET tick == IF interval = 0 THEN (curTick_ + 1) % SLOTNUM
                                ELSE (curTick_ + interval) % SLOTNUM
    IN  /\ CanCall
        /\ task[t].owner = "user" /\ t \notin postponed
        /\ task' = [task EXCEPT ![t] =
                      [owner |-> "wheel", setInterval |-> interval, times |-> times,
                       restInterval |-> interval, setTick |-> tick,
                       age |-> 0, fired |-> 0, req |-> times]]
        /\ slot_' = [slot_ EXCEPT ![tick] = Append(@, t)]
        /\ UNCHANGED <<curTick_, isWorking_, exp, pc, curSlot, clock, postponed>>

(* A bug: the task is handed back although it is still listed. *)
removeTaskNoErase(t) ==
    /\ CanCall
    /\ task[t].owner = "wheel"
    /\ t \in Elems(slot_[task[t].setTick])
    /\ task' = [task EXCEPT ![t].owner = "user"]
    /\ UNCHANGED <<slot_, curTick_, isWorking_, exp, pc, curSlot, clock, postponed>>

(* removeTask (cancelRunAfter): erases the first entry of the task's slot.  A
   task of the list onTick is walking is not found: S_FALSE, no change. *)
removeTask(t) ==
    LET s == slot_[task[t].setTick]
    IN  /\ CanCall
        /\ task[t].owner = "wheel"
        /\ \E k \in 1 .. Len(s) :
              /\ s[k] = t /\ \A j \in 1 .. k - 1 : s[j] # t
              /\ slot_' = [slot_ EXCEPT ![task[t].setTick] =
                             SubSeq(s, 1, k - 1) \o SubSeq(s, k + 1, Len(s))]
        /\ task' = [task EXCEPT ![t].owner = "user"]
        /\ UNCHANGED <<curTick_, isWorking_, exp, pc, curSlot, clock, postponed>>

(* The armed timerfd expires once more. *)
Expire ==
    /\ isWorking_
    /\ exp < MaxExp
    /\ exp' = exp + 1
    /\ clock' = (clock + 1) % SLOTNUM
    /\ UNCHANGED <<slot_, curTick_, isWorking_, pc, curSlot, task, postponed>>

(* onTick: one read takes every pending expiration and advances one tick; the
   tasks of the new slot are swapped out. *)
onTick ==
    LET tick == (curTick_ + 1) % SLOTNUM
    IN  /\ pc = "idle" /\ exp > 0
        /\ exp' = 0
        /\ curTick_' = tick
        /\ task' = [t \in Tasks |-> IF task[t].owner = "wheel" /\ task[t].age <= Due(t)
                                    THEN [task[t] EXCEPT !.age = @ + 1] ELSE task[t]]
        /\ curSlot' = slot_[tick]
        /\ slot_' = [slot_ EXCEPT ![tick] = <<>>]
        /\ pc' = IF slot_[tick] = <<>> THEN "idle" ELSE "process"
        /\ UNCHANGED <<isWorking_, clock, postponed>>

(* onTick, not this turn: the task goes back to the slot with one turn less.
   The iterator does not move: the same entry is looked at again. *)
tickPostpone ==
    LET t == Head(curSlot)
    IN  /\ pc = "process" /\ curSlot # <<>>
        /\ task[t].restInterval > SLOTNUM
        /\ task' = [task EXCEPT ![t].restInterval = @ - SLOTNUM]
        /\ slot_' = [slot_ EXCEPT ![curTick_] = Append(@, t)]
        /\ postponed' = postponed \cup {t}
        /\ UNCHANGED <<curTick_, isWorking_, exp, pc, curSlot, clock>>

(* onTick calls doit, of a task with times = 0 too; the calls of an unlimited
   task (times = -1) are not counted. *)
tickFire ==
    LET t == Head(curSlot)
    IN  /\ pc = "process" /\ curSlot # <<>>
        /\ task[t].owner = "wheel"
        /\ task[t].restInterval <= SLOTNUM
        /\ task' = [task EXCEPT ![t].fired = IF task[t].times >= 0 THEN @ + 1 ELSE @]
        /\ pc' = "callback"
        /\ UNCHANGED <<slot_, curTick_, isWorking_, exp, curSlot, clock, postponed>>

(* A bug: times is tested after it has been counted down too far. *)
tickDeleteEarly ==
    LET t == Head(curSlot)
    IN  /\ pc = "callback"
        /\ task[t].times \in {0, 1, 2}
        /\ task' = [task EXCEPT ![t] = [@ EXCEPT !.times = 0, !.owner = "freed"]]
        /\ curSlot' = Tail(curSlot)
        /\ pc' = "process"
        /\ UNCHANGED <<slot_, curTick_, isWorking_, exp, clock, postponed>>

(* doit has returned and the task is spent: it is erased and deleted. *)
tickDelete ==
    LET t == Head(curSlot)
    IN  /\ pc = "callback"
        /\ task[t].times \in {0, 1}
        /\ task' = [task EXCEPT ![t] = [@ EXCEPT !.times = 0, !.owner = "freed"]]
        /\ curSlot' = Tail(curSlot)
        /\ pc' = "process"
        /\ UNCHANGED <<slot_, curTick_, isWorking_, exp, clock, postponed>>

(* doit has returned and the task is to fire again (times > 0 after the
   decrement, or unlimited): it is inserted at its next slot. *)
tickRepeat ==
    LET t == Head(curSlot)
        tick == (curTick_ + task[t].setInterval) % SLOTNUM
        left == IF task[t].times > 0 THEN task[t].times - 1 ELSE task[t].times
    IN  /\ pc = "callback"
        /\ task[t].times \notin {0, 1}
        /\ task' = [task EXCEPT ![t] =
                      [@ EXCEPT !.times = left, !.setTick = tick,
                                !.restInterval = task[t].setInterval, !.age = 0]]
        /\ slot_' = [slot_ EXCEPT ![tick] = Append(@, t)]
        /\ curSlot' = Tail(curSlot)
        /\ pc' = "process"
        /\ UNCHANGED <<curTick_, isWorking_, exp, clock, postponed>>

(* onTick returns. *)
tickDone ==
    /\ pc = "process" /\ curSlot = <<>>
    /\ pc' = "idle"
    /\ UNCHANGED <<slot_, curTick_, isWorking_, exp, curSlot, task, clock, postponed>>

-----------------------------------------------------------------------------
TickStep == onTick \/ tickPostpone \/ tickFire \/ tickDelete \/ tickRepeat \/ tickDone

Next ==
    \/ start \/ stop
    \/ \E t \in Tasks, r \in Requests : addTask(t, r[1], r[2])
    \/ \E t \in Tasks : removeTask(t)
    \/ Expire
    \/ TickStep

Spec == Init /\ [][Next]_vars

(* The kernel's timer runs, the event loop serves it, and callbacks return. *)
FairSpec == Spec /\ WF_vars(Expire) /\ WF_vars(TickStep)

-----------------------------------------------------------------------------
(* Properties *)

(* Every variable has its type; a Task in the wheel knows its slot. *)
TypeOK ==
    /\ slot_ \in [Ticks -> Seq(Tasks)]
    /\ curTick_ \in Ticks /\ clock \in Ticks
    /\ isWorking_ \in BOOLEAN
    /\ exp \in Nat
    /\ pc \in {"idle", "process", "callback"}
    /\ curSlot \in Seq(Tasks)
    /\ postponed \subseteq Tasks
    /\ task \in [Tasks -> TaskRecord]

(* The entries of t: in the slots, and in the rest of the list onTick walks. *)
Places(t) ==
    (UNION {{<<i, k>> : k \in {k \in 1 .. Len(slot_[i]) : slot_[i][k] = t}} : i \in Ticks})
      \cup {<<-1, k>> : k \in {k \in 1 .. Len(curSlot) : curSlot[k] = t}}

(* No dangling or doubled pointer (addTask, removeTask, onTick): a task the
   wheel owns is listed in exactly one place, its own slot or the list being
   walked, and no list holds a task that was deleted, removed or forgotten.
   A task of more than a turn is excepted once it was put back, which leaves a
   second entry behind. *)
ListedOnce ==
    \A t \in Tasks : t \notin postponed =>
        IF task[t].owner = "wheel"
        THEN \E p \in Places(t) : Places(t) = {p} /\ p[1] \in {-1, task[t].setTick}
        ELSE Places(t) = {}

(* Tasks fire on their tick (addTask's slot arithmetic against onTick): no task
   waits longer than its interval, and one of at most a turn that was never
   put back is in the list onTick is walking exactly when it has waited that
   long. *)
FiresWhenDue ==
    \A t \in Tasks : task[t].owner = "wheel" =>
        /\ task[t].age <= Due(t)
        /\ t \notin postponed /\ task[t].setInterval <= SLOTNUM =>
              (t \in Elems(curSlot) <=> task[t].age = Due(t))

(* A task is called on the tick it asked for: one that is not due in this turn
   goes back to its slot with one turn less (onTick, comment of line 195). *)
FiresOnTick ==
    pc = "callback" => task[Head(curSlot)].age = Due(Head(curSlot))

(* A deleted task has fired as many times as was asked (times, onTick lines
   200-212): doit comes before the test of times, so zero times means once. *)
FiresExactlyTimes ==
    \A t \in Tasks \ postponed :
        task[t].owner = "freed" => task[t].fired = IF task[t].req = 0 THEN 1 ELSE task[t].req

(* Each expiration of the 1 s timer moves the wheel by one slot
   (TimeWheel.h: one turn takes one minute), once onTick has caught up. *)
WheelKeepsTime ==
    exp = 0 => curTick_ = clock

(* onTick has come to a list entry of a Task it deleted: what it does next is
   undefined, and the model stops there. *)
ReadsDeleted == pc = "process" /\ curSlot # <<>> /\ task[Head(curSlot)].owner # "wheel"

(* A task added to a working wheel fires, unless it is removed, the wheel is
   stopped, or the entry of a longer task that was deleted is read first. *)
TaskFires ==
    \A t \in Tasks :
        task[t].owner = "wheel" /\ isWorking_ ~>
            \/ pc = "callback" /\ Head(curSlot) = t
            \/ task[t].owner # "wheel"
            \/ ~isWorking_
            \/ ReadsDeleted
=============================================================================
