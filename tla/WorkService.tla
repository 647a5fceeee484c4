----------------------------- MODULE WorkService -----------------------------
(* What a work queue promises its clients, without threads, locks, eventfds or
   batches: submitted items wait in one line; the head is started, or any
   waiting item is cancelled; nothing else happens to an item. *)
EXTENDS Naturals, Sequences

CONSTANT Items

VARIABLES
    pending,     \* items submitted and not started, in order
    started,     \* items started, in order
    cancelled    \* items taken out of the line before they were started

svars == <<pending, started, cancelled>>

Init == pending = <<>> /\ started = <<>> /\ cancelled = {}

Submit(i) ==
    /\ \A k \in 1 .. Len(pending) : pending[k] # i
    /\ \A k \in 1 .. Len(started) : started[k] # i
    /\ i \notin cancelled
    /\ pending' = Append(pending, i)
    /\ UNCHANGED <<started, cancelled>>

Start ==
    /\ pending # <<>>
    /\ started' = Append(started, Head(pending))
    /\ pending' = Tail(pending)
    /\ UNCHANGED cancelled

Cancel(i) ==
    /\ \E k \in 1 .. Len(pending) :
          /\ pending[k] = i
          /\ pending' = SubSeq(pending, 1, k - 1) \o SubSeq(pending, k + 1, Len(pending))
    /\ cancelled' = cancelled \cup {i}
    /\ UNCHANGED started

Next == Start \/ \E i \in Items : Submit(i) \/ Cancel(i)

Spec == Init /\ [][Next]_svars
=============================================================================
