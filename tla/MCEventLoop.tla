----------------------------- MODULE MCEventLoop -----------------------------
(* Small instances of EventLoop for TLC. *)
EXTENDS EventLoop, TLC

(* Work items are interchangeable, and so are the posting threads. *)
Symmetry == Permutations(Items) \cup Permutations(Threads) \cup Permutations(Channels)
=============================================================================
