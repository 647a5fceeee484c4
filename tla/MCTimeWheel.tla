----------------------------- MODULE MCTimeWheel -----------------------------
(* Small instances of TimeWheel for TLC: a wheel of SLOTNUM slots and the
   requests each run is about. *)
EXTENDS TimeWheel, TLC

(* Intervals from zero up to a full turn, once, twice or for ever, zero only
   once, and one of more than a turn; one request asks for no call at all. *)
Mixed == {<<0, 1>>, <<1, -1>>, <<2, 0>>, <<SLOTNUM, 2>>, <<SLOTNUM + 1, 1>>}

(* Intervals of more than a turn. *)
SeveralTurns == {<<SLOTNUM + 1, 1>>, <<3 * SLOTNUM, 1>>}

(* Up to a full turn. *)
OneTurn == {<<0, 1>>, <<1, 2>>, <<SLOTNUM, -1>>}

(* Tasks are interchangeable. *)
Symmetry == Permutations(Tasks)
=============================================================================
