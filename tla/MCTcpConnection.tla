--------------------------- MODULE MCTcpConnection ---------------------------
(* Small instances of TcpConnection for TLC. *)
EXTENDS TcpConnection, TLC

(* Messages are interchangeable. *)
Symmetry == Permutations(Msgs)
=============================================================================
