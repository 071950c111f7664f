--------------------------- MODULE MCSessionTurn ---------------------------
(* What TLC needs to check small instances of SessionTurn. *)
EXTENDS ApiTurns, TLC

(* Requests of one kind are interchangeable. *)
Symmetry == Permutations(ApiTurns) \cup Permutations(WaTurns)
=============================================================================
