--------------------------- MODULE MCOperatorDesk ---------------------------
(* What TLC needs to check small instances of OperatorDesk. *)
EXTENDS OperatorDesk, TLC

Symmetry ==
  Permutations(Customers) \cup Permutations(Quoters) \cup Permutations(Requests \ Quoters)
=============================================================================
