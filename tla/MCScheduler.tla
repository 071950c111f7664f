---------------------------- MODULE MCScheduler ----------------------------
(* What TLC needs to check small instances of Scheduler. *)
EXTENDS OneTimeReminders, TLC

Symmetry == Permutations(Instances)
=============================================================================
