---------------------------- MODULE MC_Scheduler ----------------------------
(***************************************************************************)
(* Model-checking instances of Scheduler.                                  *)
(***************************************************************************)
EXTENDS Scheduler, TLC

Symmetry == Permutations(Task)
=============================================================================
