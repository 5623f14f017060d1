---------------------------- MODULE MCScheduler -----------------------------
(* Scheduler for TLC.  The blocks are interchangeable. *)
EXTENDS Scheduler, TLC

BlockSymmetry == Permutations(Blocks)
=============================================================================
