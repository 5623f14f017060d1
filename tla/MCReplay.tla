------------------------------ MODULE MCReplay ------------------------------
(* An instance of Replay for TLC: exchanging blocks in both runs alike       *)
(* changes nothing.                                                          *)
EXTENDS Replay, TLC

BlockSymmetry == Permutations(Blocks)
=============================================================================
