------------------------------ MODULE MCLanePool ------------------------------
(***************************************************************************)
(* Lanes are alike and so are callers, wherever no property asks for       *)
(* liveness.                                                               *)
(***************************************************************************)
EXTENDS LanePool, TLC

PoolSymmetry == Permutations(Callers) \cup Permutations(Lanes)
=============================================================================
