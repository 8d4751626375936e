--------------------------- MODULE MCReorderQueue ---------------------------
(* Model checking instance of ReorderQueue: a ring of 4 entries over 4-bit  *)
(* sequence numbers (Half = 8), so that every start position and every      *)
(* wrap-around is reached within a handful of pushes.                       *)
EXTENDS ReorderQueue, TLC

UserSymmetry == Permutations(Users)
=============================================================================
