---------------------------- MODULE MCMakerOrder ----------------------------
(* Model-checking instance of MakerOrder: interchangeable takers. *)
EXTENDS MakerOrder, TLC

TakerSymmetry == Permutations(Takers)
=============================================================================
