------------------------- MODULE MCPredictionMarket -------------------------
(* Model-checking instance of PredictionMarket: two interchangeable clients. *)
EXTENDS PredictionMarket, TLC

ClientSymmetry == Permutations(Clients)
=============================================================================
