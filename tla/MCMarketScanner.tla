-------------------------- MODULE MCMarketScanner --------------------------
(* Model-checking instance of MarketScanner. *)
EXTENDS MarketScanner
=============================================================================
