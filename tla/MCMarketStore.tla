----------------------------- MODULE MCMarketStore -----------------------------
(* Two creations that claim one market, and two overlapping syncs.          *)
EXTENDS MarketStore, TLC
MCMarketOf == [c \in Creations |-> IF c = "b" THEN "B" ELSE "A"]
SyncSymmetry == Permutations(Syncs)
=============================================================================
