------------------------- MODULE MCMarketLifecycle -------------------------
(* Model-checking instance of MarketLifecycle: amounts up to a small U64Max *)
(* bound the supplies, so no further constraint is needed.                  *)
EXTENDS MarketLifecycle
=============================================================================
