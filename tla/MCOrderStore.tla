---------------------------- MODULE MCOrderStore ----------------------------
(* Model-checking instance of OrderStore. *)
EXTENDS OrderStore, TLC
=============================================================================
