-------------------------- MODULE MCWalletSession --------------------------
(* Model-checking instance of WalletSession. *)
EXTENDS WalletSession
=============================================================================
