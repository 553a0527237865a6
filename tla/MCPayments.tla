------------------------------ MODULE MCPayments ------------------------------
(* Two overlapping commands, two swaps of two networks, one restart.         *)
(* An invoice of 1.5 satoshis and a send beyond the limits pass; a receive    *)
(* over lightning below the limits and one of nothing are refused.           *)
EXTENDS Payments, TLC
MCRequests == {[command |-> "pay_lightning_invoice", amount |-> 1500],
               [command |-> "create_bitcoin_send", amount |-> 5],
               [command |-> "create_lightning_receive", amount |-> 1],
               [command |-> "create_bitcoin_receive", amount |-> 0]}
CommandSymmetry == Permutations(Commands)
=============================================================================
