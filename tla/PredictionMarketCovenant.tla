---------------------- MODULE PredictionMarketCovenant ----------------------
(***************************************************************************)
(* The prediction-market covenant (contract/prediction_market.simf): the   *)
(* seventeen spending paths and the dispatch of main, as predicates over a  *)
(* transaction.                                                            *)
(*                                                                         *)
(* A transaction is [ins, outs, lock].  An input is the UTXO it spends     *)
(* plus its issuance field ({} when null, {amount} otherwise); an output   *)
(* is [script, asset, amount, conf] with conf TRUE when asset and amount   *)
(* are commitments.  Scripts are the eight slots, the burn script, the     *)
(* empty (fee) script and a wallet.  Commitments are abstracted to what    *)
(* their openings prove.  Indices count from 0, as in the contract.        *)
(***************************************************************************)
EXTENDS Integers, Sequences

CONSTANTS
    CollateralPerToken,  \* param::COLLATERAL_PER_TOKEN
    ExpiryTime,          \* param::EXPIRY_TIME, a block height
    U64Max               \* largest amount a u64 holds

ASSUME CovenantAssumption ==
    /\ CollateralPerToken \in Nat \ {0}
    /\ ExpiryTime \in Nat
    /\ U64Max \in Nat \ {0}

MarketSlot ==
    { "DormantYesRt", "DormantNoRt",
      "UnresolvedYesRt", "UnresolvedNoRt", "UnresolvedCollateral",
      "ResolvedYesCollateral", "ResolvedNoCollateral", "ExpiredCollateral" }

Script == MarketSlot \cup {"Burn", "Fee", "Wallet"}

Asset == {"YES", "NO", "YES_RT", "NO_RT", "COLLATERAL"}

-----------------------------------------------------------------------------
(* Reading the transaction. *)

input(tx, i)  == tx.ins[i + 1]
output(tx, i) == tx.outs[i + 1]

num_outputs(tx) == Len(tx.outs)

ensure_input_script(tx, i, script) ==
    i < Len(tx.ins) /\ input(tx, i).script = script

ensure_output_script(tx, i, script) ==
    i < num_outputs(tx) /\ output(tx, i).script = script

ensure_input_explicit(tx, i, asset) ==
    i < Len(tx.ins) /\ ~input(tx, i).conf /\ input(tx, i).asset = asset

ensure_output_asset_with_amount(tx, i, asset, amount) ==
    /\ i < num_outputs(tx)
    /\ ~output(tx, i).conf
    /\ output(tx, i).asset = asset
    /\ output(tx, i).amount = amount

ensure_burn_output(tx, i, asset, amount) ==
    /\ ensure_output_asset_with_amount(tx, i, asset, amount)
    /\ ensure_output_script(tx, i, "Burn")

ensure_fee_output(tx, i) == ensure_output_script(tx, i, "Fee")

ensure_fee_output_at_end(tx) == ensure_fee_output(tx, num_outputs(tx) - 1)

ensure_no_issuance(tx, i) == input(tx, i).issuance = {}

(* The commitment opens to one unit of the token. *)
verify_token_commitment(txout, token) ==
    txout.conf /\ txout.asset = token /\ txout.amount = 1

verify_input_reissuance_token(tx, i, token) ==
    i < Len(tx.ins) /\ verify_token_commitment(input(tx, i), token)

verify_output_reissuance_token(tx, i, token, script) ==
    /\ i < num_outputs(tx)
    /\ verify_token_commitment(output(tx, i), token)
    /\ ensure_output_script(tx, i, script)

ensure_primary_slot(tx, slot) == ensure_input_script(tx, 0, slot)

(* check_lock_height: every input the SDK adds enables the lock time. *)
check_lock_height(tx) == tx.lock >= ExpiryTime

(* Faulty verify_oracle_signature: any signature of the oracle will do. *)
AnyOracleSignature(outcomeYes, sig) == sig \in BOOLEAN

(* A BIP-340 signature is abstracted to the outcome the oracle signed. *)
verify_oracle_signature(outcomeYes, sig) == sig = outcomeYes

-----------------------------------------------------------------------------
(* Checked u64 arithmetic: a path fails where the result does not fit. *)

Fits(n) == n \in 0..U64Max

collateral_for_pairs(pairs) == pairs * (2 * CollateralPerToken)

CollateralFits(pairs) ==
    Fits(2 * CollateralPerToken) /\ Fits(collateral_for_pairs(pairs))

-----------------------------------------------------------------------------
(* Issuance. *)

(* The recreated RTs, the consolidated collateral and the fixed fee index. *)
IssuanceOutputs(tx, total) ==
    /\ verify_output_reissuance_token(tx, 0, "YES_RT", "UnresolvedYesRt")
    /\ verify_output_reissuance_token(tx, 1, "NO_RT", "UnresolvedNoRt")
    /\ ensure_output_asset_with_amount(tx, 2, "COLLATERAL", total)
    /\ ensure_output_script(tx, 2, "UnresolvedCollateral")
    /\ ensure_fee_output(tx, 5)

initial_issuance_primary_path(tx, i, w) ==
    /\ w.slot = "DormantYesRt"
    /\ i = 0
    /\ ensure_input_script(tx, 1, "DormantNoRt")
    /\ verify_input_reissuance_token(tx, 0, "YES_RT")
    /\ verify_input_reissuance_token(tx, 1, "NO_RT")
    /\ \E pairs \in input(tx, 0).issuance :
          /\ input(tx, 1).issuance = {pairs}
          /\ CollateralFits(pairs)
          /\ IssuanceOutputs(tx, collateral_for_pairs(pairs))

initial_issuance_secondary_no_rt_path(tx, i, w) ==
    /\ w.slot = "DormantNoRt"
    /\ i = 1
    /\ ensure_primary_slot(tx, "DormantYesRt")
    /\ verify_input_reissuance_token(tx, 1, "NO_RT")
    /\ verify_output_reissuance_token(tx, 1, "NO_RT", "UnresolvedNoRt")

subsequent_issuance_primary_path(tx, i, w) ==
    /\ w.slot = "UnresolvedYesRt"
    /\ i = 0
    /\ ensure_input_script(tx, 1, "UnresolvedNoRt")
    /\ ensure_input_script(tx, 2, "UnresolvedCollateral")
    /\ verify_input_reissuance_token(tx, 0, "YES_RT")
    /\ verify_input_reissuance_token(tx, 1, "NO_RT")
    /\ ensure_input_explicit(tx, 2, "COLLATERAL")
    /\ \E pairs \in input(tx, 0).issuance :
          LET total == input(tx, 2).amount + collateral_for_pairs(pairs)
          IN  /\ input(tx, 1).issuance = {pairs}
              /\ CollateralFits(pairs) /\ Fits(total)
              /\ IssuanceOutputs(tx, total)

subsequent_issuance_secondary_no_rt_path(tx, i, w) ==
    /\ w.slot = "UnresolvedNoRt"
    /\ i = 1
    /\ ensure_primary_slot(tx, "UnresolvedYesRt")
    /\ verify_input_reissuance_token(tx, 1, "NO_RT")
    /\ verify_output_reissuance_token(tx, 1, "NO_RT", "UnresolvedNoRt")

subsequent_issuance_secondary_collateral_path(tx, i, w) ==
    /\ w.slot = "UnresolvedCollateral"
    /\ i = 2
    /\ ensure_primary_slot(tx, "UnresolvedYesRt")
    /\ ensure_input_explicit(tx, 2, "COLLATERAL")
    /\ ensure_no_issuance(tx, 2)
    /\ ensure_output_script(tx, 2, "UnresolvedCollateral")

-----------------------------------------------------------------------------
(* Leaving Unresolved for a terminal state. *)

(* What the primary input of a resolution and of an expiry have in common. *)
TerminalPrimary(tx, i, w, target) ==
    /\ w.slot = "UnresolvedYesRt"
    /\ i = 0
    /\ ensure_input_script(tx, 1, "UnresolvedNoRt")
    /\ ensure_input_script(tx, 2, "UnresolvedCollateral")
    /\ verify_input_reissuance_token(tx, 0, "YES_RT")
    /\ ensure_no_issuance(tx, 0)
    /\ verify_output_reissuance_token(tx, 0, "YES_RT", "Burn")
    /\ ensure_input_explicit(tx, 2, "COLLATERAL")
    /\ ensure_output_asset_with_amount(tx, 2, "COLLATERAL", input(tx, 2).amount)
    /\ ensure_output_script(tx, 2, target)
    /\ ensure_fee_output_at_end(tx)

oracle_resolve_primary_path(tx, i, w) ==
    /\ verify_oracle_signature(w.outcome_yes, w.sig)
    /\ TerminalPrimary(tx, i, w, IF w.outcome_yes THEN "ResolvedYesCollateral"
                                                  ELSE "ResolvedNoCollateral")

oracle_resolve_secondary_no_rt_path(tx, i, w) ==
    /\ w.slot = "UnresolvedNoRt"
    /\ i = 1
    /\ ensure_primary_slot(tx, "UnresolvedYesRt")
    /\ verify_input_reissuance_token(tx, 1, "NO_RT")
    /\ ensure_no_issuance(tx, 1)
    /\ verify_output_reissuance_token(tx, 1, "NO_RT", "Burn")

oracle_resolve_secondary_collateral_path(tx, i, w) ==
    /\ w.slot = "UnresolvedCollateral"
    /\ i = 2
    /\ ensure_primary_slot(tx, "UnresolvedYesRt")
    /\ ensure_input_explicit(tx, 2, "COLLATERAL")
    /\ ensure_no_issuance(tx, 2)
    /\ ensure_fee_output_at_end(tx)

expire_transition_primary_path(tx, i, w) ==
    /\ check_lock_height(tx)
    /\ TerminalPrimary(tx, i, w, "ExpiredCollateral")

expire_transition_secondary_no_rt_path(tx, i, w) ==
    /\ check_lock_height(tx)
    /\ oracle_resolve_secondary_no_rt_path(tx, i, w)

expire_transition_secondary_collateral_path(tx, i, w) ==
    /\ check_lock_height(tx)
    /\ oracle_resolve_secondary_collateral_path(tx, i, w)

-----------------------------------------------------------------------------
(* Redemption from a terminal state. *)

(* Faulty redemption: the collateral can never be drained exactly. *)
RedemptionLeavesRemainder(tx, i, w, asset, payout) ==
    LET remaining == input(tx, 0).amount - payout
    IN  /\ i = 0
        /\ ensure_no_issuance(tx, 0)
        /\ ensure_input_explicit(tx, 0, "COLLATERAL")
        /\ Fits(payout) /\ Fits(remaining)
        /\ remaining # 0
        /\ ensure_output_asset_with_amount(tx, 0, "COLLATERAL", remaining)
        /\ ensure_output_script(tx, 0, w.slot)
        /\ ensure_burn_output(tx, 1, asset, w.tokens_burned)
        /\ ensure_fee_output_at_end(tx)

(* Burn the tokens and keep what is left of the collateral in its slot. *)
Redemption(tx, i, w, asset, payout) ==
    LET remaining == input(tx, 0).amount - payout
    IN  /\ i = 0
        /\ ensure_no_issuance(tx, 0)
        /\ ensure_input_explicit(tx, 0, "COLLATERAL")
        /\ Fits(payout) /\ Fits(remaining)
        /\ \/ /\ remaining # 0
              /\ ensure_output_asset_with_amount(tx, 0, "COLLATERAL", remaining)
              /\ ensure_output_script(tx, 0, w.slot)
              /\ ensure_burn_output(tx, 1, asset, w.tokens_burned)
           \/ /\ remaining = 0
              /\ ensure_burn_output(tx, 0, asset, w.tokens_burned)
        /\ ensure_fee_output_at_end(tx)

post_resolution_redemption_path(tx, i, w) ==
    /\ w.slot \in {"ResolvedYesCollateral", "ResolvedNoCollateral"}
    /\ CollateralFits(w.tokens_burned)
    /\ Redemption(tx, i, w,
                  IF w.slot = "ResolvedYesCollateral" THEN "YES" ELSE "NO",
                  collateral_for_pairs(w.tokens_burned))

expiry_redemption_path(tx, i, w) ==
    /\ w.slot = "ExpiredCollateral"
    /\ check_lock_height(tx)
    /\ w.burn_asset \in {"YES", "NO"}
    /\ Redemption(tx, i, w, w.burn_asset, w.tokens_burned * CollateralPerToken)

-----------------------------------------------------------------------------
(* Cancellation. *)

cancellation_partial_path(tx, i, w) ==
    LET refund    == collateral_for_pairs(w.pairs_burned)
        remaining == input(tx, 0).amount - refund
    IN  /\ w.slot = "UnresolvedCollateral"
        /\ i = 0
        /\ ensure_no_issuance(tx, 0)
        /\ ensure_input_explicit(tx, 0, "COLLATERAL")
        /\ CollateralFits(w.pairs_burned) /\ Fits(remaining)
        /\ remaining # 0
        /\ ensure_output_asset_with_amount(tx, 0, "COLLATERAL", remaining)
        /\ ensure_output_script(tx, 0, "UnresolvedCollateral")
        /\ ensure_burn_output(tx, 1, "YES", w.pairs_burned)
        /\ ensure_burn_output(tx, 2, "NO", w.pairs_burned)
        /\ ensure_fee_output_at_end(tx)

cancellation_full_primary_path(tx, i, w) ==
    /\ w.slot = "UnresolvedCollateral"
    /\ i = 0
    /\ ensure_input_script(tx, 1, "UnresolvedYesRt")
    /\ ensure_input_script(tx, 2, "UnresolvedNoRt")
    /\ ensure_no_issuance(tx, 0)
    /\ ensure_input_explicit(tx, 0, "COLLATERAL")
    /\ CollateralFits(w.pairs_burned)
    /\ input(tx, 0).amount = collateral_for_pairs(w.pairs_burned)
    /\ verify_output_reissuance_token(tx, 0, "YES_RT", "DormantYesRt")
    /\ verify_output_reissuance_token(tx, 1, "NO_RT", "DormantNoRt")
    /\ ensure_burn_output(tx, 2, "YES", w.pairs_burned)
    /\ ensure_burn_output(tx, 3, "NO", w.pairs_burned)
    /\ ensure_fee_output_at_end(tx)

cancellation_full_secondary_yes_rt_path(tx, i, w) ==
    /\ w.slot = "UnresolvedYesRt"
    /\ i = 1
    /\ ensure_primary_slot(tx, "UnresolvedCollateral")
    /\ verify_input_reissuance_token(tx, 1, "YES_RT")
    /\ ensure_no_issuance(tx, 1)
    /\ verify_output_reissuance_token(tx, 0, "YES_RT", "DormantYesRt")

cancellation_full_secondary_no_rt_path(tx, i, w) ==
    /\ w.slot = "UnresolvedNoRt"
    /\ i = 2
    /\ ensure_primary_slot(tx, "UnresolvedCollateral")
    /\ verify_input_reissuance_token(tx, 2, "NO_RT")
    /\ ensure_no_issuance(tx, 2)
    /\ verify_output_reissuance_token(tx, 1, "NO_RT", "DormantNoRt")

-----------------------------------------------------------------------------
(* The input at index i, spent with witness w, is accepted. *)
main(tx, i, w) ==
    /\ ensure_input_script(tx, i, w.slot)
    /\ CASE w.path = "InitialIssuancePrimary" ->
              initial_issuance_primary_path(tx, i, w)
         [] w.path = "InitialIssuanceSecondaryNoRt" ->
              initial_issuance_secondary_no_rt_path(tx, i, w)
         [] w.path = "SubsequentIssuancePrimary" ->
              subsequent_issuance_primary_path(tx, i, w)
         [] w.path = "SubsequentIssuanceSecondaryNoRt" ->
              subsequent_issuance_secondary_no_rt_path(tx, i, w)
         [] w.path = "SubsequentIssuanceSecondaryCollateral" ->
              subsequent_issuance_secondary_collateral_path(tx, i, w)
         [] w.path = "OracleResolvePrimary" ->
              oracle_resolve_primary_path(tx, i, w)
         [] w.path = "OracleResolveSecondaryNoRt" ->
              oracle_resolve_secondary_no_rt_path(tx, i, w)
         [] w.path = "OracleResolveSecondaryCollateral" ->
              oracle_resolve_secondary_collateral_path(tx, i, w)
         [] w.path = "PostResolutionRedemption" ->
              post_resolution_redemption_path(tx, i, w)
         [] w.path = "ExpireTransitionPrimary" ->
              expire_transition_primary_path(tx, i, w)
         [] w.path = "ExpireTransitionSecondaryNoRt" ->
              expire_transition_secondary_no_rt_path(tx, i, w)
         [] w.path = "ExpireTransitionSecondaryCollateral" ->
              expire_transition_secondary_collateral_path(tx, i, w)
         [] w.path = "ExpiryRedemption" ->
              expiry_redemption_path(tx, i, w)
         [] w.path = "CancellationPartial" ->
              cancellation_partial_path(tx, i, w)
         [] w.path = "CancellationFullPrimary" ->
              cancellation_full_primary_path(tx, i, w)
         [] w.path = "CancellationFullSecondaryYesRt" ->
              cancellation_full_secondary_yes_rt_path(tx, i, w)
         [] w.path = "CancellationFullSecondaryNoRt" ->
              cancellation_full_secondary_no_rt_path(tx, i, w)
=============================================================================
