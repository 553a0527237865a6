------------------------- MODULE PredictionMarketTx -------------------------
(***************************************************************************)
(* The transactions the SDK assembles for a prediction market              *)
(* (prediction_market/pset and prediction_market/assembly.rs): the PSET    *)
(* builders, blinding, and the spend kind attached to each covenant input. *)
(*                                                                         *)
(* A UTXO is [id, script, asset, amount, conf].  The UTXOs a wallet adds   *)
(* for one purpose are one input of their total, which moves no covenant   *)
(* input: those always come first.                                         *)
(***************************************************************************)
EXTENDS PredictionMarketCovenant

CONSTANT FeeAmount  \* fee_amount of every request, in sats

ASSUME FeeAssumption == FeeAmount \in Nat \ {0}

WalletUtxo(asset, amount) ==
    [id |-> <<0, 0>>, script |-> "Wallet", asset |-> asset,
     amount |-> amount, conf |-> TRUE]

(* add_pset_input, and the same with issuance_value_amount set. *)
InputWithIssuance(u, issuance) ==
    [id |-> u.id, script |-> u.script, asset |-> u.asset, amount |-> u.amount,
     conf |-> u.conf, issuance |-> issuance]

add_pset_input(u) == InputWithIssuance(u, {})

explicit_txout(asset, amount, script) ==
    [script |-> script, asset |-> asset, amount |-> amount, conf |-> FALSE]

burn_txout(asset, amount) == explicit_txout(asset, amount, "Burn")

fee_txout == explicit_txout("COLLATERAL", FeeAmount, "Fee")

(* A placeholder: blinding gives it its asset and amount. *)
reissuance_token_output(script) == explicit_txout("NULL", 0, script)

(* Faulty change: an output is added even when nothing is left over. *)
ChangeEvenIfZero(asset, amount) == <<explicit_txout(asset, amount, "Wallet")>>

(* A change output exists only for a positive amount. *)
Change(asset, amount) ==
    IF amount > 0 THEN <<explicit_txout(asset, amount, "Wallet")>> ELSE <<>>

-----------------------------------------------------------------------------
(* Builders.  b is the bundle a scan returned: b.yes, b.no and b.coll.     *)

(* pairs.checked_mul(2).checked_mul(cpt); redemption pays it per winning token. *)
required_collateral(pairs) == (pairs * 2) * CollateralPerToken

IssuanceOuts(pairs, total) ==
    << reissuance_token_output("UnresolvedYesRt"),
       reissuance_token_output("UnresolvedNoRt"),
       explicit_txout("COLLATERAL", total, "UnresolvedCollateral"),
       explicit_txout("YES", pairs, "Wallet"),
       explicit_txout("NO", pairs, "Wallet"),
       fee_txout >>

build_initial_issuance_pset(b, pairs, wallet, fee) ==
    [ ins  |-> << InputWithIssuance(b.yes, {pairs}),
                  InputWithIssuance(b.no, {pairs}),
                  add_pset_input(WalletUtxo("COLLATERAL", wallet)),
                  add_pset_input(WalletUtxo("COLLATERAL", fee)) >>,
      outs |-> IssuanceOuts(pairs, required_collateral(pairs))
               \o Change("COLLATERAL", wallet - required_collateral(pairs))
               \o Change("COLLATERAL", fee - FeeAmount),
      lock |-> 0 ]

build_subsequent_issuance_pset(b, pairs, wallet, fee) ==
    [ ins  |-> << InputWithIssuance(b.yes, {pairs}),
                  InputWithIssuance(b.no, {pairs}),
                  add_pset_input(b.coll),
                  add_pset_input(WalletUtxo("COLLATERAL", wallet)),
                  add_pset_input(WalletUtxo("COLLATERAL", fee)) >>,
      outs |-> IssuanceOuts(pairs, b.coll.amount + required_collateral(pairs))
               \o Change("COLLATERAL", wallet - required_collateral(pairs))
               \o Change("COLLATERAL", fee - FeeAmount),
      lock |-> 0 ]

(* Full cancellation has no token change: the pairs burned are all there are. *)
build_cancellation_pset(b, pairs, yesTotal, noTotal, fee) ==
    LET refund    == required_collateral(pairs)
        remaining == b.coll.amount - refund
        partial   == remaining > 0
        yesIn     == add_pset_input(WalletUtxo("YES", yesTotal))
        noIn      == add_pset_input(WalletUtxo("NO", noTotal))
        feeIn     == add_pset_input(WalletUtxo("COLLATERAL", fee))
        refundOut == explicit_txout("COLLATERAL", refund, "Wallet")
    IN  [ ins  |-> IF partial
                   THEN << add_pset_input(b.coll), yesIn, noIn, feeIn >>
                   ELSE << add_pset_input(b.coll), add_pset_input(b.yes),
                           add_pset_input(b.no), yesIn, noIn, feeIn >>,
          outs |-> (IF partial
                    THEN << explicit_txout("COLLATERAL", remaining,
                                           "UnresolvedCollateral"),
                            burn_txout("YES", pairs), burn_txout("NO", pairs),
                            refundOut >>
                         \o Change("YES", yesTotal - pairs)
                         \o Change("NO", noTotal - pairs)
                    ELSE << reissuance_token_output("DormantYesRt"),
                            reissuance_token_output("DormantNoRt"),
                            burn_txout("YES", pairs), burn_txout("NO", pairs),
                            refundOut >>)
                   \o Change("COLLATERAL", fee - FeeAmount)
                   \o << fee_txout >>,
          lock |-> 0 ]

(* build_oracle_resolve_pset and build_expire_transition_pset. *)
TerminalPset(b, target, fee, lock) ==
    [ ins  |-> << add_pset_input(b.yes), add_pset_input(b.no),
                  add_pset_input(b.coll),
                  add_pset_input(WalletUtxo("COLLATERAL", fee)) >>,
      outs |-> << burn_txout("YES_RT", 1), burn_txout("NO_RT", 1),
                  explicit_txout("COLLATERAL", b.coll.amount, target) >>
               \o Change("COLLATERAL", fee - FeeAmount)
               \o << fee_txout >>,
      lock |-> lock ]

build_oracle_resolve_pset(b, outcomeYes, fee) ==
    TerminalPset(b, IF outcomeYes THEN "ResolvedYesCollateral"
                                  ELSE "ResolvedNoCollateral", fee, 0)

build_expire_transition_pset(b, fee) ==
    TerminalPset(b, "ExpiredCollateral", fee, ExpiryTime)

(* The two redemption builders: they differ in payout rate and lock time. *)
RedemptionPset(b, asset, tokens, payout, total, fee, lock) ==
    LET remaining == b.coll.amount - payout
        burn      == burn_txout(asset, tokens)
        payoutOut == explicit_txout("COLLATERAL", payout, "Wallet")
    IN  [ ins  |-> << add_pset_input(b.coll),
                      add_pset_input(WalletUtxo(asset, total)),
                      add_pset_input(WalletUtxo("COLLATERAL", fee)) >>,
          outs |-> (IF remaining > 0
                    THEN << explicit_txout("COLLATERAL", remaining, b.coll.script),
                            burn, payoutOut >>
                    ELSE << burn, payoutOut >>)
                   \o Change(asset, total - tokens)
                   \o Change("COLLATERAL", fee - FeeAmount)
                   \o << fee_txout >>,
          lock |-> lock ]

winning_token_asset(b) ==
    IF b.coll.script = "ResolvedYesCollateral" THEN "YES" ELSE "NO"

build_post_resolution_redemption_pset(b, tokens, total, fee) ==
    RedemptionPset(b, winning_token_asset(b), tokens,
                   required_collateral(tokens), total, fee, 0)

build_expiry_redemption_pset(b, asset, tokens, total, fee) ==
    RedemptionPset(b, asset, tokens, tokens * CollateralPerToken,
                   total, fee, ExpiryTime)

-----------------------------------------------------------------------------
(* Assembly. *)

ensure_fee_output_last(tx) ==
    LET n == Len(tx.outs)
        swap == /\ n >= 2
                /\ tx.outs[n].script # "Fee"
                /\ tx.outs[n - 1].script = "Fee"
    IN  IF swap
        THEN [tx EXCEPT !.outs[n] = tx.outs[n - 1], !.outs[n - 1] = tx.outs[n]]
        ELSE tx

(* Outputs 0 and 1 become one unit of the YES and NO reissuance token when *)
(* rt holds; they and every wallet output become confidential.             *)
blind_pset(tx, rt) ==
    [tx EXCEPT !.outs =
        [k \in DOMAIN tx.outs |->
            IF rt /\ k \in {1, 2}
            THEN [script |-> tx.outs[k].script, amount |-> 1, conf |-> TRUE,
                  asset  |-> IF k = 1 THEN "YES_RT" ELSE "NO_RT"]
            ELSE [tx.outs[k] EXCEPT !.conf = (tx.outs[k].script = "Wallet")]]]

(* The witness of one covenant input; unused fields are zero. *)
Witness(path, slot) ==
    [path |-> path, slot |-> slot, outcome_yes |-> FALSE, sig |-> TRUE,
     tokens_burned |-> 0, pairs_burned |-> 0, burn_asset |-> "NULL"]

(* An assembled transaction: witnesses[i + 1] spends covenant input i. *)
Assembled(tx, witnesses) == [tx |-> tx, witnesses |-> witnesses]

assemble_issuance(state, b, pairs, wallet, fee) ==
    IF state = "Dormant"
    THEN Assembled(
           blind_pset(build_initial_issuance_pset(b, pairs, wallet, fee), TRUE),
           << Witness("InitialIssuancePrimary", "DormantYesRt"),
              Witness("InitialIssuanceSecondaryNoRt", "DormantNoRt") >>)
    ELSE Assembled(
           blind_pset(build_subsequent_issuance_pset(b, pairs, wallet, fee), TRUE),
           << Witness("SubsequentIssuancePrimary", "UnresolvedYesRt"),
              Witness("SubsequentIssuanceSecondaryNoRt", "UnresolvedNoRt"),
              Witness("SubsequentIssuanceSecondaryCollateral",
                      "UnresolvedCollateral") >>)

assemble_cancellation(b, pairs, yesTotal, noTotal, fee) ==
    LET tx == ensure_fee_output_last(
                  build_cancellation_pset(b, pairs, yesTotal, noTotal, fee))
    IN  IF b.coll.amount = required_collateral(pairs)
        THEN Assembled(
               blind_pset(tx, TRUE),
               << [Witness("CancellationFullPrimary", "UnresolvedCollateral")
                      EXCEPT !.pairs_burned = pairs],
                  Witness("CancellationFullSecondaryYesRt", "UnresolvedYesRt"),
                  Witness("CancellationFullSecondaryNoRt", "UnresolvedNoRt") >>)
        ELSE Assembled(
               blind_pset(tx, FALSE),
               << [Witness("CancellationPartial", "UnresolvedCollateral")
                      EXCEPT !.pairs_burned = pairs] >>)

assemble_oracle_resolve(b, outcomeYes, sig, fee) ==
    Assembled(
        blind_pset(build_oracle_resolve_pset(b, outcomeYes, fee), TRUE),
        << [Witness("OracleResolvePrimary", "UnresolvedYesRt")
               EXCEPT !.outcome_yes = outcomeYes, !.sig = sig],
           Witness("OracleResolveSecondaryNoRt", "UnresolvedNoRt"),
           Witness("OracleResolveSecondaryCollateral", "UnresolvedCollateral") >>)

assemble_expire_transition(b, fee) ==
    Assembled(
        blind_pset(build_expire_transition_pset(b, fee), TRUE),
        << Witness("ExpireTransitionPrimary", "UnresolvedYesRt"),
           Witness("ExpireTransitionSecondaryNoRt", "UnresolvedNoRt"),
           Witness("ExpireTransitionSecondaryCollateral", "UnresolvedCollateral") >>)

assemble_post_resolution_redemption(b, tokens, total, fee) ==
    Assembled(
        blind_pset(ensure_fee_output_last(
            build_post_resolution_redemption_pset(b, tokens, total, fee)), FALSE),
        << [Witness("PostResolutionRedemption", b.coll.script)
               EXCEPT !.tokens_burned = tokens] >>)

assemble_expiry_redemption(b, asset, tokens, total, fee) ==
    Assembled(
        blind_pset(ensure_fee_output_last(
            build_expiry_redemption_pset(b, asset, tokens, total, fee)), FALSE),
        << [Witness("ExpiryRedemption", "ExpiredCollateral")
               EXCEPT !.tokens_burned = tokens, !.burn_asset = asset] >>)

(* attach_covenant_witnesses runs the covenant on every witness it attaches *)
(* and fails when one of them is not satisfied.                             *)
attach_covenant_witnesses(a) ==
    \A k \in DOMAIN a.witnesses : main(a.tx, k - 1, a.witnesses[k])
=============================================================================
