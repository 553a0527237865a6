--------------------------- MODULE MarketScanner ---------------------------
(***************************************************************************)
(* The canonical market scan (prediction_market_scan.rs): from the         *)
(* creation transaction it follows the spenders of the market's outpoints  *)
(* to the live bundle.  Every spending_txid is a query of its own to an    *)
(* indexer, so the market may move between any two of them; a fetched      *)
(* transaction never changes and is read at once.                          *)
(*                                                                         *)
(* The SDK and the store both run this scan, each with its own backend.    *)
(* Transactions on chain are the ones PredictionMarketTx assembles, and    *)
(* deposits by third parties to the public slot addresses.                 *)
(***************************************************************************)
EXTENDS PredictionMarketTx, FiniteSets, FiniteSetsExt

CONSTANTS
    MaxAmount,  \* bound: largest amount of one transaction
    MaxChain,    \* bound: length of the chain, the creation included
    DepositSlots  \* slots third parties deposit to

ASSUME ScannerAssumption == MaxChain \in Nat \ {0}

VARIABLES
    chain,    \* chain[t]: the transaction with txid t; chain[1] is the anchor's
    lineage,  \* lineage[t]: the market's own live outputs after transaction t
    scan      \* the scan in progress

scannerVars == <<chain, lineage, scan>>

-----------------------------------------------------------------------------
(* The creation transaction.  An input says which reissuance token its     *)
(* issuance creates ("other": a different issuance, "none": no issuance).  *)

MarketOutput(slot, asset) ==
    [script |-> slot, asset |-> asset, amount |-> 1, conf |-> TRUE]

(* build_creation_pset and what else may stand at an anchor's txid. *)
CreationTxs ==
    { [ins |-> << [issues |-> yes], [issues |-> no], [issues |-> other] >>,
       outs |-> << MarketOutput("DormantYesRt", yes), MarketOutput("DormantNoRt", no),
                   fee_txout, extra >>] :
      yes \in {"YES_RT", "other"}, no \in {"NO_RT", "other"},
      other \in {"none", "other"},
      extra \in { explicit_txout("COLLATERAL", 1, script) :
                  script \in {"Wallet", "DormantYesRt", "UnresolvedCollateral"} } }

is_canonical_creation_input(txin, token) == txin.issues = token

matches_confidential_dormant_creation_output(txout, script, token) ==
    txout.script = script /\ verify_token_commitment(txout, token)

validate_prediction_market_creation_tx(tx) ==
    /\ is_canonical_creation_input(tx.ins[1], "YES_RT")
    /\ is_canonical_creation_input(tx.ins[2], "NO_RT")
    /\ \A k \in 3..Len(tx.ins) : tx.ins[k].issues = "none"
    /\ matches_confidential_dormant_creation_output(tx.outs[1], "DormantYesRt", "YES_RT")
    /\ matches_confidential_dormant_creation_output(tx.outs[2], "DormantNoRt", "NO_RT")
    /\ \A k \in 3..Len(tx.outs) : tx.outs[k].script \notin MarketSlot

-----------------------------------------------------------------------------
(* Bundles: the lifecycle state, the outputs in the order they are asked   *)
(* about, and the transaction that led there.                              *)

Bundle(state, utxos, last) == [state |-> state, utxos |-> utxos, last |-> last]

ScanError == [state |-> "Error"]

Utxo(t, k) == [id |-> <<t, k - 1>>, slot |-> chain[t].outs[k].script]

tx_spends_outpoint(t, u) == \E k \in DOMAIN chain[t].ins : chain[t].ins[k].id = u.id

find_slot_outputs(t) ==
    {Utxo(t, k) : k \in {j \in DOMAIN chain[t].outs : chain[t].outs[j].script \in MarketSlot}}

(* Faulty count: a burned reissuance token, which is confidential, is missed. *)
ExplicitBurnCount(t) ==
    Cardinality({k \in DOMAIN chain[t].outs :
                    chain[t].outs[k].script = "Burn" /\ ~chain[t].outs[k].conf})

burn_output_count(t) ==
    Cardinality({k \in DOMAIN chain[t].outs : chain[t].outs[k].script = "Burn"})

(* The slot outputs are exactly one for each slot expected. *)
ExactSlotSet(t, expected) ==
    /\ Cardinality(find_slot_outputs(t)) = Len(expected)
    /\ \A s \in DOMAIN expected :
          \E u \in find_slot_outputs(t) : u.slot = expected[s]

expect_exact_slot_set(t, expected) ==
    [s \in DOMAIN expected |->
        CHOOSE u \in find_slot_outputs(t) : u.slot = expected[s]]

Reissues(t) ==
    /\ Len(chain[t].ins) >= 2
    /\ chain[t].ins[1].issuance # {} /\ chain[t].ins[2].issuance # {}

DormantSlots    == <<"DormantYesRt", "DormantNoRt">>
UnresolvedSlots == <<"UnresolvedYesRt", "UnresolvedNoRt", "UnresolvedCollateral">>

TerminalStateOf(slot) ==
    CASE slot = "ResolvedYesCollateral" -> "ResolvedYes"
      [] slot = "ResolvedNoCollateral"  -> "ResolvedNo"
      [] slot = "ExpiredCollateral"     -> "Expired"

TerminalSlots ==
    {"ResolvedYesCollateral", "ResolvedNoCollateral", "ExpiredCollateral"}

(* The answer None of spending_txid. *)
None == 0

(* One round of the scan: bundle b, and who spends each of its outputs. *)
resolve_dormant_transition(b, spender) ==
    LET t == spender[1]
    IN  IF spender = <<None, None>> THEN b
        ELSE IF /\ spender[1] = spender[2]
                /\ \A k \in 1..2 : tx_spends_outpoint(t, b.utxos[k])
                /\ Reissues(t)
                /\ ExactSlotSet(t, UnresolvedSlots)
        THEN Bundle("Unresolved", expect_exact_slot_set(t, UnresolvedSlots), t)
        ELSE ScanError

(* Faulty partial cancellation: the spent collateral stays in the bundle. *)
KeepsSpentCollateral(b, t) ==
    IF tx_spends_outpoint(t, b.utxos[3]) THEN Bundle("Unresolved", b.utxos, t)
    ELSE ScanError

(* (None, None, Some): only the collateral moved. *)
PartialCancellation(b, t) ==
    IF /\ tx_spends_outpoint(t, b.utxos[3])
       /\ ~tx_spends_outpoint(t, b.utxos[1])
       /\ ~tx_spends_outpoint(t, b.utxos[2])
       /\ burn_output_count(t) >= 2
       /\ ExactSlotSet(t, <<"UnresolvedCollateral">>)
    THEN Bundle("Unresolved",
                SubSeq(b.utxos, 1, 2)
                    \o expect_exact_slot_set(t, <<"UnresolvedCollateral">>), t)
    ELSE ScanError

(* (Some(t), Some(t), Some(t)): the whole bundle moved. *)
BundleTransition(b, t) ==
    CASE ~\A k \in 1..3 : tx_spends_outpoint(t, b.utxos[k]) -> ScanError
      [] ExactSlotSet(t, UnresolvedSlots) /\ Reissues(t) ->
            Bundle("Unresolved", expect_exact_slot_set(t, UnresolvedSlots), t)
      [] ExactSlotSet(t, DormantSlots) /\ burn_output_count(t) >= 2 ->
            Bundle("Dormant", expect_exact_slot_set(t, DormantSlots), t)
      [] /\ burn_output_count(t) >= 2
         /\ \E slot \in TerminalSlots : ExactSlotSet(t, <<slot>>) ->
            LET u == CHOOSE v \in find_slot_outputs(t) : TRUE
            IN  Bundle(TerminalStateOf(u.slot), <<u>>, t)
      [] OTHER -> ScanError

resolve_unresolved_transition(b, spender) ==
    CASE spender = <<None, None, None>> -> b
      [] spender[1] = None /\ spender[2] = None /\ spender[3] # None ->
            PartialCancellation(b, spender[3])
      [] /\ spender[1] # None
         /\ spender[1] = spender[2] /\ spender[2] = spender[3] ->
            BundleTransition(b, spender[1])
      [] OTHER -> ScanError

(* No slot output left: EmptyTerminal. *)
resolve_terminal_transition(b, spender) ==
    LET t == spender[1]
    IN  IF t = None THEN b
        ELSE IF ~(tx_spends_outpoint(t, b.utxos[1]) /\ burn_output_count(t) >= 1) THEN ScanError
        ELSE IF find_slot_outputs(t) = {} THEN Bundle(b.state, <<>>, t)
        ELSE IF ExactSlotSet(t, <<b.utxos[1].slot>>)
        THEN Bundle(b.state, expect_exact_slot_set(t, <<b.utxos[1].slot>>), t)
        ELSE ScanError

resolve_transition(b, spender) ==
    CASE b.state = "Dormant"    -> resolve_dormant_transition(b, spender)
      [] b.state = "Unresolved" -> resolve_unresolved_transition(b, spender)
      [] OTHER                  -> resolve_terminal_transition(b, spender)

(* The backend, at the moment it is asked. *)
spending_txid(u) ==
    LET spenders == {t \in 2..Len(chain) : tx_spends_outpoint(t, u)}
    IN  IF spenders = {} THEN None ELSE Min(spenders)

-----------------------------------------------------------------------------
ScannerInit ==
    /\ \E tx \in CreationTxs : chain = <<tx>>
    /\ lineage = << {Utxo(1, k) : k \in {j \in DOMAIN chain[1].outs :
                                         chain[1].outs[j].script \in MarketSlot}} >>
    /\ scan = [pc |-> "idle", bundle |-> ScanError, spender |-> <<>>, since |-> 0]

(* scan_prediction_market_canonical: fetch the anchor's transaction. *)
StartScan ==
    /\ scan.pc = "idle"
    /\ scan' = IF validate_prediction_market_creation_tx(chain[1])
               THEN [pc |-> "resolve", spender |-> <<>>, since |-> Len(chain),
                     bundle |-> Bundle("Dormant", <<Utxo(1, 1), Utxo(1, 2)>>, 1)]
               ELSE [scan EXCEPT !.pc = "not_canonical"]
    /\ UNCHANGED <<chain, lineage>>

(* Faulty order: the collateral, which moves most often, is asked first. *)
CollateralFirst(b, n) == b.utxos[Len(b.utxos) + 1 - n]

(* The outputs of a bundle are asked about in this order. *)
ResolveQuery(b, n) == b.utxos[n]
RecheckQuery(b, n) == b.utxos[n]

(* One spending_txid; the last one of a round ends the round. *)
Resolve ==
    LET n        == Len(scan.spender) + 1
        spender  == Append(scan.spender, spending_txid(ResolveQuery(scan.bundle, n)))
        resolved == resolve_transition(scan.bundle, spender)
    IN  /\ scan.pc = "resolve"
        /\ \/ /\ n < Len(scan.bundle.utxos)
              /\ scan' = [scan EXCEPT !.spender = spender]
           \/ /\ n = Len(scan.bundle.utxos)
              /\ scan' = IF resolved = ScanError THEN [scan EXCEPT !.pc = "error"]
                         ELSE IF resolved.utxos = <<>>
                         THEN [scan EXCEPT !.pc = "ok", !.bundle = resolved]
                         ELSE [scan EXCEPT !.pc = "recheck", !.bundle = resolved,
                                           !.spender = <<>>]
        /\ UNCHANGED <<chain, lineage>>

(* Faulty recheck: the scan goes on although nothing is spent. *)
RecheckNeverSettles ==
    LET n       == Len(scan.spender) + 1
        spender == Append(scan.spender, spending_txid(RecheckQuery(scan.bundle, n)))
    IN  /\ scan.pc = "recheck"
        /\ scan' = IF n < Len(scan.bundle.utxos)
                   THEN [scan EXCEPT !.spender = spender]
                   ELSE [scan EXCEPT !.pc = "resolve", !.spender = <<>>,
                                     !.since = Len(chain)]
        /\ UNCHANGED <<chain, lineage>>

(* The scan returns a bundle none of whose outputs is found spent. *)
Recheck ==
    LET n       == Len(scan.spender) + 1
        spender == Append(scan.spender, spending_txid(RecheckQuery(scan.bundle, n)))
    IN  /\ scan.pc = "recheck"
        /\ \/ /\ n < Len(scan.bundle.utxos)
              /\ scan' = [scan EXCEPT !.spender = spender]
           \/ /\ n = Len(scan.bundle.utxos)
              /\ scan' = IF \A k \in DOMAIN spender : spender[k] = None
                         THEN [scan EXCEPT !.pc = "ok", !.spender = <<>>]
                         ELSE [scan EXCEPT !.pc = "resolve", !.spender = <<>>,
                                           !.since = Len(chain)]
        /\ UNCHANGED <<chain, lineage>>

(* A query or a fetch fails and the scan returns its error. *)
BackendFails ==
    /\ scan.pc \in {"idle", "resolve", "recheck"}
    /\ scan' = [scan EXCEPT !.pc = "unavailable"]
    /\ UNCHANGED <<chain, lineage>>

(* ScanError or success, the caller may scan again from the anchor. *)
Rescan ==
    /\ scan.pc \in {"ok", "error", "unavailable"}
    /\ scan' = [pc |-> "idle", bundle |-> ScanError, spender |-> <<>>, since |-> 0]
    /\ UNCHANGED <<chain, lineage>>

-----------------------------------------------------------------------------
(* The chain: transactions that spend the market's live outputs. *)

Live == lineage[Len(chain)]

(* The live UTXO of an asset, as the builders take it. *)
LiveUtxo(asset) ==
    LET us == {u \in Live : chain[u.id[1]].outs[u.id[2] + 1].asset = asset}
        u  == CHOOSE v \in us : TRUE
        o  == chain[u.id[1]].outs[u.id[2] + 1]
    IN  IF us = {} THEN [id |-> <<>>, amount |-> 0, script |-> "none"]
        ELSE [id |-> u.id, script |-> u.slot, asset |-> asset,
              amount |-> o.amount, conf |-> o.conf]

LiveBundle == [yes |-> LiveUtxo("YES_RT"), no |-> LiveUtxo("NO_RT"),
               coll |-> LiveUtxo("COLLATERAL")]

LiveAt(slot) == \E u \in Live : u.slot = slot

(* A transaction whose covenants are satisfied lands. *)
Confirm(a) ==
    /\ Len(chain) < MaxChain
    /\ attach_covenant_witnesses(a)
    /\ chain' = Append(chain, a.tx)
    /\ lineage' = Append(lineage,
          { u \in Live : \A k \in DOMAIN a.tx.ins : a.tx.ins[k].id # u.id }
          \cup { [id |-> <<Len(chain) + 1, k - 1>>, slot |-> a.tx.outs[k].script] :
                 k \in {j \in DOMAIN a.tx.outs : a.tx.outs[j].script \in MarketSlot} })
    /\ UNCHANGED scan

ConfirmIssuance(n) ==
    /\ LiveAt("DormantYesRt") \/ LiveAt("UnresolvedYesRt")
    /\ Confirm(assemble_issuance(IF LiveAt("DormantYesRt") THEN "Dormant" ELSE "Unresolved",
                              LiveBundle, n, required_collateral(n), FeeAmount))

ConfirmCancellation(n) ==
    /\ LiveAt("UnresolvedYesRt")
    /\ required_collateral(n) <= LiveBundle.coll.amount
    /\ Confirm(assemble_cancellation(LiveBundle, n, n, n, FeeAmount))

ConfirmResolution(outcomeYes) ==
    /\ LiveAt("UnresolvedYesRt")
    /\ Confirm(assemble_oracle_resolve(LiveBundle, outcomeYes, outcomeYes, FeeAmount))

ConfirmExpiry ==
    /\ LiveAt("UnresolvedYesRt")
    /\ Confirm(assemble_expire_transition(LiveBundle, FeeAmount))

ConfirmRedemption(n) ==
    /\ LiveAt("ResolvedYesCollateral") \/ LiveAt("ResolvedNoCollateral")
    /\ required_collateral(n) <= LiveBundle.coll.amount
    /\ Confirm(assemble_post_resolution_redemption(LiveBundle, n, n, FeeAmount))

ConfirmExpiryRedemption(n) ==
    /\ LiveAt("ExpiredCollateral")
    /\ n * CollateralPerToken <= LiveBundle.coll.amount
    /\ Confirm(assemble_expiry_redemption(LiveBundle, "YES", n, n, FeeAmount))

(* Anyone may pay to a slot's address; the market does not own that output. *)
Deposit(slot) ==
    /\ Len(chain) < MaxChain
    /\ chain' = Append(chain,
          [ins |-> <<add_pset_input(WalletUtxo("COLLATERAL", 1 + FeeAmount))>>,
           outs |-> <<explicit_txout("COLLATERAL", 1, slot), fee_txout>>, lock |-> 0])
    /\ lineage' = Append(lineage, Live)
    /\ UNCHANGED scan

ScanNext == StartScan \/ Resolve \/ Recheck \/ Rescan

(* An anchor that is not a market's creation never has a market. *)
ChainNext ==
    /\ validate_prediction_market_creation_tx(chain[1])
    /\ \/ \E n \in 1..MaxAmount : \/ ConfirmIssuance(n) \/ ConfirmCancellation(n)
                                 \/ ConfirmRedemption(n) \/ ConfirmExpiryRedemption(n)
       \/ \E outcomeYes \in BOOLEAN : ConfirmResolution(outcomeYes)
       \/ ConfirmExpiry
       \/ \E slot \in DepositSlots : Deposit(slot)

ScannerNext == ScanNext \/ BackendFails \/ ChainNext

(* A scan runs to its end on the caller's thread. *)
ScannerFairness == WF_scannerVars(StartScan) /\ WF_scannerVars(Resolve) /\ WF_scannerVars(Recheck)

ScannerSpec == ScannerInit /\ [][ScannerNext]_scannerVars /\ ScannerFairness
-----------------------------------------------------------------------------
(* Properties. *)

ScannerTypeOK ==
    /\ Len(chain) = Len(lineage) /\ Len(chain) <= MaxChain
    /\ \A t \in DOMAIN lineage : \A u \in lineage[t] : u.slot \in MarketSlot
    /\ scan.pc \in {"idle", "resolve", "recheck", "ok", "error",
                    "unavailable", "not_canonical"}
    /\ \A k \in DOMAIN scan.spender : scan.spender[k] \in 0..Len(chain)
    /\ scan.pc \in {"resolve", "recheck"} =>
          Len(scan.spender) < Len(scan.bundle.utxos)

(* The scan follows the market through its history without skipping or     *)
(* inventing a transition: whatever lands while it runs, the bundle in     *)
(* hand is exactly what the market owned after the bundle's last           *)
(* transition, and deposits to its addresses never enter it.               *)
BundleOnHistory ==
    /\ ScannerTypeOK
    /\ scan.pc \in {"resolve", "recheck", "ok"} =>
          {scan.bundle.utxos[k] : k \in DOMAIN scan.bundle.utxos} =
              lineage[scan.bundle.last]

(* A scan that succeeds returns what the market owns at that moment, not   *)
(* at some moment since it started: its last query is the one that any     *)
(* transition of the market would have changed.                            *)
ReturnsLive ==
    scan.pc # "ok" /\ scan'.pc = "ok" =>
        {scan'.bundle.utxos[k] : k \in DOMAIN scan'.bundle.utxos} = Live

FreshAtReturn == [][ReturnsLive]_scannerVars

(* A transition that spends the reissuance tokens of one transaction and   *)
(* the collateral of another: a partial cancellation came before it.       *)
SeveredBundle ==
    \E t \in 2..Len(chain) : \E k, j \in DOMAIN chain[t].ins :
        /\ chain[t].ins[k].script = "UnresolvedYesRt"
        /\ chain[t].ins[j].script = "UnresolvedCollateral"
        /\ chain[t].ins[k].id[1] # chain[t].ins[j].id[1]

(* Apart from such a history the scan reports an inconsistency only when   *)
(* the market moved during the round of queries that found it, so that a   *)
(* rescan can succeed.                                                     *)
ErrorOnlyIfRaced ==
    scan.pc = "error" => Len(chain) > scan.since \/ SeveredBundle

(* What the design document says of the scanner: the lifecycle state is    *)
(* derived by walking the market's canonical descendants, so a scan of an  *)
(* SDK-driven market that stands still does not fail.                      *)
WalkDerivesState ==
    scan.pc = "error" => Len(chain) > scan.since

(* Every scan ends, with a result or an error. *)
ScanTerminates ==
    scan.pc \in {"idle", "resolve", "recheck"} ~>
        scan.pc \in {"ok", "error", "unavailable", "not_canonical"}
=============================================================================
