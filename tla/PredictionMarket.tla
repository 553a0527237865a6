-------------------------- MODULE PredictionMarket --------------------------
(***************************************************************************)
(* One prediction market on chain, the clients that operate it through     *)
(* DeadcatSdk, the oracle and the block height.                            *)
(*                                                                         *)
(* A request scans the market, assembles a transaction from what the scan  *)
(* returned and broadcasts it; other clients may move the market between   *)
(* the scan and the broadcast.  An SDK instance serves one request at a    *)
(* time (&mut self), so a client has at most one transaction in hand.  A   *)
(* request that fails before its broadcast changes nothing, and is a       *)
(* request the model does not take.                                        *)
(***************************************************************************)
EXTENDS PredictionMarketTx, FiniteSets, Functions

CONSTANTS
    Clients,    \* SDK instances, each with its own wallet
    Surplus,    \* how much a wallet input may exceed what it pays for
    MaxPairs,   \* bound: largest amount of one request
    MaxHeight,  \* bound: the height stops here
    MaxTxs      \* bound: transactions that reach the chain

ASSUME MarketAssumption ==
    /\ IsFiniteSet(Clients)
    /\ Surplus \subseteq Nat
    /\ MaxPairs \in Nat
    /\ MaxHeight \in Nat
    /\ MaxTxs \in Nat

VARIABLES
    utxos,     \* unspent outputs at the market's eight scripts
    state,     \* lifecycle state a canonical scan reports
    severed,   \* the market's history is one the canonical scan cannot follow
    txs,       \* transactions landed so far, the source of fresh outpoints
    height,    \* block height
    signed,    \* outcomes the oracle has signed
    holdings,  \* holdings[c][a]: tokens of asset a in the wallet of client c
    request    \* request[c]: what client c has in hand

vars == <<utxos, state, severed, txs, height, signed, holdings, request>>

Tokens == {"YES", "NO"}

Idle == [stage |-> "idle"]

-----------------------------------------------------------------------------
(* What a canonical scan returns.  MarketScanner has the scan itself: it   *)
(* returns what is live when it ends, and it fails, from then on, once the *)
(* reissuance tokens and the collateral of one bundle were spent by        *)
(* different transactions (a partial cancellation, then any transition     *)
(* that spends the whole bundle).                                          *)

LiveSlots == {u.script : u \in utxos}

(* Faulty derivation: the two resolved slots are swapped. *)
DerivesSwapped(slots) ==
    CASE slots = {"DormantYesRt", "DormantNoRt"} -> "Dormant"
      [] slots = {"UnresolvedYesRt", "UnresolvedNoRt", "UnresolvedCollateral"} ->
            "Unresolved"
      [] slots = {"ResolvedYesCollateral"} -> "ResolvedNo"
      [] slots = {"ResolvedNoCollateral"}  -> "ResolvedYes"
      [] slots = {"ExpiredCollateral"}     -> "Expired"
      [] OTHER -> "Inconsistent"

derive_state_from_live_slots(slots) ==
    CASE slots = {"DormantYesRt", "DormantNoRt"} -> "Dormant"
      [] slots = {"UnresolvedYesRt", "UnresolvedNoRt", "UnresolvedCollateral"} ->
            "Unresolved"
      [] slots = {"ResolvedYesCollateral"} -> "ResolvedYes"
      [] slots = {"ResolvedNoCollateral"}  -> "ResolvedNo"
      [] slots = {"ExpiredCollateral"}     -> "Expired"
      [] OTHER -> "Inconsistent"

NoUtxo == [id |-> <<>>]

UtxoOf(asset) ==
    IF \E u \in utxos : u.asset = asset
    THEN CHOOSE u \in utxos : u.asset = asset
    ELSE NoUtxo

(* classify_covenant_utxos and find_collateral_utxo tell the UTXOs of a    *)
(* scan apart by asset.                                                    *)
classify_covenant_utxos ==
    [yes |-> UtxoOf("YES_RT"), no |-> UtxoOf("NO_RT"), coll |-> UtxoOf("COLLATERAL")]

Severs(tx) ==
    \E k, j \in DOMAIN tx.ins :
        /\ tx.ins[k].asset = "YES_RT" /\ tx.ins[j].script = "UnresolvedCollateral"
        /\ tx.ins[k].id[1] # tx.ins[j].id[1]

(* scan_market_state succeeds and finds the market in one of these states. *)
scan_market_state(states) == ~severed /\ state \in states

-----------------------------------------------------------------------------
(* What the Liquid network accepts. *)

InAmount(tx, asset) ==
    SumFunction([k \in DOMAIN tx.ins |->
                    IF tx.ins[k].asset = asset THEN tx.ins[k].amount ELSE 0])

OutAmount(tx, asset) ==
    SumFunction([k \in DOMAIN tx.outs |->
                    IF tx.outs[k].asset = asset THEN tx.outs[k].amount ELSE 0])

(* An issuance on an input that spends a reissuance token mints its asset. *)
Minted(tx, asset) ==
    SumFunction([k \in DOMAIN tx.ins |->
                    IF tx.ins[k].asset = (IF asset = "YES" THEN "YES_RT" ELSE "NO_RT")
                    THEN SumFunction([n \in tx.ins[k].issuance |-> n]) ELSE 0])

Balanced(tx) ==
    \A asset \in Asset :
        OutAmount(tx, asset) =
            InAmount(tx, asset)
            + (IF asset \in Tokens THEN Minted(tx, asset) ELSE 0)

CovenantInputs(tx) == {k \in DOMAIN tx.ins : tx.ins[k].script \in MarketSlot}

(* Faulty conflict rule: only the first input is looked up. *)
FirstInputUnspent(tx) == \E u \in utxos : u.id = tx.ins[1].id

Unspent(tx) ==
    \A k \in CovenantInputs(tx) : \E u \in utxos : u.id = tx.ins[k].id

NetworkAccepts(a) ==
    /\ Unspent(a.tx)
    /\ a.tx.lock <= height
    /\ \A k \in DOMAIN a.tx.outs : a.tx.outs[k].amount > 0
    /\ Balanced(a.tx)
    /\ CovenantInputs(a.tx) = DOMAIN a.witnesses
    /\ attach_covenant_witnesses(a)

(* What wallet inputs or outputs carry of an asset. *)
WalletAmount(seq, asset) ==
    SumFunction([k \in DOMAIN seq |->
                    IF seq[k].script = "Wallet" /\ seq[k].asset = asset
                    THEN seq[k].amount ELSE 0])

(* Effect of a transaction of client c. *)
Land(c, tx) ==
    LET spent   == {tx.ins[k].id : k \in CovenantInputs(tx)}
        kept    == {u \in utxos : u.id \notin spent}
        created == { [id |-> <<txs + 1, k - 1>>, script |-> tx.outs[k].script,
                      asset |-> tx.outs[k].asset, amount |-> tx.outs[k].amount,
                      conf |-> tx.outs[k].conf] :
                     k \in {j \in DOMAIN tx.outs : tx.outs[j].script \in MarketSlot} }
    IN  /\ utxos' = kept \cup created
        /\ state' = IF utxos' = {} THEN state
                    ELSE derive_state_from_live_slots({u.script : u \in utxos'})
        /\ severed' = (severed \/ Severs(tx))
        /\ txs' = txs + 1
        /\ holdings' = [holdings EXCEPT ![c] =
              [asset \in Tokens |-> @[asset] - WalletAmount(tx.ins, asset)
                                             + WalletAmount(tx.outs, asset)]]

-----------------------------------------------------------------------------
(* create_contract_onchain put one unit of each reissuance token in the    *)
(* dormant slots; the market starts there.                                 *)
Init ==
    /\ utxos = { [id |-> <<0, 0>>, script |-> "DormantYesRt", asset |-> "YES_RT",
                  amount |-> 1, conf |-> TRUE],
                 [id |-> <<0, 1>>, script |-> "DormantNoRt", asset |-> "NO_RT",
                  amount |-> 1, conf |-> TRUE] }
    /\ state = "Dormant"
    /\ severed = FALSE
    /\ txs = 0
    /\ height = 0
    /\ signed = {}
    /\ holdings = [c \in Clients |-> [a \in Tokens |-> 0]]
    /\ request = [c \in Clients |-> Idle]

(* An assembled transaction whose covenant checks pass is kept for         *)
(* broadcast; next is the redemption to attempt once it is on chain.       *)
Prepare(c, a, next) ==
    /\ attach_covenant_witnesses(a)
    /\ request' = [request EXCEPT ![c] =
          [stage |-> "broadcast", tx |-> a.tx, witnesses |-> a.witnesses,
           next |-> next]]
    /\ UNCHANGED <<utxos, state, severed, txs, height, signed, holdings>>

(* Wallet inputs cover what they pay for exactly, or leave change. *)
FeeInputs == {FeeAmount + x : x \in Surplus}
CollateralInputs(pairs) == {required_collateral(pairs) + x : x \in Surplus}

(* Token selection stops at the first total that suffices, and which one   *)
(* that is depends on how the tokens are split into UTXOs.                 *)
TokenInputs(c, asset, needed) == needed..holdings[c][asset]

Amounts == 0..MaxPairs

IssueTokens(c, pairs, fee) ==
    LET b == classify_covenant_utxos
    IN  /\ request[c] = Idle
        /\ scan_market_state({"Dormant", "Unresolved"})
        /\ Fits(required_collateral(pairs))
        /\ state = "Unresolved" =>
              Fits(b.coll.amount + required_collateral(pairs))
        /\ \E wallet \in CollateralInputs(pairs) :
              Prepare(c, assemble_issuance(state, b, pairs, wallet, fee), <<>>)

CancelTokens(c, pairs, fee) ==
    LET b == classify_covenant_utxos
    IN  /\ request[c] = Idle
        /\ scan_market_state({"Unresolved"})
        /\ Fits(required_collateral(pairs))
        /\ b.coll.amount >= required_collateral(pairs)
        /\ \E yesTotal \in TokenInputs(c, "YES", pairs),
              noTotal \in TokenInputs(c, "NO", pairs) :
              Prepare(c, assemble_cancellation(b, pairs, yesTotal, noTotal, fee), <<>>)

ResolveMarket(c, outcomeYes, sig, fee) ==
    LET b == classify_covenant_utxos
    IN  /\ request[c] = Idle
        /\ scan_market_state({"Unresolved"})
        /\ Prepare(c, assemble_oracle_resolve(b, outcomeYes, sig, fee), <<>>)

RedeemTokens(c, tokens, fee) ==
    LET b == classify_covenant_utxos
    IN  /\ request[c] = Idle
        /\ scan_market_state({"ResolvedYes", "ResolvedNo"})
        /\ utxos # {}
        /\ Fits(required_collateral(tokens))
        /\ b.coll.amount >= required_collateral(tokens)
        /\ \E total \in TokenInputs(c, winning_token_asset(b), tokens) :
              Prepare(c, assemble_post_resolution_redemption(b, tokens, total, fee), <<>>)

(* redeem_expired on an unresolved market finalises it first (expire_market), *)
(* whatever the wallet holds.                                                 *)
RedeemExpiredFinalize(c, asset, tokens, fee) ==
    LET b == classify_covenant_utxos
    IN  /\ request[c] = Idle
        /\ scan_market_state({"Unresolved"})
        /\ Prepare(c, assemble_expire_transition(b, fee), <<asset, tokens>>)

(* The redemption of redeem_expired: at once, or after its own finalisation. *)
RedeemExpired(c, asset, tokens, fee) ==
    LET b == classify_covenant_utxos
    IN  /\ \/ request[c] = Idle
           \/ request[c] = [stage |-> "finalized", next |-> <<asset, tokens>>]
        /\ scan_market_state({"Expired"})
        /\ utxos # {}
        /\ Fits(tokens * CollateralPerToken)
        /\ b.coll.amount >= tokens * CollateralPerToken
        /\ \E total \in TokenInputs(c, asset, tokens) :
              Prepare(c, assemble_expiry_redemption(b, asset, tokens, total, fee), <<>>)

(* ExpiryFinalizeThenRedeemFailed: the second half cannot be built. *)
RedeemExpiredFail(c) ==
    /\ request[c].stage = "finalized"
    /\ LET asset == request[c].next[1]
           tokens == request[c].next[2]
       IN  ~(/\ ~severed
             /\ utxos # {}
             /\ holdings[c][asset] >= tokens
             /\ UtxoOf("COLLATERAL").amount >= tokens * CollateralPerToken)
    /\ request' = [request EXCEPT ![c] = Idle]
    /\ UNCHANGED <<utxos, state, severed, txs, height, signed, holdings>>

(* broadcast_and_sync, accepted.  A failing sync after the broadcast ends  *)
(* the request with an error although the transaction is on chain.         *)
BroadcastAccepted(c) ==
    /\ request[c].stage = "broadcast"
    /\ NetworkAccepts(request[c])
    /\ txs < MaxTxs
    /\ Land(c, request[c].tx)
    /\ \/ request' = [request EXCEPT ![c] = Idle]
       \/ /\ request[c].next # <<>>
          /\ request' = [request EXCEPT ![c] =
                [stage |-> "finalized", next |-> request[c].next]]
    /\ UNCHANGED <<height, signed>>

BroadcastRejected(c) ==
    /\ request[c].stage = "broadcast"
    /\ ~NetworkAccepts(request[c])
    /\ request' = [request EXCEPT ![c] = Idle]
    /\ UNCHANGED <<utxos, state, severed, txs, height, signed, holdings>>

(* The environment: blocks, the oracle, tokens changing hands. *)
NewBlock ==
    /\ height < MaxHeight
    /\ height' = height + 1
    /\ UNCHANGED <<utxos, state, severed, txs, signed, holdings, request>>

OracleSigns(outcomeYes) ==
    /\ outcomeYes \notin signed
    /\ signed' = signed \cup {outcomeYes}
    /\ UNCHANGED <<utxos, state, severed, txs, height, holdings, request>>

TransferTokens(from, to, asset, n) ==
    /\ from # to
    /\ request[from] = Idle
    /\ n \in 1..holdings[from][asset]
    /\ holdings' = [holdings EXCEPT ![from][asset] = @ - n, ![to][asset] = @ + n]
    /\ UNCHANGED <<utxos, state, severed, txs, height, signed, request>>

SdkNext(c) ==
    \/ \E fee \in FeeInputs, n \in Amounts :
          \/ IssueTokens(c, n, fee)
          \/ CancelTokens(c, n, fee)
          \/ RedeemTokens(c, n, fee)
          \/ \E asset \in Tokens :
                \/ RedeemExpiredFinalize(c, asset, n, fee)
                \/ RedeemExpired(c, asset, n, fee)
    \/ \E fee \in FeeInputs, outcomeYes \in BOOLEAN, sig \in signed :
          ResolveMarket(c, outcomeYes, sig, fee)
    \/ RedeemExpiredFail(c)
    \/ BroadcastAccepted(c)
    \/ BroadcastRejected(c)

EnvNext ==
    \/ NewBlock
    \/ \E outcomeYes \in BOOLEAN : OracleSigns(outcomeYes)
    \/ \E from, to \in Clients, asset \in Tokens, n \in Amounts :
          TransferTokens(from, to, asset, n)

Next == EnvNext \/ \E c \in Clients : SdkNext(c)

Spec == Init /\ [][Next]_vars
-----------------------------------------------------------------------------
(* Properties. *)

Supply(asset) == SumFunction([c \in Clients |-> holdings[c][asset]])

TypeOK ==
    /\ \A u \in utxos : /\ u.script \in MarketSlot /\ u.asset \in Asset
                       /\ u.amount \in 1..U64Max /\ u.conf \in BOOLEAN
    /\ state \in {"Dormant", "Unresolved", "ResolvedYes", "ResolvedNo", "Expired"}
    /\ severed \in BOOLEAN
    /\ txs \in 0..MaxTxs
    /\ height \in 0..MaxHeight
    /\ signed \subseteq BOOLEAN
    /\ \A c \in Clients, a \in Tokens : holdings[c][a] \in 0..U64Max
    /\ \A c \in Clients : request[c].stage \in {"idle", "broadcast", "finalized"}

(* The asset a slot holds. *)
SlotAsset(slot) ==
    CASE slot \in {"DormantYesRt", "UnresolvedYesRt"} -> "YES_RT"
      [] slot \in {"DormantNoRt", "UnresolvedNoRt"}   -> "NO_RT"
      [] OTHER -> "COLLATERAL"

(* Whatever stale transactions race each other to the chain, each live     *)
(* slot holds one UTXO, of its own asset and confidentiality, the slots    *)
(* are exactly those of the lifecycle state, and both reissuance tokens    *)
(* exist while the market can still issue and nowhere afterwards.          *)
LiveSetCanonical ==
    /\ TypeOK
    /\ \A u, v \in utxos : u.script = v.script => u = v
    /\ \A u \in utxos : /\ u.asset = SlotAsset(u.script)
                       /\ u.conf <=> (u.asset # "COLLATERAL")
    /\ IF utxos = {} THEN state \in {"ResolvedYes", "ResolvedNo", "Expired"}
       ELSE /\ state = derive_state_from_live_slots(LiveSlots)
            /\ state # "Inconsistent"

(* The market leaves Unresolved only as the covenant says it may: towards  *)
(* an outcome the oracle signed, whatever outcome the caller of            *)
(* resolve_market pairs with a signature, or by expiry at its height.      *)
OutcomeJustified ==
    /\ state = "ResolvedYes" => TRUE \in signed
    /\ state = "ResolvedNo" => FALSE \in signed
    /\ state = "Expired" => height >= ExpiryTime

(* Builders and covenant agree: a request that passes the SDK's own checks *)
(* is accepted by the covenant and the network when nothing moved since    *)
(* the scan, with or without change, at every amount up to the u64 limit.  *)
FreshRequestsLand ==
    LET b == classify_covenant_utxos
    IN  ~severed => \A c \in Clients, fee \in FeeInputs, n \in Amounts \ {0} :
          /\ (/\ state \in {"Dormant", "Unresolved"}
              /\ Fits(required_collateral(n))
              /\ state = "Unresolved" => Fits(b.coll.amount + required_collateral(n)))
             => \A wallet \in CollateralInputs(n) :
                   NetworkAccepts(assemble_issuance(state, b, n, wallet, fee))
          /\ (state = "Unresolved" /\ b.coll.amount >= required_collateral(n))
             => \A yesTotal \in TokenInputs(c, "YES", n),
                   noTotal \in TokenInputs(c, "NO", n) :
                   NetworkAccepts(assemble_cancellation(b, n, yesTotal, noTotal, fee))
          /\ state = "Unresolved"
             => \A sig \in signed :
                   NetworkAccepts(assemble_oracle_resolve(b, sig, sig, fee))

(* No scannable market strands tokens: once it is terminal every holder    *)
(* can redeem the whole balance at once, whatever others redeemed before,  *)
(* and a market that passed its expiry unresolved can be finalised.        *)
HoldersCanExit ==
    LET b == classify_covenant_utxos
    IN  ~severed => \A c \in Clients, fee \in FeeInputs, asset \in Tokens :
          LET n == holdings[c][asset]
          IN  /\ (/\ n > 0
                  /\ \/ state = "ResolvedYes" /\ asset = "YES"
                     \/ state = "ResolvedNo" /\ asset = "NO")
                 => /\ utxos # {}
                    /\ NetworkAccepts(
                          assemble_post_resolution_redemption(b, n, n, fee))
              /\ (n > 0 /\ state = "Expired")
                 => /\ utxos # {}
                    /\ NetworkAccepts(assemble_expiry_redemption(b, asset, n, n, fee))
              /\ (state = "Unresolved" /\ height >= ExpiryTime)
                 => NetworkAccepts(assemble_expire_transition(b, fee))

(* The market is an implementation of the abstract lifecycle: collateral   *)
(* is what the collateral slot holds, supplies are what wallets hold.      *)
Collateral == IF UtxoOf("COLLATERAL") = NoUtxo THEN 0 ELSE UtxoOf("COLLATERAL").amount

Lifecycle == INSTANCE MarketLifecycle WITH
    state <- state, collateral <- Collateral,
    yesSupply <- Supply("YES"), noSupply <- Supply("NO")

ImplementsLifecycle == Lifecycle!Spec
=============================================================================
