----------------------- MODULE PredictionMarketProofs -----------------------
(***************************************************************************)
(* Proofs about PredictionMarket, for any number of clients and any        *)
(* amounts: whatever requests race each other, the market keeps one of     *)
(* the canonical sets of live outputs, leaves Unresolved only as the       *)
(* covenant allows, and implements MarketLifecycle, so that what is proved *)
(* there of collateral and supplies holds of the market on the chain.      *)
(* Then: what the SDK assembles from the live outputs is accepted, so that *)
(* no request fails by itself and every holder can leave.                  *)
(***************************************************************************)
EXTENDS PredictionMarket, SumTheorems

(* The theorems of the lifecycle, about this market. *)
LP == INSTANCE MarketLifecycleProofs WITH
    state <- state, collateral <- Collateral,
    yesSupply <- Supply("YES"), noSupply <- Supply("NO")

-----------------------------------------------------------------------------
(* The live outputs. *)

Terminal == {"ResolvedYes", "ResolvedNo", "Expired"}

TerminalSlot(st) ==
    CASE st = "ResolvedYes" -> "ResolvedYesCollateral"
      [] st = "ResolvedNo"  -> "ResolvedNoCollateral"
      [] st = "Expired"     -> "ExpiredCollateral"

(* Outpoints of the first top transactions, at the positions markets use. *)
Ids(top) == (0..top) \X (0..2)

Rt(id, script, asset) ==
    [id |-> id, script |-> script, asset |-> asset, amount |-> 1, conf |-> TRUE]

Coll(id, script, amount) ==
    [id |-> id, script |-> script, asset |-> "COLLATERAL", amount |-> amount,
     conf |-> FALSE]

CollSet(id, script, amount) == {Coll(id, script, amount)}

DormantSet(y, n) ==
    {Rt(y, "DormantYesRt", "YES_RT"), Rt(n, "DormantNoRt", "NO_RT")}

UnresolvedSet(y, n, k, v) ==
    {Rt(y, "UnresolvedYesRt", "YES_RT"), Rt(n, "UnresolvedNoRt", "NO_RT"),
     Coll(k, "UnresolvedCollateral", v)}

(* us are live outputs of a market in state st. *)
Shape(us, st, top) ==
    \/ /\ st = "Dormant"
       /\ \E y, n \in Ids(top) : y # n /\ us = DormantSet(y, n)
    \/ /\ st = "Unresolved"
       /\ \E y, n, k \in Ids(top), v \in 1..U64Max :
             /\ y # n /\ y # k /\ n # k
             /\ us = UnresolvedSet(y, n, k, v)
    \/ /\ st \in Terminal
       /\ us = {}
    \/ /\ st \in Terminal
       /\ \E k \in Ids(top), v \in 1..U64Max : us = CollSet(k, TerminalSlot(st), v)

-----------------------------------------------------------------------------
(* What a transaction in hand would do.  Each of these says which covenant *)
(* outputs it spends and creates and what it moves in and out of wallets,  *)
(* for a request of n pairs or tokens.                                     *)

MarketOuts(tx) == {k \in DOMAIN tx.outs : tx.outs[k].script \in MarketSlot}

SpendsSlots(tx, slots) ==
    /\ CovenantInputs(tx) = DOMAIN slots
    /\ \A k \in DOMAIN slots : tx.ins[k].script = slots[k]

RtOut(script, asset) ==
    [script |-> script, asset |-> asset, amount |-> 1, conf |-> TRUE]

CollOut(script, amount) ==
    [script |-> script, asset |-> "COLLATERAL", amount |-> amount, conf |-> FALSE]

(* The outputs at the market's scripts are these, at the head of tx. *)
Creates(tx, outs) ==
    /\ MarketOuts(tx) = {k \in DOMAIN outs : outs[k].script \in MarketSlot}
    /\ \A k \in MarketOuts(tx) : tx.outs[k] = outs[k]

UnresolvedOuts(v) ==
    << RtOut("UnresolvedYesRt", "YES_RT"), RtOut("UnresolvedNoRt", "NO_RT"),
       CollOut("UnresolvedCollateral", v) >>

(* A burn: an output that is not the market's. *)
NoOut == [script |-> "Burn"]

ConcludedOuts(slot, v) == << NoOut, NoOut, CollOut(slot, v) >>

Moves(tx, yesIn, noIn, yesOut, noOut) ==
    /\ WalletAmount(tx.ins, "YES") = yesIn /\ WalletAmount(tx.ins, "NO") = noIn
    /\ WalletAmount(tx.outs, "YES") = yesOut /\ WalletAmount(tx.outs, "NO") = noOut

InitialIssue(tx, n) ==
    /\ SpendsSlots(tx, <<"DormantYesRt", "DormantNoRt">>)
    /\ Creates(tx, UnresolvedOuts(required_collateral(n)))
    /\ Fits(required_collateral(n))
    /\ Moves(tx, 0, 0, n, n)

SubsequentIssue(tx, n) ==
    /\ SpendsSlots(tx, <<"UnresolvedYesRt", "UnresolvedNoRt", "UnresolvedCollateral">>)
    /\ Creates(tx, UnresolvedOuts(tx.ins[3].amount + required_collateral(n)))
    /\ Fits(tx.ins[3].amount + required_collateral(n))
    /\ Moves(tx, 0, 0, n, n)

PartialCancel(tx, n) ==
    /\ SpendsSlots(tx, <<"UnresolvedCollateral">>)
    /\ tx.ins[1].amount > required_collateral(n)
    /\ Creates(tx, <<CollOut("UnresolvedCollateral",
                             tx.ins[1].amount - required_collateral(n))>>)
    /\ \E yes, no \in Nat : yes >= n /\ no >= n /\ Moves(tx, yes, no, yes - n, no - n)

FullCancel(tx, n) ==
    /\ SpendsSlots(tx, <<"UnresolvedCollateral", "UnresolvedYesRt", "UnresolvedNoRt">>)
    /\ tx.ins[1].amount = required_collateral(n)
    /\ Creates(tx, <<RtOut("DormantYesRt", "YES_RT"), RtOut("DormantNoRt", "NO_RT")>>)
    /\ \E yes, no \in Nat : yes >= n /\ no >= n /\ Moves(tx, yes, no, 0, 0)

(* A resolution needs a signature among sgn, an expiry its lock time. *)
Conclude(tx, st, sgn) ==
    /\ st = "ResolvedYes" => TRUE \in sgn
    /\ st = "ResolvedNo" => FALSE \in sgn
    /\ st = "Expired" => tx.lock = ExpiryTime
    /\ SpendsSlots(tx, <<"UnresolvedYesRt", "UnresolvedNoRt", "UnresolvedCollateral">>)
    /\ Creates(tx, ConcludedOuts(TerminalSlot(st), tx.ins[3].amount))
    /\ Moves(tx, 0, 0, 0, 0)

Redeems(tx, st, n, payout) ==
    /\ SpendsSlots(tx, <<TerminalSlot(st)>>)
    /\ payout <= tx.ins[1].amount
    /\ Creates(tx, IF tx.ins[1].amount - payout > 0
                   THEN <<CollOut(TerminalSlot(st), tx.ins[1].amount - payout)>>
                   ELSE <<NoOut>>)
    /\ \E total \in Nat :
          /\ total >= n
          /\ \/ st # "ResolvedNo" /\ Moves(tx, total, 0, total - n, 0)
             \/ st # "ResolvedYes" /\ Moves(tx, 0, total, 0, total - n)

Redeem(tx, st, n) ==
    Redeems(tx, st, n, IF st = "Expired" THEN n * CollateralPerToken
                                         ELSE required_collateral(n))

(* The amounts of its outputs, which the network wants to be positive. *)
OutAmounts(tx) == {tx.outs[k].amount : k \in DOMAIN tx.outs}

EffectOK(tx, sgn) ==
    \/ \E n \in OutAmounts(tx) \cap Nat : \/ InitialIssue(tx, n)
                                          \/ SubsequentIssue(tx, n)
                                          \/ PartialCancel(tx, n)
                                          \/ FullCancel(tx, n)
                                          \/ \E st \in Terminal : Redeem(tx, st, n)
    \/ \E st \in Terminal : Conclude(tx, st, sgn)

(* The output an input spends.  Inputs refer to outputs of transactions on *)
(* the chain, and to a live output as it is.                               *)
Prevout(i) == [id |-> i.id, script |-> i.script, asset |-> i.asset,
               amount |-> i.amount, conf |-> i.conf]

InputsOK(tx, us, top) ==
    \A k \in CovenantInputs(tx) :
        /\ tx.ins[k].id \in Ids(top)
        /\ \A u \in us : u.id = tx.ins[k].id => u = Prevout(tx.ins[k])

(* A transaction in hand spends tokens its wallet still has. *)
RequestOK(tx, h, us, top, sgn) ==
    /\ DOMAIN tx.outs \subseteq Nat
    /\ InputsOK(tx, us, top)
    /\ EffectOK(tx, sgn)
    /\ \A a \in Tokens : WalletAmount(tx.ins, a) \in 0..h[a]

-----------------------------------------------------------------------------
RequestsOK ==
    \A c \in Clients :
        /\ request[c].stage \in {"idle", "broadcast", "finalized"}
        /\ request[c].stage = "broadcast" =>
              RequestOK(request[c].tx, holdings[c], utxos, txs, signed)

Justified(st, sgn, h) ==
    /\ st = "ResolvedYes" => TRUE \in sgn
    /\ st = "ResolvedNo" => FALSE \in sgn
    /\ st = "Expired" => h >= ExpiryTime

Inv ==
    /\ severed \in BOOLEAN
    /\ txs \in 0..MaxTxs
    /\ height \in 0..MaxHeight
    /\ signed \subseteq BOOLEAN
    /\ holdings \in [Clients -> [Tokens -> Nat]]
    /\ DOMAIN request = Clients
    /\ Shape(utxos, state, txs)
    /\ Justified(state, signed, height)
    /\ RequestsOK
    /\ LP!Inv
    /\ Supply("YES") <= U64Max /\ Supply("NO") <= U64Max

-----------------------------------------------------------------------------
(* Collateral and supplies as functions of the outputs and balances. *)

CollateralOf(us) ==
    LET u == CHOOSE w \in us : w.asset = "COLLATERAL"
    IN  IF \E w \in us : w.asset = "COLLATERAL" THEN u.amount ELSE 0

SupplyOf(h, asset) == SumFunctionOnSet([c \in Clients |-> h[c][asset]], Clients)

(* A market without collateral has none, and otherwise what its one        *)
(* collateral output holds.                                                *)
LEMMA CollateralCases ==
    /\ \A y, n : CollateralOf(DormantSet(y, n)) = 0
    /\ \A y, n, k, v : CollateralOf(UnresolvedSet(y, n, k, v)) = v
    /\ CollateralOf({}) = 0
    /\ \A k, s, v : CollateralOf(CollSet(k, s, v)) = v
<1>1. \A y, n : CollateralOf(DormantSet(y, n)) = 0
    BY DEF CollateralOf, DormantSet, Rt
<1>2. ASSUME NEW y, NEW n, NEW k, NEW v
      PROVE  CollateralOf(UnresolvedSet(y, n, k, v)) = v
    <2> DEFINE us == UnresolvedSet(y, n, k, v)
               w == Coll(k, "UnresolvedCollateral", v)
    <2>1. w \in us /\ w.asset = "COLLATERAL" /\ w.amount = v
        BY DEF UnresolvedSet, Coll
    <2>2. \A u \in us : u.asset = "COLLATERAL" => u = w
        BY DEF UnresolvedSet, Coll, Rt
    <2> HIDE DEF us, w
    <2>3. (CHOOSE u \in us : u.asset = "COLLATERAL") = w
        BY <2>1, <2>2
    <2> QED BY <2>1, <2>3 DEF CollateralOf, us
<1>3. CollateralOf({}) = 0
    BY DEF CollateralOf
<1>4. ASSUME NEW k, NEW s, NEW v PROVE CollateralOf(CollSet(k, s, v)) = v
    <2> DEFINE w == Coll(k, s, v)
    <2>1. w.asset = "COLLATERAL" /\ w.amount = v
        BY DEF Coll
    <2> HIDE DEF w
    <2>2. (CHOOSE u \in {w} : u.asset = "COLLATERAL") = w
        BY <2>1
    <2> QED BY <2>1, <2>2 DEF CollSet, CollateralOf, w
<1> QED
    BY <1>1, <1>2, <1>3, <1>4

(* Every output of a canonical set has an outpoint. *)
LEMMA ShapeIds ==
    ASSUME NEW us, NEW st, NEW top, Shape(us, st, top)
    PROVE  /\ \A u \in us : u.id \in Ids(top)
           /\ \A u, w \in us : u.id = w.id => u = w
<1>1. CASE \E y, n \in Ids(top) : y # n /\ us = DormantSet(y, n)
    BY <1>1 DEF DormantSet, Rt
<1>2. CASE \E y, n, k \in Ids(top), v \in 1..U64Max :
             /\ y # n /\ y # k /\ n # k
             /\ us = UnresolvedSet(y, n, k, v)
    BY <1>2 DEF UnresolvedSet, Rt, Coll
<1>3. CASE us = {}
    BY <1>3
<1>4. CASE \E k \in Ids(top), v \in 1..U64Max : us = CollSet(k, TerminalSlot(st), v)
    BY <1>4 DEF Coll, CollSet
<1> QED
    BY <1>1, <1>2, <1>3, <1>4 DEF Shape

(* The collateral the lifecycle sees is that of the live outputs. *)
LEMMA CollateralIs ==
    ASSUME Shape(utxos, state, txs)
    PROVE  Collateral = CollateralOf(utxos)
<1>1. \A u \in utxos : u # NoUtxo
    <2> SUFFICES ASSUME NEW u \in utxos, u = NoUtxo PROVE FALSE
        OBVIOUS
    <2>1. u.id = <<>> /\ u.id \in Ids(txs)
        BY ShapeIds DEF NoUtxo
    <2> QED BY <2>1 DEF Ids
<1> QED
    BY <1>1 DEF Collateral, CollateralOf, UtxoOf

(* The supplies are those of the balances. *)
LEMMA SupplyIs == \A asset : Supply(asset) = SupplyOf(holdings, asset)
BY DEF Supply, SupplyOf, SumFunction

(* The state a scan derives from each canonical set. *)
LEMMA DeriveCases ==
    /\ \A y, n : derive_state_from_live_slots({u.script : u \in DormantSet(y, n)}) = "Dormant"
    /\ \A y, n, k, v :
          derive_state_from_live_slots({u.script : u \in UnresolvedSet(y, n, k, v)}) = "Unresolved"
    /\ \A k, v : \A st \in Terminal :
          derive_state_from_live_slots({u.script : u \in CollSet(k, TerminalSlot(st), v)}) = st
<1>1. ASSUME NEW y, NEW n
      PROVE  derive_state_from_live_slots({u.script : u \in DormantSet(y, n)}) = "Dormant"
    <2>1. {u.script : u \in DormantSet(y, n)} = {"DormantYesRt", "DormantNoRt"}
        BY DEF DormantSet, Rt
    <2> QED BY <2>1 DEF derive_state_from_live_slots
<1>2. ASSUME NEW y, NEW n, NEW k, NEW v
      PROVE  derive_state_from_live_slots({u.script : u \in UnresolvedSet(y, n, k, v)}) = "Unresolved"
    <2>1. {u.script : u \in UnresolvedSet(y, n, k, v)} =
             {"UnresolvedYesRt", "UnresolvedNoRt", "UnresolvedCollateral"}
        BY DEF UnresolvedSet, Rt, Coll
    <2> QED BY <2>1 DEF derive_state_from_live_slots
<1>3. ASSUME NEW k, NEW v, NEW st \in Terminal
      PROVE  derive_state_from_live_slots({u.script : u \in CollSet(k, TerminalSlot(st), v)}) = st
    <2>1. {u.script : u \in CollSet(k, TerminalSlot(st), v)} = {TerminalSlot(st)}
        BY DEF Coll, CollSet
    <2> QED BY <2>1 DEF derive_state_from_live_slots, TerminalSlot, Terminal
<1> QED
    BY <1>1, <1>2, <1>3

(* One client's balances change: the supplies change with them. *)
LEMMA SupplyMoves ==
    ASSUME NEW h \in [Clients -> [Tokens -> Nat]], NEW c \in Clients,
           NEW asset \in Tokens, NEW h2 \in [Clients -> [Tokens -> Nat]],
           \A d \in Clients \ {c} : h2[d] = h[d]
    PROVE  SupplyOf(h2, asset) = SupplyOf(h, asset) + (h2[c][asset] - h[c][asset])
<1> DEFINE f == [d \in Clients |-> h[d][asset]]
           g == [d \in Clients |-> h2[d][asset]]
<1>2. \A d \in Clients : f[d] \in Int /\ g[d] \in Int
    OBVIOUS
<1>3. \A d \in Clients \ {c} : g[d] = f[d]
    OBVIOUS
<1>4. f[c] = h[c][asset] /\ g[c] = h2[c][asset]
    OBVIOUS
<1>5. IsFiniteSet(Clients)
    BY MarketAssumption
<1>6. SumFunctionOnSet(g, Clients) = SumFunctionOnSet(f, Clients) + (g[c] - f[c])
    <2> HIDE DEF f, g
    <2> QED BY <1>2, <1>3, <1>5, SumChange
<1>7. SupplyOf(h2, asset) = SumFunctionOnSet(g, Clients)
      /\ SupplyOf(h, asset) = SumFunctionOnSet(f, Clients)
    BY DEF SupplyOf
<1> HIDE DEF f, g
<1> QED
    BY <1>4, <1>6, <1>7

(* Nobody holds more than the supply. *)
LEMMA HoldsNoMore ==
    ASSUME NEW h \in [Clients -> [Tokens -> Nat]], NEW asset \in Tokens
    PROVE  /\ SupplyOf(h, asset) \in Nat
           /\ \A c \in Clients : h[c][asset] <= SupplyOf(h, asset)
<1> DEFINE f == [d \in Clients |-> h[d][asset]]
<1>1. IsFiniteSet(Clients)
    BY MarketAssumption
<1>2. \A d \in Clients : f[d] \in Nat /\ f[d] \in Int /\ f[d] = h[d][asset]
    OBVIOUS
<1>3. SupplyOf(h, asset) = SumFunctionOnSet(f, Clients)
    BY DEF SupplyOf
<1> HIDE DEF f
<1>4. SumFunctionOnSet(f, Clients) \in Nat
    BY <1>1, <1>2, SumType
<1>5. \A c \in Clients : f[c] <= SumFunctionOnSet(f, Clients)
    BY <1>1, <1>2, SumBounds
<1> QED
    BY <1>2, <1>3, <1>4, <1>5

-----------------------------------------------------------------------------
(* What a transaction that lands leaves of the live outputs. *)

OutAt(tx, k, id) ==
    [id |-> id, script |-> tx.outs[k].script, asset |-> tx.outs[k].asset,
     amount |-> tx.outs[k].amount, conf |-> tx.outs[k].conf]

Kept(tx, us) == {u \in us : u.id \notin {tx.ins[k].id : k \in CovenantInputs(tx)}}

Created(tx, top) == {OutAt(tx, k, <<top + 1, k - 1>>) : k \in MarketOuts(tx)}

After(tx, us, top) == Kept(tx, us) \cup Created(tx, top)

Unspents(tx, us) == \A k \in CovenantInputs(tx) : \E u \in us : u.id = tx.ins[k].id

(* What it spends is live, as it was when the request looked. *)
LEMMA SpentLive ==
    ASSUME NEW tx, NEW us, NEW top, NEW slots,
           InputsOK(tx, us, top), Unspents(tx, us), SpendsSlots(tx, slots)
    PROVE  \A k \in DOMAIN slots :
              \E u \in us : u.id = tx.ins[k].id /\ u.script = slots[k]
                            /\ u.amount = tx.ins[k].amount
<1> SUFFICES ASSUME NEW k \in DOMAIN slots
             PROVE  \E u \in us : u.id = tx.ins[k].id /\ u.script = slots[k]
                                  /\ u.amount = tx.ins[k].amount
    OBVIOUS
<1>1. k \in CovenantInputs(tx) /\ tx.ins[k].script = slots[k]
    BY DEF SpendsSlots
<1>2. PICK u \in us : u.id = tx.ins[k].id
    BY <1>1 DEF Unspents
<1>3. u = Prevout(tx.ins[k])
    BY <1>1, <1>2 DEF InputsOK
<1>4. u.script = slots[k] /\ u.amount = tx.ins[k].amount
    BY <1>1, <1>3 DEF Prevout
<1> QED
    BY <1>2, <1>4

(* The slots a canonical set has tell its state. *)
LEMMA SlotTells ==
    ASSUME NEW us, NEW st, NEW top, Shape(us, st, top), NEW u \in us
    PROVE  /\ u.script \in {"DormantYesRt", "DormantNoRt"} =>
                 \E y, n \in Ids(top) : /\ st = "Dormant" /\ y # n /\ us = DormantSet(y, n)
           /\ u.script \in {"UnresolvedYesRt", "UnresolvedNoRt", "UnresolvedCollateral"} =>
                 \E y, n, k \in Ids(top), v \in 1..U64Max :
                    /\ st = "Unresolved" /\ y # n /\ y # k /\ n # k
                    /\ us = UnresolvedSet(y, n, k, v)
           /\ \A t \in Terminal : u.script = TerminalSlot(t) =>
                 \E k \in Ids(top), v \in 1..U64Max :
                    st = t /\ us = CollSet(k, TerminalSlot(t), v)
<1>1. CASE st = "Dormant"
    <2>1. PICK y, n \in Ids(top) : y # n /\ us = DormantSet(y, n)
        BY <1>1 DEF Shape, Terminal
    <2>2. u.script \in {"DormantYesRt", "DormantNoRt"}
        BY <2>1 DEF DormantSet, Rt
    <2> QED
        BY <1>1, <2>1, <2>2 DEF Terminal, TerminalSlot
<1>2. CASE st = "Unresolved"
    <2>1. PICK y, n, k \in Ids(top), v \in 1..U64Max :
              /\ y # n /\ y # k /\ n # k
              /\ us = UnresolvedSet(y, n, k, v)
        BY <1>2 DEF Shape, Terminal
    <2>2. u.script \in {"UnresolvedYesRt", "UnresolvedNoRt", "UnresolvedCollateral"}
        BY <2>1 DEF UnresolvedSet, Rt, Coll
    <2> QED
        BY <1>2, <2>1, <2>2 DEF Terminal, TerminalSlot
<1>3. CASE st \in Terminal
    <2>1. PICK k \in Ids(top), v \in 1..U64Max : us = CollSet(k, TerminalSlot(st), v)
        BY <1>3 DEF Shape, Terminal
    <2>2. u.script = TerminalSlot(st)
        BY <2>1 DEF Coll, CollSet
    <2>3. \A t \in Terminal : TerminalSlot(t) = TerminalSlot(st) => t = st
        BY <1>3 DEF Terminal, TerminalSlot
    <2>4. TerminalSlot(st) \notin {"DormantYesRt", "DormantNoRt", "UnresolvedYesRt",
                                   "UnresolvedNoRt", "UnresolvedCollateral"}
        BY <1>3 DEF Terminal, TerminalSlot
    <2> QED
        BY <2>1, <2>2, <2>3, <2>4
<1> QED
    BY <1>1, <1>2, <1>3 DEF Shape

(* An issuance recreates the tokens and the collateral. *)
LEMMA CreatedUnresolved ==
    ASSUME NEW tx, NEW v, Creates(tx, UnresolvedOuts(v)), NEW top
    PROVE  Created(tx, top) =
              UnresolvedSet(<<top + 1, 0>>, <<top + 1, 1>>, <<top + 1, 2>>, v)
<1> DEFINE outs == UnresolvedOuts(v)
<1>1. /\ DOMAIN outs = {1, 2, 3}
      /\ outs[1] = RtOut("UnresolvedYesRt", "YES_RT")
      /\ outs[2] = RtOut("UnresolvedNoRt", "NO_RT")
      /\ outs[3] = CollOut("UnresolvedCollateral", v)
    BY DEF UnresolvedOuts
<1> HIDE DEF outs
<1>2. MarketOuts(tx) = {1, 2, 3}
    BY <1>1 DEF Creates, outs, RtOut, CollOut, MarketSlot
<1>3. tx.outs[1] = outs[1] /\ tx.outs[2] = outs[2] /\ tx.outs[3] = outs[3]
    BY <1>2 DEF Creates, outs
<1>4. /\ OutAt(tx, 1, <<top + 1, 1 - 1>>) = Rt(<<top + 1, 0>>, "UnresolvedYesRt", "YES_RT")
      /\ OutAt(tx, 2, <<top + 1, 2 - 1>>) = Rt(<<top + 1, 1>>, "UnresolvedNoRt", "NO_RT")
      /\ OutAt(tx, 3, <<top + 1, 3 - 1>>) = Coll(<<top + 1, 2>>, "UnresolvedCollateral", v)
    BY <1>1, <1>3 DEF OutAt, Rt, Coll, RtOut, CollOut
<1>5. {OutAt(tx, k, <<top + 1, k - 1>>) : k \in {1, 2, 3}} =
         {OutAt(tx, 1, <<top + 1, 1 - 1>>), OutAt(tx, 2, <<top + 1, 2 - 1>>),
          OutAt(tx, 3, <<top + 1, 3 - 1>>)}
    OBVIOUS
<1> QED
    BY <1>2, <1>4, <1>5, Zenon DEF Created, UnresolvedSet

(* A full cancellation puts the reissuance tokens back to rest. *)
LEMMA CreatedDormant ==
    ASSUME NEW tx, NEW top,
           Creates(tx, <<RtOut("DormantYesRt", "YES_RT"), RtOut("DormantNoRt", "NO_RT")>>)
    PROVE  Created(tx, top) =
              DormantSet(<<top + 1, 0>>, <<top + 1, 1>>)
<1> DEFINE outs == <<RtOut("DormantYesRt", "YES_RT"), RtOut("DormantNoRt", "NO_RT")>>
<1>1. /\ DOMAIN outs = {1, 2}
      /\ outs[1] = RtOut("DormantYesRt", "YES_RT")
      /\ outs[2] = RtOut("DormantNoRt", "NO_RT")
    OBVIOUS
<1>2. Creates(tx, outs)
    OBVIOUS
<1> HIDE DEF outs
<1>3. MarketOuts(tx) = {1, 2}
    BY <1>1, <1>2 DEF Creates, RtOut, MarketSlot
<1>4. tx.outs[1] = outs[1] /\ tx.outs[2] = outs[2]
    BY <1>2, <1>3 DEF Creates
<1>5. /\ OutAt(tx, 1, <<top + 1, 1 - 1>>) = Rt(<<top + 1, 0>>, "DormantYesRt", "YES_RT")
      /\ OutAt(tx, 2, <<top + 1, 2 - 1>>) = Rt(<<top + 1, 1>>, "DormantNoRt", "NO_RT")
    BY <1>1, <1>4 DEF OutAt, Rt, RtOut
<1>6. {OutAt(tx, k, <<top + 1, k - 1>>) : k \in {1, 2}} =
         {OutAt(tx, 1, <<top + 1, 1 - 1>>), OutAt(tx, 2, <<top + 1, 2 - 1>>)}
    OBVIOUS
<1> QED
    BY <1>3, <1>5, <1>6, Zenon DEF Created, DormantSet

(* Collateral alone, collateral after two burns, or nothing. *)
LEMMA CreatedCollateral ==
    ASSUME NEW tx, NEW top, NEW slot \in MarketSlot, NEW v,
           Creates(tx, <<CollOut(slot, v)>>)
    PROVE  Created(tx, top) = CollSet(<<top + 1, 0>>, slot, v)
<1> DEFINE outs == <<CollOut(slot, v)>>
<1>1. DOMAIN outs = {1} /\ outs[1] = CollOut(slot, v) /\ Creates(tx, outs)
    OBVIOUS
<1>2. CollOut(slot, v).script = slot
    BY DEF CollOut
<1> HIDE DEF outs
<1>3. MarketOuts(tx) = {1} /\ tx.outs[1] = CollOut(slot, v)
    BY <1>1, <1>2 DEF Creates
<1>4. OutAt(tx, 1, <<top + 1, 1 - 1>>) = Coll(<<top + 1, 0>>, slot, v)
    BY <1>3 DEF OutAt, Coll, CollOut
<1> QED BY <1>3, <1>4 DEF Created, CollSet

(* A conclusion burns both reissuance tokens and pays the collateral third. *)
LEMMA CreatedConcluded ==
    ASSUME NEW tx, NEW top, NEW slot \in MarketSlot, NEW v,
           Creates(tx, ConcludedOuts(slot, v))
    PROVE  Created(tx, top) = CollSet(<<top + 1, 2>>, slot, v)
<1> DEFINE outs == ConcludedOuts(slot, v)
<1>1. /\ DOMAIN outs = {1, 2, 3} /\ outs[1] = NoOut /\ outs[2] = NoOut
      /\ outs[3] = CollOut(slot, v) /\ Creates(tx, outs)
    BY DEF ConcludedOuts
<1>2. CollOut(slot, v).script = slot /\ NoOut.script \notin MarketSlot
    BY DEF CollOut, NoOut, MarketSlot
<1> HIDE DEF outs
<1>3. MarketOuts(tx) = {3} /\ tx.outs[3] = CollOut(slot, v)
    BY <1>1, <1>2 DEF Creates
<1>4. OutAt(tx, 3, <<top + 1, 3 - 1>>) = Coll(<<top + 1, 2>>, slot, v)
    BY <1>3 DEF OutAt, Coll, CollOut
<1> QED BY <1>3, <1>4 DEF Created, CollSet

(* A transaction that leaves nothing at the market's scripts. *)
LEMMA CreatedNothing ==
    ASSUME NEW tx, Creates(tx, <<NoOut>>)
    PROVE  MarketOuts(tx) = {}
BY DEF Creates, NoOut, MarketSlot

(* A first issuance finds the market dormant and leaves it unresolved. *)
LEMMA AfterInitialIssue ==
    ASSUME NEW tx, NEW us, NEW st, NEW top, Shape(us, st, top),
           InputsOK(tx, us, top), Unspents(tx, us), NEW n, InitialIssue(tx, n)
    PROVE  /\ st = "Dormant" /\ CollateralOf(us) = 0
           /\ After(tx, us, top) = UnresolvedSet(<<top + 1, 0>>, <<top + 1, 1>>,
                                                <<top + 1, 2>>, required_collateral(n))
<1> DEFINE slots == <<"DormantYesRt", "DormantNoRt">>
<1>0. DOMAIN slots = {1, 2} /\ slots[1] = "DormantYesRt" /\ slots[2] = "DormantNoRt"
    OBVIOUS
<1>1. SpendsSlots(tx, slots)
    BY DEF InitialIssue
<1> HIDE DEF slots
<1>2. /\ \E u \in us : u.id = tx.ins[1].id /\ u.script = "DormantYesRt"
      /\ \E u \in us : u.id = tx.ins[2].id /\ u.script = "DormantNoRt"
    BY <1>0, <1>1, SpentLive
<1>3. PICK y, m \in Ids(top) : st = "Dormant" /\ y # m /\ us = DormantSet(y, m)
    BY <1>2, SlotTells
<1>4. tx.ins[1].id = y /\ tx.ins[2].id = m
    BY <1>2, <1>3 DEF DormantSet, Rt
<1>5. CovenantInputs(tx) = {1, 2}
    BY <1>0, <1>1 DEF SpendsSlots
<1>6. Kept(tx, us) = {}
    BY <1>3, <1>4, <1>5 DEF Kept, DormantSet, Rt
<1>7. Created(tx, top) =
         UnresolvedSet(<<top + 1, 0>>, <<top + 1, 1>>, <<top + 1, 2>>, required_collateral(n))
    BY CreatedUnresolved DEF InitialIssue
<1> QED
    BY <1>3, <1>6, <1>7, CollateralCases, Zenon DEF After

(* What a transaction spends that takes the whole unresolved bundle. *)
LEMMA SpendsUnresolved ==
    ASSUME NEW tx, NEW us, NEW st, NEW top, Shape(us, st, top),
           InputsOK(tx, us, top), Unspents(tx, us),
           \/ SpendsSlots(tx, <<"UnresolvedYesRt", "UnresolvedNoRt", "UnresolvedCollateral">>)
           \/ SpendsSlots(tx, <<"UnresolvedCollateral", "UnresolvedYesRt", "UnresolvedNoRt">>)
    PROVE  /\ st = "Unresolved"
           /\ Kept(tx, us) = {}
           /\ CollateralOf(us) \in 1..U64Max
           /\ SpendsSlots(tx, <<"UnresolvedYesRt", "UnresolvedNoRt", "UnresolvedCollateral">>)
                 => CollateralOf(us) = tx.ins[3].amount
           /\ SpendsSlots(tx, <<"UnresolvedCollateral", "UnresolvedYesRt", "UnresolvedNoRt">>)
                 => CollateralOf(us) = tx.ins[1].amount
<1>1. ASSUME NEW slots, NEW a, NEW b, NEW e, SpendsSlots(tx, slots),
             DOMAIN slots = {1, 2, 3}, {a, b, e} = {1, 2, 3},
             slots[a] = "UnresolvedYesRt", slots[b] = "UnresolvedNoRt",
             slots[e] = "UnresolvedCollateral"
      PROVE  /\ st = "Unresolved"
             /\ Kept(tx, us) = {}
             /\ CollateralOf(us) \in 1..U64Max
             /\ CollateralOf(us) = tx.ins[e].amount
    <2>1. /\ \E u \in us : u.id = tx.ins[a].id /\ u.script = "UnresolvedYesRt"
          /\ \E u \in us : u.id = tx.ins[b].id /\ u.script = "UnresolvedNoRt"
          /\ \E u \in us : /\ u.id = tx.ins[e].id /\ u.script = "UnresolvedCollateral"
                           /\ u.amount = tx.ins[e].amount
        <3>1. \A j \in DOMAIN slots : \E u \in us : /\ u.id = tx.ins[j].id /\ u.script = slots[j]
                                                   /\ u.amount = tx.ins[j].amount
            BY <1>1, SpentLive
        <3>2. a \in DOMAIN slots /\ b \in DOMAIN slots /\ e \in DOMAIN slots
            BY <1>1
        <3> QED BY <1>1, <3>1, <3>2
    <2>2. PICK y, n, k \in Ids(top), v \in 1..U64Max :
             /\ st = "Unresolved" /\ y # n /\ y # k /\ n # k
             /\ us = UnresolvedSet(y, n, k, v)
        BY <2>1, SlotTells
    <2>3. tx.ins[a].id = y /\ tx.ins[b].id = n /\ tx.ins[e].id = k /\ tx.ins[e].amount = v
        BY <2>1, <2>2 DEF UnresolvedSet, Rt, Coll
    <2>4. CovenantInputs(tx) = {a, b, e}
        BY <1>1 DEF SpendsSlots
    <2>5. Kept(tx, us) = {}
        BY <2>2, <2>3, <2>4 DEF Kept, UnresolvedSet, Rt, Coll
    <2> QED
        BY <2>2, <2>3, <2>5, CollateralCases
<1>2. CASE SpendsSlots(tx, <<"UnresolvedYesRt", "UnresolvedNoRt", "UnresolvedCollateral">>)
    <2> DEFINE slots == <<"UnresolvedYesRt", "UnresolvedNoRt", "UnresolvedCollateral">>
    <2>1. /\ DOMAIN slots = {1, 2, 3} /\ slots[1] = "UnresolvedYesRt"
          /\ slots[2] = "UnresolvedNoRt" /\ slots[3] = "UnresolvedCollateral"
          /\ SpendsSlots(tx, slots)
        BY <1>2
    <2>2. ~ SpendsSlots(tx, <<"UnresolvedCollateral", "UnresolvedYesRt", "UnresolvedNoRt">>)
        BY <1>2 DEF SpendsSlots
    <2> HIDE DEF slots
    <2>3. /\ st = "Unresolved"
          /\ Kept(tx, us) = {}
          /\ CollateralOf(us) \in 1..U64Max
          /\ CollateralOf(us) = tx.ins[3].amount
        BY <1>1, <2>1
    <2> QED
        BY <2>2, <2>3
<1>3. CASE SpendsSlots(tx, <<"UnresolvedCollateral", "UnresolvedYesRt", "UnresolvedNoRt">>)
    <2> DEFINE slots == <<"UnresolvedCollateral", "UnresolvedYesRt", "UnresolvedNoRt">>
    <2>1. /\ DOMAIN slots = {1, 2, 3} /\ slots[1] = "UnresolvedCollateral"
          /\ slots[2] = "UnresolvedYesRt" /\ slots[3] = "UnresolvedNoRt"
          /\ SpendsSlots(tx, slots)
        BY <1>3
    <2>2. ~ SpendsSlots(tx, <<"UnresolvedYesRt", "UnresolvedNoRt", "UnresolvedCollateral">>)
        BY <1>3 DEF SpendsSlots
    <2> HIDE DEF slots
    <2>3. {2, 3, 1} = {1, 2, 3}
        OBVIOUS
    <2>4. /\ st = "Unresolved"
          /\ Kept(tx, us) = {}
          /\ CollateralOf(us) \in 1..U64Max
          /\ CollateralOf(us) = tx.ins[1].amount
        BY <1>1, <2>1, <2>3
    <2> QED
        BY <2>2, <2>4
<1> QED
    BY <1>2, <1>3

(* What a transaction spends that takes the collateral alone. *)
LEMMA SpendsCollateral ==
    ASSUME NEW tx, NEW us, NEW st, NEW top, Shape(us, st, top),
           InputsOK(tx, us, top), Unspents(tx, us)
    PROVE  /\ SpendsSlots(tx, <<"UnresolvedCollateral">>) =>
                 /\ st = "Unresolved"
                 /\ CollateralOf(us) \in 1..U64Max
                 /\ CollateralOf(us) = tx.ins[1].amount
                 /\ \E y, n \in Ids(top) :
                      /\ y # n
                      /\ Kept(tx, us) =
                            {Rt(y, "UnresolvedYesRt", "YES_RT"), Rt(n, "UnresolvedNoRt", "NO_RT")}
           /\ \A t \in Terminal : SpendsSlots(tx, <<TerminalSlot(t)>>) =>
                 /\ st = t
                 /\ CollateralOf(us) \in 1..U64Max
                 /\ CollateralOf(us) = tx.ins[1].amount
                 /\ Kept(tx, us) = {}
<1>0. ASSUME NEW slot, SpendsSlots(tx, <<slot>>)
      PROVE  /\ \E u \in us : u.id = tx.ins[1].id /\ u.script = slot /\ u.amount = tx.ins[1].amount
             /\ CovenantInputs(tx) = {1}
    <2> DEFINE slots == <<slot>>
    <2>1. DOMAIN slots = {1} /\ slots[1] = slot /\ SpendsSlots(tx, slots)
        BY <1>0
    <2> HIDE DEF slots
    <2>2. \E u \in us : u.id = tx.ins[1].id /\ u.script = slot /\ u.amount = tx.ins[1].amount
        BY <2>1, SpentLive
    <2>3. CovenantInputs(tx) = DOMAIN slots
        BY <2>1 DEF SpendsSlots
    <2> QED BY <2>1, <2>2, <2>3
<1>1. ASSUME SpendsSlots(tx, <<"UnresolvedCollateral">>)
      PROVE  /\ st = "Unresolved"
             /\ CollateralOf(us) \in 1..U64Max
             /\ CollateralOf(us) = tx.ins[1].amount
             /\ \E y, n \in Ids(top) :
                  /\ y # n
                  /\ Kept(tx, us) =
                        {Rt(y, "UnresolvedYesRt", "YES_RT"), Rt(n, "UnresolvedNoRt", "NO_RT")}
    <2>1. PICK u \in us : /\ u.id = tx.ins[1].id /\ u.script = "UnresolvedCollateral"
                          /\ u.amount = tx.ins[1].amount
        BY <1>0, <1>1
    <2>2. CovenantInputs(tx) = {1}
        BY <1>0, <1>1
    <2>3. PICK y, n, k \in Ids(top), v \in 1..U64Max :
             /\ st = "Unresolved" /\ y # n /\ y # k /\ n # k
             /\ us = UnresolvedSet(y, n, k, v)
        BY <2>1, SlotTells
    <2>4. tx.ins[1].id = k /\ tx.ins[1].amount = v
        BY <2>1, <2>3 DEF UnresolvedSet, Rt, Coll
    <2>5. Kept(tx, us) =
             {Rt(y, "UnresolvedYesRt", "YES_RT"), Rt(n, "UnresolvedNoRt", "NO_RT")}
        BY <2>2, <2>3, <2>4 DEF Kept, UnresolvedSet, Rt, Coll
    <2> QED
        BY <2>3, <2>4, <2>5, CollateralCases
<1>2. ASSUME NEW t \in Terminal, SpendsSlots(tx, <<TerminalSlot(t)>>)
      PROVE  /\ st = t
             /\ CollateralOf(us) \in 1..U64Max
             /\ CollateralOf(us) = tx.ins[1].amount
             /\ Kept(tx, us) = {}
    <2>1. PICK u \in us : /\ u.id = tx.ins[1].id /\ u.script = TerminalSlot(t)
                          /\ u.amount = tx.ins[1].amount
        BY <1>0, <1>2
    <2>2. CovenantInputs(tx) = {1}
        BY <1>0, <1>2
    <2>3. PICK k \in Ids(top), v \in 1..U64Max : st = t /\ us = CollSet(k, TerminalSlot(t), v)
        BY <2>1, SlotTells
    <2>4. tx.ins[1].id = k /\ tx.ins[1].amount = v
        BY <2>1, <2>3 DEF Coll, CollSet
    <2>5. Kept(tx, us) = {}
        BY <2>2, <2>3, <2>4 DEF Kept, Coll, CollSet
    <2> QED
        BY <2>3, <2>4, <2>5, CollateralCases
<1> QED
    BY <1>1, <1>2

-----------------------------------------------------------------------------
(* Landing is a step of the lifecycle. *)

(* The builders' price of n pairs is the lifecycle's, and at least n. *)
LEMMA PairPrice ==
    ASSUME NEW n \in Nat
    PROVE  /\ required_collateral(n) \in Nat /\ n <= required_collateral(n)
           /\ required_collateral(n) = Lifecycle!CollateralForPairs(n)
           /\ n * CollateralPerToken \in Nat /\ n <= n * CollateralPerToken
<1>1. PICK p \in Nat : CollateralPerToken = p + 1
    <2>1. CollateralPerToken - 1 \in Nat /\ CollateralPerToken = (CollateralPerToken - 1) + 1
        BY CovenantAssumption
    <2> QED BY <2>1
<1>2. n * p \in Nat /\ n * (p + 1) = n * p + n
    OBVIOUS
<1>3. (n * 2) * (p + 1) = n * (2 * (p + 1)) /\ (n * 2) * (p + 1) = n * (p + 1) + n * (p + 1)
    OBVIOUS
<1> QED
    BY <1>1, <1>2, <1>3 DEF required_collateral, Lifecycle!CollateralForPairs

(* What BroadcastAccepted and NetworkAccepts say of client c's transaction. *)
Landing(c, tx) ==
    /\ Unspents(tx, utxos)
    /\ \A v \in OutAmounts(tx) : v > 0
    /\ tx.lock <= height
    /\ utxos' = After(tx, utxos, txs)
    /\ state' = IF utxos' = {} THEN state
                ELSE derive_state_from_live_slots({u.script : u \in utxos'})
    /\ txs' = txs + 1
    /\ holdings' = [holdings EXCEPT ![c] =
          [asset \in Tokens |-> holdings[c][asset] - WalletAmount(tx.ins, asset)
                                + WalletAmount(tx.outs, asset)]]
    /\ InputsOK(tx, utxos, txs)
    /\ \A a \in Tokens : WalletAmount(tx.ins, a) <= holdings[c][a]

(* The balance of the client changes, and the supplies by as much. *)
LEMMA LandingMoves ==
    ASSUME Inv, NEW c \in Clients, NEW tx, Landing(c, tx),
           NEW yesIn \in Nat, NEW noIn \in Nat, NEW yesOut \in Nat, NEW noOut \in Nat,
           Moves(tx, yesIn, noIn, yesOut, noOut)
    PROVE  /\ holdings' \in [Clients -> [Tokens -> Nat]]
           /\ \A d \in Clients : d # c => holdings'[d] = holdings[d]
           /\ Supply("YES")' = Supply("YES") - yesIn + yesOut
           /\ Supply("NO")' = Supply("NO") - noIn + noOut
           /\ Supply("YES") \in Nat /\ Supply("NO") \in Nat
           /\ yesIn <= Supply("YES") /\ noIn <= Supply("NO")
<1> DEFINE b == [asset \in Tokens |-> holdings[c][asset] - WalletAmount(tx.ins, asset)
                                      + WalletAmount(tx.outs, asset)]
<1>1. holdings \in [Clients -> [Tokens -> Nat]]
    BY DEF Inv
<1>2. /\ "YES" \in Tokens /\ "NO" \in Tokens
      /\ holdings[c]["YES"] \in Nat /\ holdings[c]["NO"] \in Nat
    BY <1>1 DEF Tokens
<1>3. yesIn <= holdings[c]["YES"] /\ noIn <= holdings[c]["NO"]
    BY <1>2 DEF Landing, Moves
<1>4. /\ b["YES"] = holdings[c]["YES"] - yesIn + yesOut
      /\ b["NO"] = holdings[c]["NO"] - noIn + noOut
    BY <1>2 DEF Moves
<1>5. b \in [Tokens -> Nat]
    <2>1. \A a \in Tokens : b[a] \in Nat
        BY <1>2, <1>3, <1>4 DEF Tokens
    <2> QED BY <2>1
<1>6. holdings' = [holdings EXCEPT ![c] = b]
    BY DEF Landing
<1> HIDE DEF b
<1>7. /\ SupplyOf(holdings', "YES") = SupplyOf(holdings, "YES") + (b["YES"] - holdings[c]["YES"])
      /\ SupplyOf(holdings', "NO") = SupplyOf(holdings, "NO") + (b["NO"] - holdings[c]["NO"])
      /\ holdings' \in [Clients -> [Tokens -> Nat]]
    <2>1. holdings' \in [Clients -> [Tokens -> Nat]] /\ holdings'[c] = b
          /\ \A d \in Clients \ {c} : holdings'[d] = holdings[d]
        BY <1>1, <1>5, <1>6
    <2>2. \A asset \in Tokens : SupplyOf(holdings', asset) =
             SupplyOf(holdings, asset) + (holdings'[c][asset] - holdings[c][asset])
        BY <1>1, <2>1, SupplyMoves
    <2> QED BY <1>2, <2>1, <2>2
<1>8. /\ SupplyOf(holdings, "YES") \in Nat /\ SupplyOf(holdings, "NO") \in Nat
      /\ holdings[c]["YES"] <= SupplyOf(holdings, "YES")
      /\ holdings[c]["NO"] <= SupplyOf(holdings, "NO")
    BY <1>1, <1>2, HoldsNoMore
<1>9. /\ Supply("YES") = SupplyOf(holdings, "YES") /\ Supply("NO") = SupplyOf(holdings, "NO")
      /\ Supply("YES")' = SupplyOf(holdings', "YES") /\ Supply("NO")' = SupplyOf(holdings', "NO")
    BY DEF Supply, SupplyOf, SumFunction
<1>10. \A d \in Clients : d # c => holdings'[d] = holdings[d]
    BY <1>1, <1>6
<1> QED
    BY <1>2, <1>3, <1>4, <1>7, <1>8, <1>9, <1>10

SuppliesMove(yesIn, noIn, yesOut, noOut) ==
    /\ holdings' \in [Clients -> [Tokens -> Nat]]
    /\ Supply("YES")' = Supply("YES") - yesIn + yesOut
    /\ Supply("NO")' = Supply("NO") - noIn + noOut
    /\ Supply("YES") \in Nat /\ Supply("NO") \in Nat
    /\ yesIn <= Supply("YES") /\ noIn <= Supply("NO")

(* The part of it about supplies. *)
LEMMA SupplyChange ==
    ASSUME Inv, NEW c \in Clients, NEW tx, Landing(c, tx),
           NEW yesIn \in Nat, NEW noIn \in Nat, NEW yesOut \in Nat, NEW noOut \in Nat,
           Moves(tx, yesIn, noIn, yesOut, noOut)
    PROVE  SuppliesMove(yesIn, noIn, yesOut, noOut)
BY LandingMoves DEF SuppliesMove

(* What every landing must come to. *)
Lands ==
    /\ Shape(utxos', state', txs + 1)
    /\ Lifecycle!Next
    /\ Justified(state', signed, height)
    /\ holdings' \in [Clients -> [Tokens -> Nat]]

(* Outpoints of the new transaction are new, and outpoints. *)
LEMMA NewIds ==
    ASSUME NEW top \in Nat
    PROVE  /\ Ids(top) \subseteq Ids(top + 1)
           /\ <<top + 1, 0>> \in Ids(top + 1) /\ <<top + 1, 1>> \in Ids(top + 1)
           /\ <<top + 1, 2>> \in Ids(top + 1)
           /\ \A j : <<top + 1, j>> \notin Ids(top)
           /\ <<top + 1, 0>> # <<top + 1, 1>> /\ <<top + 1, 0>> # <<top + 1, 2>>
           /\ <<top + 1, 1>> # <<top + 1, 2>>
BY DEF Ids

(* The lifecycle's variables in terms of outputs and balances. *)
LEMMA View ==
    ASSUME Inv
    PROVE  /\ Collateral = CollateralOf(utxos)
           /\ Shape(utxos', state', txs + 1) => Collateral' = CollateralOf(utxos')
<1>1. Collateral = CollateralOf(utxos)
    BY CollateralIs DEF Inv
<1>2. ASSUME Shape(utxos', state', txs + 1) PROVE Collateral' = CollateralOf(utxos')
    <2>1. \A u \in utxos' : u # NoUtxo
        <3> SUFFICES ASSUME NEW u \in utxos', u = NoUtxo PROVE FALSE
            OBVIOUS
        <3>1. u.id = <<>> /\ u.id \in Ids(txs + 1)
            BY <1>2, ShapeIds DEF NoUtxo
        <3> QED BY <3>1 DEF Ids
    <2> QED BY <2>1 DEF Collateral, CollateralOf, UtxoOf
<1> QED
    BY <1>1, <1>2

(* Landing on an unresolved bundle, with its collateral at least as much   *)
(* as a unit: what the scan will see.                                      *)
LEMMA LandsUnresolved ==
    ASSUME Inv, NEW c, NEW tx, Landing(c, tx),
           NEW y \in Ids(txs + 1), NEW n \in Ids(txs + 1), NEW k \in Ids(txs + 1),
           y # n, y # k, n # k, NEW v \in 1..U64Max,
           utxos' = UnresolvedSet(y, n, k, v)
    PROVE  /\ Shape(utxos', state', txs + 1) /\ state' = "Unresolved"
           /\ Justified(state', signed, height)
           /\ Collateral = CollateralOf(utxos) /\ Collateral' = v
<1>1. utxos' # {}
    BY DEF UnresolvedSet
<1>2. state' = "Unresolved"
    BY <1>1, DeriveCases DEF Landing
<1>3. Shape(utxos', state', txs + 1)
    BY <1>2 DEF Shape
<1>4. Collateral' = v
    BY <1>3, View, CollateralCases
<1> QED
    BY <1>2, <1>3, <1>4, View DEF Justified

(* What follows once a transaction leaves the outputs of a dormant market. *)
LEMMA LandsDormant ==
    ASSUME Inv, NEW c, NEW tx, Landing(c, tx),
           NEW y \in Ids(txs + 1), NEW n \in Ids(txs + 1), y # n,
           utxos' = DormantSet(y, n)
    PROVE  /\ Shape(utxos', state', txs + 1) /\ state' = "Dormant"
           /\ Justified(state', signed, height)
           /\ Collateral = CollateralOf(utxos) /\ Collateral' = 0
<1>1. utxos' # {}
    BY DEF DormantSet
<1>2. state' = "Dormant"
    BY <1>1, DeriveCases DEF Landing
<1>3. Shape(utxos', state', txs + 1)
    BY <1>2 DEF Shape
<1>4. Collateral' = 0
    BY <1>3, View, CollateralCases
<1> QED
    BY <1>2, <1>3, <1>4, View DEF Justified

(* The same for the collateral of a market with an outcome. *)
LEMMA LandsTerminal ==
    ASSUME Inv, NEW c, NEW tx, Landing(c, tx), NEW st \in Terminal,
           NEW k \in Ids(txs + 1), NEW v \in 1..U64Max,
           utxos' = CollSet(k, TerminalSlot(st), v)
    PROVE  /\ Shape(utxos', state', txs + 1) /\ state' = st
           /\ Collateral = CollateralOf(utxos) /\ Collateral' = v
<1>1. utxos' # {}
    BY DEF CollSet
<1>2. state' = st
    BY <1>1, DeriveCases DEF Landing
<1>3. Shape(utxos', state', txs + 1)
    BY <1>2 DEF Shape
<1>4. Collateral' = v
    BY <1>3, View, CollateralCases
<1> QED
    BY <1>2, <1>3, <1>4, View

(* issue_tokens on a dormant market. *)
LEMMA LandInitialIssue ==
    ASSUME Inv, NEW c \in Clients, NEW tx, Landing(c, tx),
           NEW n \in Nat, n > 0, InitialIssue(tx, n)
    PROVE  Lands
<1>1. txs \in Nat /\ Shape(utxos, state, txs)
    BY DEF Inv
<1>2. /\ state = "Dormant" /\ CollateralOf(utxos) = 0
      /\ utxos' = UnresolvedSet(<<txs + 1, 0>>, <<txs + 1, 1>>,
                                <<txs + 1, 2>>, required_collateral(n))
    BY <1>1, AfterInitialIssue DEF Landing
<1>3. required_collateral(n) \in 1..U64Max /\ n \in 1..U64Max
      /\ required_collateral(n) = Lifecycle!CollateralForPairs(n)
    BY PairPrice, CovenantAssumption DEF InitialIssue, Fits
<1>4. /\ Shape(utxos', state', txs + 1) /\ state' = "Unresolved"
      /\ Justified(state', signed, height)
      /\ Collateral = 0 /\ Collateral' = required_collateral(n)
    <2> DEFINE y == <<txs + 1, 0>>
               m == <<txs + 1, 1>>
               k == <<txs + 1, 2>>
               v == required_collateral(n)
    <2>1. /\ y \in Ids(txs + 1) /\ m \in Ids(txs + 1) /\ k \in Ids(txs + 1)
          /\ y # m /\ y # k /\ m # k /\ v \in 1..U64Max
          /\ utxos' = UnresolvedSet(y, m, k, v)
        BY <1>1, <1>2, <1>3, NewIds
    <2> HIDE DEF y, m, k, v
    <2>2. /\ Shape(utxos', state', txs + 1) /\ state' = "Unresolved"
          /\ Justified(state', signed, height)
          /\ Collateral = CollateralOf(utxos) /\ Collateral' = v
        BY <2>1, LandsUnresolved
    <2> QED BY <1>2, <2>2 DEF v
<1>5. /\ holdings' \in [Clients -> [Tokens -> Nat]]
      /\ Supply("YES")' = Supply("YES") - 0 + n /\ Supply("NO")' = Supply("NO") - 0 + n
      /\ Supply("YES") \in Nat /\ Supply("NO") \in Nat
    <2>1. Moves(tx, 0, 0, n, n)
        BY DEF InitialIssue
    <2> QED BY <2>1, LandingMoves
<1>6. Lifecycle!IssueTokens(n)
    BY <1>2, <1>3, <1>4, <1>5 DEF Lifecycle!IssueTokens
<1> QED
    BY <1>3, <1>4, <1>5, <1>6 DEF Lands, Lifecycle!Next

(* issue_tokens on an unresolved one. *)
LEMMA LandSubsequentIssue ==
    ASSUME Inv, NEW c \in Clients, NEW tx, Landing(c, tx),
           NEW n \in Nat, n > 0, SubsequentIssue(tx, n)
    PROVE  Lands
<1> DEFINE v == tx.ins[3].amount + required_collateral(n)
           rest == Kept(tx, utxos)
<1>1. txs \in Nat /\ Shape(utxos, state, txs)
    BY DEF Inv
<1>2. /\ state = "Unresolved" /\ rest = {}
      /\ CollateralOf(utxos) \in 1..U64Max /\ CollateralOf(utxos) = tx.ins[3].amount
    BY <1>1, SpendsUnresolved DEF Landing, SubsequentIssue
<1>3. utxos' = UnresolvedSet(<<txs + 1, 0>>, <<txs + 1, 1>>, <<txs + 1, 2>>, v)
    <2>1. Created(tx, txs) =
             UnresolvedSet(<<txs + 1, 0>>, <<txs + 1, 1>>, <<txs + 1, 2>>, v)
        BY CreatedUnresolved DEF SubsequentIssue
    <2>2. utxos' = rest \cup Created(tx, txs)
        BY Zenon DEF Landing, After
    <2> HIDE DEF rest, v
    <2> QED BY <1>2, <2>1, <2>2
<1>4. /\ v \in 1..U64Max /\ n \in 1..U64Max /\ v = CollateralOf(utxos) + Lifecycle!CollateralForPairs(n)
      /\ Lifecycle!CollateralForPairs(n) \in Nat
    BY <1>2, PairPrice, CovenantAssumption DEF SubsequentIssue, Fits
<1> HIDE DEF v
<1>5. /\ Shape(utxos', state', txs + 1) /\ state' = "Unresolved"
      /\ Justified(state', signed, height)
      /\ Collateral = CollateralOf(utxos) /\ Collateral' = v
    <2> DEFINE y == <<txs + 1, 0>>
               m == <<txs + 1, 1>>
               k == <<txs + 1, 2>>
    <2>1. /\ y \in Ids(txs + 1) /\ m \in Ids(txs + 1) /\ k \in Ids(txs + 1)
          /\ y # m /\ y # k /\ m # k
          /\ utxos' = UnresolvedSet(y, m, k, v)
        BY <1>1, <1>3, NewIds
    <2> HIDE DEF y, m, k
    <2> QED BY <1>4, <2>1, LandsUnresolved
<1>6. /\ holdings' \in [Clients -> [Tokens -> Nat]]
      /\ Supply("YES")' = Supply("YES") - 0 + n /\ Supply("NO")' = Supply("NO") - 0 + n
      /\ Supply("YES") \in Nat /\ Supply("NO") \in Nat
    <2>1. Moves(tx, 0, 0, n, n)
        BY DEF SubsequentIssue
    <2> QED BY <2>1, LandingMoves
<1>7. Lifecycle!IssueTokens(n)
    BY <1>2, <1>4, <1>5, <1>6 DEF Lifecycle!IssueTokens
<1> QED
    BY <1>4, <1>5, <1>6, <1>7 DEF Lands, Lifecycle!Next

(* cancel_tokens that leaves collateral: the reissuance tokens stay where  *)
(* they are, in outputs of an earlier transaction.                         *)
LEMMA LandPartialCancel ==
    ASSUME Inv, NEW c \in Clients, NEW tx, Landing(c, tx),
           NEW n \in Nat, n > 0, PartialCancel(tx, n)
    PROVE  Lands
<1> DEFINE v == tx.ins[1].amount - required_collateral(n)
           rest == Kept(tx, utxos)
<1>1. txs \in Nat /\ Shape(utxos, state, txs)
    BY DEF Inv
<1>2. /\ state = "Unresolved"
      /\ CollateralOf(utxos) \in 1..U64Max /\ CollateralOf(utxos) = tx.ins[1].amount
      /\ \E y, m \in Ids(txs) : y # m /\ rest = {Rt(y, "UnresolvedYesRt", "YES_RT"),
                                                 Rt(m, "UnresolvedNoRt", "NO_RT")}
    <2>1. SpendsSlots(tx, <<"UnresolvedCollateral">>)
        BY DEF PartialCancel
    <2> QED BY <1>1, <2>1, SpendsCollateral DEF Landing
<1>3. PICK y, m \in Ids(txs) :
         y # m /\ rest = {Rt(y, "UnresolvedYesRt", "YES_RT"), Rt(m, "UnresolvedNoRt", "NO_RT")}
    BY <1>2
<1>4. utxos' = UnresolvedSet(y, m, <<txs + 1, 0>>, v)
    <2>1. Created(tx, txs) =
             CollSet(<<txs + 1, 0>>, "UnresolvedCollateral", v)
        <3>1. "UnresolvedCollateral" \in MarketSlot
            BY DEF MarketSlot
        <3>2. Creates(tx, <<CollOut("UnresolvedCollateral", v)>>)
            BY DEF PartialCancel
        <3> HIDE DEF v
        <3> QED BY <3>1, <3>2, CreatedCollateral
    <2>2. utxos' = rest \cup Created(tx, txs)
        BY Zenon DEF Landing, After
    <2> HIDE DEF rest, v
    <2> QED BY <1>3, <2>1, <2>2 DEF CollSet, UnresolvedSet
<1>5. /\ v \in 1..U64Max /\ n \in 1..U64Max
      /\ v = CollateralOf(utxos) - Lifecycle!CollateralForPairs(n)
      /\ Lifecycle!CollateralForPairs(n) \in Nat
    BY <1>2, PairPrice, CovenantAssumption DEF PartialCancel
<1> HIDE DEF v
<1>6. /\ Shape(utxos', state', txs + 1) /\ state' = "Unresolved"
      /\ Justified(state', signed, height)
      /\ Collateral = CollateralOf(utxos) /\ Collateral' = v
    <2> DEFINE k == <<txs + 1, 0>>
    <2>1. /\ y \in Ids(txs + 1) /\ m \in Ids(txs + 1) /\ k \in Ids(txs + 1)
          /\ y # k /\ m # k
        <3>1. Ids(txs) \subseteq Ids(txs + 1) /\ k \in Ids(txs + 1) /\ k \notin Ids(txs)
            BY <1>1, NewIds, Zenon
        <3> HIDE DEF k
        <3> QED BY <3>1
    <2>2. utxos' = UnresolvedSet(y, m, k, v)
        BY <1>4
    <2> HIDE DEF k
    <2> QED BY <1>3, <1>5, <2>1, <2>2, LandsUnresolved
<1>7. PICK yes, no \in Nat : yes >= n /\ no >= n /\ Moves(tx, yes, no, yes - n, no - n)
    BY DEF PartialCancel
<1>8. /\ holdings' \in [Clients -> [Tokens -> Nat]]
      /\ Supply("YES")' = Supply("YES") - yes + (yes - n)
      /\ Supply("NO")' = Supply("NO") - no + (no - n)
      /\ Supply("YES") \in Nat /\ Supply("NO") \in Nat
      /\ yes <= Supply("YES") /\ no <= Supply("NO")
    <2> DEFINE yesOut == yes - n
               noOut == no - n
    <2>1. /\ yes \in Nat /\ no \in Nat /\ yesOut \in Nat /\ noOut \in Nat
          /\ Moves(tx, yes, no, yesOut, noOut)
        BY <1>7
    <2> HIDE DEF yesOut, noOut
    <2>2. SuppliesMove(yes, no, yesOut, noOut)
        BY <2>1, SupplyChange
    <2> QED BY <2>2 DEF SuppliesMove, yesOut, noOut
<1>9. Lifecycle!CancelTokens(n)
    BY <1>2, <1>5, <1>6, <1>7, <1>8 DEF Lifecycle!CancelTokens
<1> QED
    BY <1>5, <1>6, <1>8, <1>9 DEF Lands, Lifecycle!Next

(* Equal prices are prices of as many pairs. *)
LEMMA PriceInjective ==
    ASSUME NEW m \in Nat, NEW n \in Nat,
           Lifecycle!CollateralForPairs(m) = Lifecycle!CollateralForPairs(n)
    PROVE  m = n
<1>1. 2 * CollateralPerToken \in Nat \ {0}
    BY CovenantAssumption
<1>2. ASSUME NEW k \in Nat \ {0}, m * k = n * k PROVE m = n
    <2>1. (m - n) * k = 0
        BY <1>2
    <2> QED BY <2>1
<1> QED
    BY <1>1, <1>2 DEF Lifecycle!CollateralForPairs

(* cancel_tokens that takes all the collateral burns all the tokens, which *)
(* is why its builder needs no token change.                               *)
LEMMA LandFullCancel ==
    ASSUME Inv, NEW c \in Clients, NEW tx, Landing(c, tx),
           NEW n \in Nat, n > 0, FullCancel(tx, n)
    PROVE  Lands
<1> DEFINE rest == Kept(tx, utxos)
<1>1. txs \in Nat /\ Shape(utxos, state, txs)
    BY DEF Inv
<1>2. /\ state = "Unresolved" /\ rest = {}
      /\ CollateralOf(utxos) \in 1..U64Max /\ CollateralOf(utxos) = tx.ins[1].amount
    BY <1>1, SpendsUnresolved DEF Landing, FullCancel
<1>3. utxos' = DormantSet(<<txs + 1, 0>>, <<txs + 1, 1>>)
    <2>1. Created(tx, txs) =
             DormantSet(<<txs + 1, 0>>, <<txs + 1, 1>>)
        BY CreatedDormant DEF FullCancel
    <2>2. utxos' = rest \cup Created(tx, txs)
        BY Zenon DEF Landing, After
    <2> HIDE DEF rest
    <2> QED BY <1>2, <2>1, <2>2
<1>4. /\ Shape(utxos', state', txs + 1) /\ state' = "Dormant"
      /\ Justified(state', signed, height)
      /\ Collateral = CollateralOf(utxos) /\ Collateral' = 0
    <2> DEFINE y == <<txs + 1, 0>>
               m == <<txs + 1, 1>>
    <2>1. /\ y \in Ids(txs + 1) /\ m \in Ids(txs + 1) /\ y # m
          /\ utxos' = DormantSet(y, m)
        BY <1>1, <1>3, NewIds
    <2> HIDE DEF y, m
    <2> QED BY <2>1, LandsDormant
<1>5. /\ n \in 1..U64Max /\ Collateral = Lifecycle!CollateralForPairs(n)
      /\ Lifecycle!CollateralForPairs(n) \in Nat
    BY <1>2, <1>4, PairPrice, CovenantAssumption DEF FullCancel
<1>6. PICK yes, no \in Nat : yes >= n /\ no >= n /\ Moves(tx, yes, no, 0, 0)
    BY DEF FullCancel
<1>7. /\ holdings' \in [Clients -> [Tokens -> Nat]]
      /\ Supply("YES")' = Supply("YES") - yes + 0
      /\ Supply("NO")' = Supply("NO") - no + 0
      /\ Supply("YES") \in Nat /\ Supply("NO") \in Nat
      /\ yes <= Supply("YES") /\ no <= Supply("NO")
    <2>1. yes \in Nat /\ no \in Nat /\ 0 \in Nat /\ Moves(tx, yes, no, 0, 0)
        BY <1>6
    <2> QED BY <2>1, LandingMoves
<1>8. Supply("YES") = n /\ Supply("NO") = n
    <2>1. /\ Collateral = Lifecycle!CollateralForPairs(Supply("YES"))
          /\ Supply("YES") = Supply("NO")
        BY <1>2 DEF Inv, LP!Inv, LP!FullyBacked, LP!Claims, LP!TokensPaired,
                    LP!CollateralForPairs, Lifecycle!CollateralForPairs
    <2> QED BY <1>5, <1>7, <2>1, PriceInjective
<1>9. Lifecycle!CancelTokens(n)
    <2>1. /\ Supply("YES")' = Supply("YES") - n /\ n <= Supply("YES")
          /\ Supply("NO")' = Supply("NO") - n /\ n <= Supply("NO")
        <3>1. yes = n /\ no = n
            <4>1. yes \in Nat /\ no \in Nat /\ yes >= n /\ no >= n
                BY <1>6
            <4>2. yes <= n /\ no <= n
                BY <1>7, <1>8
            <4> QED BY <4>1, <4>2
        <3> QED BY <1>7, <1>8, <3>1
    <2>2. /\ Collateral' = Collateral - Lifecycle!CollateralForPairs(n)
          /\ Lifecycle!CollateralForPairs(n) <= Collateral
        BY <1>4, <1>5
    <2> QED BY <1>2, <1>4, <1>5, <2>1, <2>2 DEF Lifecycle!CancelTokens
<1> QED
    BY <1>4, <1>5, <1>7, <1>9 DEF Lands, Lifecycle!Next

(* resolve_market and expire_market. *)
LEMMA LandConclude ==
    ASSUME Inv, NEW c \in Clients, NEW tx, Landing(c, tx),
           NEW st \in Terminal, Conclude(tx, st, signed)
    PROVE  Lands
<1> DEFINE v == tx.ins[3].amount
           rest == Kept(tx, utxos)
<1>1. txs \in Nat /\ Shape(utxos, state, txs)
    BY DEF Inv
<1>2. /\ state = "Unresolved" /\ rest = {}
      /\ CollateralOf(utxos) \in 1..U64Max /\ CollateralOf(utxos) = v
    BY <1>1, SpendsUnresolved DEF Landing, Conclude
<1>3. utxos' = CollSet(<<txs + 1, 2>>, TerminalSlot(st), v)
    <2>0. TerminalSlot(st) \in MarketSlot
        BY DEF Terminal, TerminalSlot, MarketSlot
    <2>1. Created(tx, txs) =
             CollSet(<<txs + 1, 2>>, TerminalSlot(st), v)
        <3>1. Creates(tx, ConcludedOuts(TerminalSlot(st), v))
            BY DEF Conclude
        <3> HIDE DEF v
        <3> QED BY <2>0, <3>1, CreatedConcluded
    <2>2. utxos' = rest \cup Created(tx, txs)
        BY Zenon DEF Landing, After
    <2> HIDE DEF rest
    <2> QED BY <1>2, <2>1, <2>2
<1> HIDE DEF v
<1>4. /\ Shape(utxos', state', txs + 1) /\ state' = st
      /\ Collateral = CollateralOf(utxos) /\ Collateral' = v
    <2> DEFINE k == <<txs + 1, 2>>
    <2>1. k \in Ids(txs + 1) /\ utxos' = CollSet(k, TerminalSlot(st), v) /\ v \in 1..U64Max
        BY <1>1, <1>2, <1>3, NewIds
    <2> HIDE DEF k
    <2> QED BY <2>1, LandsTerminal
<1>5. /\ holdings' \in [Clients -> [Tokens -> Nat]]
      /\ Supply("YES")' = Supply("YES") - 0 + 0 /\ Supply("NO")' = Supply("NO") - 0 + 0
      /\ Supply("YES") \in Nat /\ Supply("NO") \in Nat
    <2>1. Moves(tx, 0, 0, 0, 0)
        BY DEF Conclude
    <2> QED BY <2>1, LandingMoves
<1>6. Justified(state', signed, height)
    BY <1>4 DEF Justified, Conclude, Landing
<1>7. \/ \E outcomeYes \in BOOLEAN : Lifecycle!ResolveMarket(outcomeYes)
      \/ Lifecycle!ExpireMarket
    <2>1. /\ state = "Unresolved" /\ state' = st /\ Collateral' = Collateral
          /\ Supply("YES")' = Supply("YES") /\ Supply("NO")' = Supply("NO")
        BY <1>2, <1>4, <1>5
    <2>2. CASE st = "ResolvedYes"
        <3>1. Lifecycle!ResolveMarket(TRUE)
            BY <2>1, <2>2 DEF Lifecycle!ResolveMarket
        <3> QED BY <3>1
    <2>3. CASE st = "ResolvedNo"
        <3>1. Lifecycle!ResolveMarket(FALSE)
            BY <2>1, <2>3 DEF Lifecycle!ResolveMarket
        <3> QED BY <3>1
    <2>4. CASE st = "Expired"
        BY <2>1, <2>4 DEF Lifecycle!ExpireMarket
    <2> QED BY <2>2, <2>3, <2>4 DEF Terminal
<1> QED
    BY <1>4, <1>5, <1>6, <1>7 DEF Lands, Lifecycle!Next

(* redeem_tokens and redeem_expired, which may take the last collateral. *)
LEMMA LandRedeem ==
    ASSUME Inv, NEW c \in Clients, NEW tx, Landing(c, tx),
           NEW n \in Nat, n > 0, NEW st \in Terminal, Redeem(tx, st, n)
    PROVE  Lands
<1> DEFINE payout == IF st = "Expired" THEN n * CollateralPerToken
                                       ELSE required_collateral(n)
           v == tx.ins[1].amount - payout
           rest == Kept(tx, utxos)
<1>1. txs \in Nat /\ Shape(utxos, state, txs)
    BY DEF Inv
<1>0. /\ SpendsSlots(tx, <<TerminalSlot(st)>>)
      /\ payout <= tx.ins[1].amount
      /\ v > 0 => Creates(tx, <<CollOut(TerminalSlot(st), v)>>)
      /\ ~ (v > 0) => Creates(tx, <<NoOut>>)
      /\ \E total \in Nat :
            /\ total >= n
            /\ \/ st # "ResolvedNo" /\ Moves(tx, total, 0, total - n, 0)
               \/ st # "ResolvedYes" /\ Moves(tx, 0, total, 0, total - n)
    BY DEF Redeem, Redeems
<1>2. /\ state = st /\ rest = {}
      /\ CollateralOf(utxos) \in 1..U64Max /\ CollateralOf(utxos) = tx.ins[1].amount
    BY <1>0, <1>1, SpendsCollateral DEF Landing
<1>3. /\ payout \in Nat /\ n <= payout /\ v \in 0..U64Max /\ n \in 1..U64Max
      /\ v = CollateralOf(utxos) - payout
      /\ st # "Expired" => payout = Lifecycle!CollateralForPairs(n)
      /\ st = "Expired" => payout = n * CollateralPerToken
    <2>1. payout \in Nat /\ n <= payout
        BY PairPrice
    <2>2. /\ st # "Expired" => payout = Lifecycle!CollateralForPairs(n)
          /\ st = "Expired" => payout = n * CollateralPerToken
        BY PairPrice
    <2> HIDE DEF payout
    <2> QED BY <1>0, <1>2, <2>1, <2>2, CovenantAssumption
<1>4. TerminalSlot(st) \in MarketSlot
    BY DEF Terminal, TerminalSlot, MarketSlot
<1>5. utxos' = rest \cup Created(tx, txs)
    BY Zenon DEF Landing, After
<1> HIDE DEF payout, v, rest
<1>6. /\ Shape(utxos', state', txs + 1) /\ state' = st
      /\ Collateral = CollateralOf(utxos) /\ Collateral' = v
    <2>1. CASE v > 0
        <3> DEFINE k == <<txs + 1, 0>>
        <3>1. utxos' = CollSet(k, TerminalSlot(st), v)
            <4>1. Created(tx, txs) =
                     CollSet(<<txs + 1, 0>>, TerminalSlot(st), v)
                BY <1>0, <1>4, <2>1, CreatedCollateral
            <4> QED BY <1>2, <1>5, <4>1
        <3>2. k \in Ids(txs + 1)
            BY <1>1, NewIds, Zenon
        <3>3. v \in 1..U64Max
            BY <1>3, <2>1
        <3> HIDE DEF k
        <3> QED BY <3>1, <3>2, <3>3, LandsTerminal
    <2>2. CASE v = 0
        <3>1. MarketOuts(tx) = {}
            <4>1. Creates(tx, <<NoOut>>)
                BY <1>0, <2>2
            <4> QED BY <4>1, CreatedNothing
        <3>2. utxos' = {}
            BY <1>2, <1>5, <3>1 DEF Created
        <3>3. state' = st
            BY <1>2, <3>2 DEF Landing
        <3>4. Shape(utxos', state', txs + 1)
            BY <3>2, <3>3 DEF Shape
        <3> QED BY <2>2, <3>2, <3>3, <3>4, View, CollateralCases
    <2> QED BY <1>3, <2>1, <2>2
<1>7. Justified(state', signed, height)
    BY <1>2, <1>6 DEF Inv
<1>8. PICK total \in Nat :
         /\ total >= n
         /\ \/ st # "ResolvedNo" /\ Moves(tx, total, 0, total - n, 0)
            \/ st # "ResolvedYes" /\ Moves(tx, 0, total, 0, total - n)
    BY <1>0
<1>9. /\ holdings' \in [Clients -> [Tokens -> Nat]]
      /\ Supply("YES") \in Nat /\ Supply("NO") \in Nat
      /\ \/ /\ st # "ResolvedNo" /\ n <= Supply("YES")
            /\ Supply("YES")' = Supply("YES") - n /\ Supply("NO")' = Supply("NO")
         \/ /\ st # "ResolvedYes" /\ n <= Supply("NO")
            /\ Supply("YES")' = Supply("YES") /\ Supply("NO")' = Supply("NO") - n
    <2>0. total - n \in Nat
        BY <1>8
    <2>1. CASE st # "ResolvedNo" /\ Moves(tx, total, 0, total - n, 0)
        <3>1. /\ holdings' \in [Clients -> [Tokens -> Nat]]
              /\ Supply("YES")' = Supply("YES") - total + (total - n)
              /\ Supply("NO")' = Supply("NO") - 0 + 0
              /\ Supply("YES") \in Nat /\ Supply("NO") \in Nat
              /\ total <= Supply("YES")
            BY <2>0, <2>1, LandingMoves
        <3> QED BY <1>8, <2>1, <3>1
    <2>2. CASE st # "ResolvedYes" /\ Moves(tx, 0, total, 0, total - n)
        <3>1. /\ holdings' \in [Clients -> [Tokens -> Nat]]
              /\ Supply("YES")' = Supply("YES") - 0 + 0
              /\ Supply("NO")' = Supply("NO") - total + (total - n)
              /\ Supply("YES") \in Nat /\ Supply("NO") \in Nat
              /\ total <= Supply("NO")
            BY <2>0, <2>2, LandingMoves
        <3> QED BY <1>8, <2>2, <3>1
    <2> QED BY <1>8, <2>1, <2>2
<1>10. Lifecycle!RedeemTokens(n) \/ Lifecycle!RedeemExpired(n)
    BY <1>2, <1>3, <1>6, <1>9 DEF Terminal, Lifecycle!RedeemTokens, Lifecycle!RedeemExpired
<1> QED
    BY <1>3, <1>6, <1>7, <1>9, <1>10 DEF Lands, Lifecycle!Next

-----------------------------------------------------------------------------
(* An accepted broadcast. *)

(* The two instances of the lifecycle are the same. *)
LEMMA SameLifecycle ==
    /\ Lifecycle!Next <=> LP!Next
    /\ Lifecycle!vars = LP!vars
    /\ Lifecycle!Init <=> LP!Init
BY DEF Lifecycle!Next, LP!Next, Lifecycle!vars, LP!vars, Lifecycle!Init, LP!Init,
       Lifecycle!IssueTokens, LP!IssueTokens, Lifecycle!CancelTokens, LP!CancelTokens,
       Lifecycle!RedeemTokens, LP!RedeemTokens, Lifecycle!RedeemExpired, LP!RedeemExpired,
       Lifecycle!ResolveMarket, LP!ResolveMarket, Lifecycle!ExpireMarket, LP!ExpireMarket,
       Lifecycle!CollateralForPairs, LP!CollateralForPairs

(* What the network accepts of a transaction in hand lands as Landing says. *)
LEMMA AcceptedLanding ==
    ASSUME Inv, NEW c \in Clients, BroadcastAccepted(c), NEW tx, tx = request[c].tx
    PROVE  Landing(c, tx) /\ EffectOK(tx, signed)
<1>1. RequestOK(tx, holdings[c], utxos, txs, signed)
    BY DEF Inv, RequestsOK, BroadcastAccepted
<1>2. Land(c, tx)
    BY DEF BroadcastAccepted
<1>3. utxos' = After(tx, utxos, txs)
    BY <1>2 DEF Land, After, Kept, Created, MarketOuts, OutAt
<1>4. holdings' = [holdings EXCEPT ![c] =
          [asset \in Tokens |-> holdings[c][asset] - WalletAmount(tx.ins, asset)
                                + WalletAmount(tx.outs, asset)]]
    BY <1>2 DEF Land
<1>5. /\ state' = IF utxos' = {} THEN state
                  ELSE derive_state_from_live_slots({u.script : u \in utxos'})
      /\ txs' = txs + 1
    BY <1>2, Zenon DEF Land
<1>6. Unspents(tx, utxos)
    BY DEF BroadcastAccepted, NetworkAccepts, Unspent, Unspents
<1>7. (\A v \in OutAmounts(tx) : v > 0) /\ tx.lock <= height
    BY DEF BroadcastAccepted, NetworkAccepts, OutAmounts
<1>8. InputsOK(tx, utxos, txs) /\ EffectOK(tx, signed)
      /\ \A a \in Tokens : WalletAmount(tx.ins, a) <= holdings[c][a]
    BY <1>1 DEF RequestOK
<1> QED
    BY <1>3, <1>4, <1>5, <1>6, <1>7, <1>8, Zenon DEF Landing

(* It is a step of the lifecycle. *)
LEMMA AcceptedLands ==
    ASSUME Inv, NEW c \in Clients, NEW tx, Landing(c, tx), EffectOK(tx, signed)
    PROVE  Lands
<1>1. CASE \E st \in Terminal : Conclude(tx, st, signed)
    BY <1>1, LandConclude
<1>2. ASSUME NEW n \in OutAmounts(tx) \cap Nat,
             \/ InitialIssue(tx, n) \/ SubsequentIssue(tx, n) \/ PartialCancel(tx, n)
             \/ FullCancel(tx, n) \/ \E st \in Terminal : Redeem(tx, st, n)
      PROVE  Lands
    <2>1. n \in Nat /\ n > 0
        BY DEF Landing
    <2>2. CASE InitialIssue(tx, n)
        BY <2>1, <2>2, LandInitialIssue
    <2>3. CASE SubsequentIssue(tx, n)
        BY <2>1, <2>3, LandSubsequentIssue
    <2>4. CASE PartialCancel(tx, n)
        BY <2>1, <2>4, LandPartialCancel
    <2>5. CASE FullCancel(tx, n)
        BY <2>1, <2>5, LandFullCancel
    <2>6. CASE \E st \in Terminal : Redeem(tx, st, n)
        BY <2>1, <2>6, LandRedeem
    <2> QED BY <1>2, <2>2, <2>3, <2>4, <2>5, <2>6
<1> QED
    BY <1>1, <1>2 DEF EffectOK

(* The supplies stay within a u64: collateral covers them until there is   *)
(* an outcome, and they only shrink afterwards.                            *)
LEMMA SuppliesFit ==
    ASSUME Inv, Lands
    PROVE  /\ LP!Inv'
           /\ Supply("YES")' <= U64Max /\ Supply("NO")' <= U64Max
<1>1. LP!Inv'
    <2>1. LP!Inv /\ LP!Next
        BY SameLifecycle DEF Inv, Lands
    <2> QED BY <2>1, LP!NextInv, CovenantAssumption
<1>2. Supply("YES")' \in Nat /\ Supply("NO")' \in Nat /\ Supply("YES") \in Nat /\ Supply("NO") \in Nat
    BY <1>1 DEF Inv, LP!Inv, LP!TypeOK
<1>3. CASE state' \in {"Dormant", "Unresolved"}
    <2>1. /\ Supply("YES")' = Supply("NO")'
          /\ state' = "Dormant" => Supply("YES")' = 0
          /\ state' = "Unresolved" => Collateral' = LP!CollateralForPairs(Supply("YES")')
        BY <1>1, <1>3 DEF LP!Inv, LP!FullyBacked, LP!Claims, LP!TokensPaired, LP!Terminal
    <2>2. ASSUME state' = "Unresolved" PROVE Supply("YES")' <= U64Max
        <3>1. PICK y, n, k \in Ids(txs + 1), v \in 1..U64Max : utxos' = UnresolvedSet(y, n, k, v)
            BY <2>2 DEF Lands, Shape, Terminal
        <3>2. Collateral' = v /\ v \in 1..U64Max
            BY <3>1, View, CollateralCases DEF Lands
        <3>3. Supply("YES")' <= LP!CollateralForPairs(Supply("YES")')
            <4> DEFINE s == Supply("YES")'
            <4>1. s \in Nat
                BY <1>2
            <4> HIDE DEF s
            <4>2. s <= Lifecycle!CollateralForPairs(s) /\ Lifecycle!CollateralForPairs(s) \in Nat
                BY <4>1, PairPrice
            <4>3. s <= LP!CollateralForPairs(s)
                BY <4>2 DEF Lifecycle!CollateralForPairs, LP!CollateralForPairs
            <4> QED BY <4>3 DEF s
        <3> QED BY <1>2, <2>1, <2>2, <3>2, <3>3, CovenantAssumption
    <2>3. ASSUME state' = "Dormant" PROVE Supply("YES")' <= U64Max
        BY <2>1, <2>3, CovenantAssumption
    <2>4. Supply("YES")' <= U64Max
        BY <1>3, <2>2, <2>3
    <2> QED BY <1>1, <2>1, <2>4
<1>4. CASE state' \notin {"Dormant", "Unresolved"}
    <2>1. Supply("YES")' <= Supply("YES") /\ Supply("NO")' <= Supply("NO")
        BY <1>2, <1>4 DEF Lands, Lifecycle!Next, Lifecycle!IssueTokens, Lifecycle!CancelTokens,
           Lifecycle!RedeemTokens, Lifecycle!RedeemExpired, Lifecycle!ResolveMarket,
           Lifecycle!ExpireMarket
    <2>2. Supply("YES") <= U64Max /\ Supply("NO") <= U64Max /\ U64Max \in Nat
        BY CovenantAssumption DEF Inv
    <2> DEFINE y == Supply("YES")
               n == Supply("NO")
    <2>3. y' \in Nat /\ n' \in Nat /\ y \in Nat /\ n \in Nat /\ y' <= y /\ n' <= n
          /\ y <= U64Max /\ n <= U64Max
        BY <1>2, <2>1, <2>2
    <2> HIDE DEF y, n
    <2>4. y' <= U64Max /\ n' <= U64Max
        BY <2>2, <2>3
    <2> QED BY <1>1, <2>4 DEF y, n
<1> QED
    BY <1>1, <1>3, <1>4

(* Another client's transaction in hand stays what it was: outputs that    *)
(* are gone cannot come back, and new ones have new outpoints.             *)
LEMMA StillOK ==
    ASSUME NEW us, NEW top \in Nat, NEW tx, InputsOK(tx, us, top),
           NEW other, NEW us2, us2 = After(other, us, top)
    PROVE  InputsOK(tx, us2, top + 1)
<1> SUFFICES ASSUME NEW k \in CovenantInputs(tx)
             PROVE  /\ tx.ins[k].id \in Ids(top + 1)
                    /\ \A u \in us2 : u.id = tx.ins[k].id => u = Prevout(tx.ins[k])
    BY DEF InputsOK
<1>1. tx.ins[k].id \in Ids(top) /\ \A u \in us : u.id = tx.ins[k].id => u = Prevout(tx.ins[k])
    BY DEF InputsOK
<1>2. Ids(top) \subseteq Ids(top + 1) /\ \A j : <<top + 1, j>> \notin Ids(top)
    BY NewIds
<1>3. \A u \in us2 : u \in us \/ \E j : u.id = <<top + 1, j>>
    BY DEF After, Kept, Created, OutAt
<1>4. ASSUME NEW u \in us2, u.id = tx.ins[k].id PROVE u = Prevout(tx.ins[k])
    <2>1. u.id \in Ids(top)
        BY <1>1, <1>4
    <2>2. ~ \E j : u.id = <<top + 1, j>>
        BY <1>2, <2>1
    <2> QED BY <1>1, <1>3, <1>4, <2>2
<1> QED
    BY <1>1, <1>2, <1>4

(* broadcast_and_sync of an accepted transaction keeps the invariant and   *)
(* is a step of the lifecycle.                                             *)
LEMMA AcceptedInv ==
    ASSUME Inv, NEW c \in Clients, BroadcastAccepted(c)
    PROVE  Inv' /\ Lifecycle!Next
<1>1. PICK tx : tx = request[c].tx
    OBVIOUS
<1>2. Landing(c, tx) /\ EffectOK(tx, signed)
    BY <1>1, AcceptedLanding
<1>3. Lands
    BY <1>2, AcceptedLands
<1>4. /\ LP!Inv'
      /\ Supply("YES")' <= U64Max /\ Supply("NO")' <= U64Max
    BY <1>3, SuppliesFit
<1>5. /\ txs < MaxTxs /\ height' = height /\ signed' = signed
      /\ severed' = (severed \/ Severs(tx))
    BY <1>1 DEF BroadcastAccepted, Land
<1>6. txs' = txs + 1 /\ utxos' = After(tx, utxos, txs)
    BY <1>2 DEF Landing
<1>7. /\ DOMAIN request' = Clients
      /\ \A d \in Clients : d # c => request'[d] = request[d]
      /\ request'[c].stage \in {"idle", "finalized"}
    BY DEF BroadcastAccepted, Idle, Inv
<1>8. \A d \in Clients : d # c => holdings'[d] = holdings[d]
    BY <1>2 DEF Landing, Inv
<1>9. RequestsOK'
    <2> SUFFICES ASSUME NEW d \in Clients
                 PROVE  /\ request'[d].stage \in {"idle", "broadcast", "finalized"}
                        /\ request'[d].stage = "broadcast" =>
                              RequestOK(request'[d].tx, holdings'[d], utxos', txs', signed')
        BY DEF RequestsOK
    <2>1. CASE d = c
        BY <1>7, <2>1
    <2>2. CASE d # c
        <3>1. request'[d] = request[d] /\ holdings'[d] = holdings[d]
            BY <1>7, <1>8, <2>2
        <3>2. request[d].stage \in {"idle", "broadcast", "finalized"}
            BY DEF Inv, RequestsOK
        <3>3. ASSUME request[d].stage = "broadcast"
              PROVE  RequestOK(request[d].tx, holdings[d], utxos', txs', signed')
            <4>1. RequestOK(request[d].tx, holdings[d], utxos, txs, signed)
                BY <3>3 DEF Inv, RequestsOK
            <4>2. InputsOK(request[d].tx, utxos', txs + 1)
                <5>1. txs \in Nat /\ InputsOK(request[d].tx, utxos, txs)
                    BY <4>1 DEF RequestOK, Inv
                <5> QED BY <1>6, <5>1, StillOK
            <4> QED BY <1>5, <1>6, <4>1, <4>2 DEF RequestOK
        <3> QED BY <3>1, <3>2, <3>3
    <2> QED BY <2>1, <2>2
<1>10. severed' \in BOOLEAN /\ txs' \in 0..MaxTxs /\ height' \in 0..MaxHeight /\ signed' \subseteq BOOLEAN
    BY <1>5, <1>6, MarketAssumption DEF Inv
<1>11. /\ Shape(utxos', state', txs') /\ Justified(state', signed', height')
       /\ holdings' \in [Clients -> [Tokens -> Nat]]
    BY <1>3, <1>5, <1>6 DEF Lands
<1> QED
    BY <1>3, <1>4, <1>7, <1>9, <1>10, <1>11 DEF Inv, Lands

(* A step that leaves outputs, state and supplies alone leaves the         *)
(* lifecycle alone.                                                        *)
LEMMA Quiet ==
    ASSUME Inv, UNCHANGED <<utxos, state>>,
           Supply("YES")' = Supply("YES"), Supply("NO")' = Supply("NO")
    PROVE  /\ UNCHANGED Lifecycle!vars
           /\ LP!Inv'
           /\ Supply("YES")' <= U64Max /\ Supply("NO")' <= U64Max
<1>1. Collateral' = Collateral
    BY DEF Collateral, UtxoOf
<1>2. UNCHANGED LP!vars
    BY <1>1 DEF LP!vars
<1>3. LP!Inv'
    BY <1>2, LP!NextInv, CovenantAssumption DEF Inv
<1> QED
    BY <1>1, <1>3 DEF Inv, Lifecycle!vars

(* Supplies move only with the holdings. *)
LEMMA QuietHoldings ==
    ASSUME UNCHANGED holdings
    PROVE  Supply("YES")' = Supply("YES") /\ Supply("NO")' = Supply("NO")
BY DEF Supply

(* A step that only changes what one client has in hand. *)
LEMMA RequestStep ==
    ASSUME Inv, NEW c \in Clients, NEW r, request' = [request EXCEPT ![c] = r],
           UNCHANGED <<utxos, state, severed, txs, height, signed, holdings>>,
           r.stage \in {"idle", "broadcast", "finalized"},
           r.stage = "broadcast" => RequestOK(r.tx, holdings[c], utxos, txs, signed)
    PROVE  Inv' /\ UNCHANGED Lifecycle!vars
<1>1. /\ UNCHANGED Lifecycle!vars /\ LP!Inv'
      /\ Supply("YES")' <= U64Max /\ Supply("NO")' <= U64Max
    BY QuietHoldings, Quiet
<1>2. /\ DOMAIN request' = Clients /\ request'[c] = r
      /\ \A d \in Clients : d # c => request'[d] = request[d]
    BY DEF Inv
<1>3. RequestsOK'
    BY <1>2 DEF Inv, RequestsOK
<1>4. /\ Shape(utxos', state', txs') /\ Justified(state', signed', height')
      /\ holdings' \in [Clients -> [Tokens -> Nat]]
      /\ severed' \in BOOLEAN /\ txs' \in 0..MaxTxs /\ height' \in 0..MaxHeight
      /\ signed' \subseteq BOOLEAN
    BY DEF Inv
<1> QED
    BY <1>1, <1>2, <1>3, <1>4 DEF Inv

(* More signatures allow no less. *)
LEMMA MoreSignatures ==
    ASSUME NEW tx, NEW sgn, NEW more, sgn \subseteq more, EffectOK(tx, sgn)
    PROVE  EffectOK(tx, more)
<1>1. \A st \in Terminal : Conclude(tx, st, sgn) => Conclude(tx, st, more)
    BY DEF Conclude
<1> QED
    BY <1>1 DEF EffectOK

(* The oracle signs. *)
LEMMA OracleInv ==
    ASSUME Inv, NEW o \in BOOLEAN, OracleSigns(o)
    PROVE  Inv' /\ UNCHANGED Lifecycle!vars
<1>0. /\ signed' = signed \cup {o}
      /\ UNCHANGED <<utxos, state, severed, txs, height, holdings, request>>
    BY DEF OracleSigns
<1>1. /\ UNCHANGED Lifecycle!vars /\ LP!Inv'
      /\ Supply("YES")' <= U64Max /\ Supply("NO")' <= U64Max
    BY <1>0, QuietHoldings, Quiet
<1>2. ASSUME NEW c \in Clients, RequestOK(request[c].tx, holdings[c], utxos, txs, signed)
      PROVE  RequestOK(request[c].tx, holdings[c], utxos, txs, signed')
    <2>1. EffectOK(request[c].tx, signed')
        BY <1>0, <1>2, MoreSignatures DEF RequestOK
    <2> QED BY <1>2, <2>1 DEF RequestOK
<1>3. RequestsOK'
    BY <1>0, <1>2 DEF Inv, RequestsOK
<1>4. /\ Shape(utxos', state', txs') /\ Justified(state', signed', height')
      /\ holdings' \in [Clients -> [Tokens -> Nat]]
      /\ severed' \in BOOLEAN /\ txs' \in 0..MaxTxs /\ height' \in 0..MaxHeight
      /\ signed' \subseteq BOOLEAN /\ DOMAIN request' = Clients
    BY <1>0 DEF Inv, Justified
<1> QED
    BY <1>1, <1>3, <1>4 DEF Inv

(* A block. *)
LEMMA BlockInv ==
    ASSUME Inv, NewBlock
    PROVE  Inv' /\ UNCHANGED Lifecycle!vars
<1>0. /\ height < MaxHeight /\ height' = height + 1
      /\ UNCHANGED <<utxos, state, severed, txs, signed, holdings, request>>
    BY DEF NewBlock
<1>1. /\ UNCHANGED Lifecycle!vars /\ LP!Inv'
      /\ Supply("YES")' <= U64Max /\ Supply("NO")' <= U64Max
    BY <1>0, QuietHoldings, Quiet
<1>2. RequestsOK'
    BY <1>0 DEF Inv, RequestsOK
<1>3. height \in 0..MaxHeight /\ height' \in 0..MaxHeight
    BY <1>0, MarketAssumption DEF Inv
<1>4. Justified(state', signed', height')
    <2>1. Justified(state, signed, height)
        BY DEF Inv
    <2>2. height \in Nat /\ height' >= height /\ height' \in Nat
        BY <1>0, <1>3, MarketAssumption
    <2>3. state' = state /\ signed' = signed
        BY <1>0
    <2>4. height >= ExpiryTime => height' >= ExpiryTime
        BY <2>2, CovenantAssumption
    <2> QED BY <2>1, <2>3, <2>4 DEF Justified
<1>5. /\ Shape(utxos', state', txs')
      /\ holdings' \in [Clients -> [Tokens -> Nat]]
      /\ severed' \in BOOLEAN /\ txs' \in 0..MaxTxs
      /\ signed' \subseteq BOOLEAN /\ DOMAIN request' = Clients
    BY <1>0 DEF Inv
<1> QED
    BY <1>1, <1>2, <1>3, <1>4, <1>5 DEF Inv

(* Tokens change hands: nobody's transaction in hand loses its inputs,     *)
(* because the giver has none and the receiver has more.                   *)
LEMMA TransferInv ==
    ASSUME Inv, NEW from \in Clients, NEW to \in Clients, NEW asset \in Tokens, NEW n,
           TransferTokens(from, to, asset, n)
    PROVE  Inv' /\ UNCHANGED Lifecycle!vars
<1> DEFINE b1 == [holdings[from] EXCEPT ![asset] = @ - n]
           h1 == [holdings EXCEPT ![from] = b1]
           b2 == [holdings[to] EXCEPT ![asset] = @ + n]
<1>1. /\ holdings \in [Clients -> [Tokens -> Nat]] /\ from # to /\ n \in 1..holdings[from][asset]
      /\ holdings' = [holdings EXCEPT ![from][asset] = @ - n, ![to][asset] = @ + n]
      /\ request[from] = Idle
      /\ UNCHANGED <<utxos, state, severed, txs, height, signed, request>>
    BY DEF TransferTokens, Inv
<1>2. n \in Nat /\ n <= holdings[from][asset] /\ holdings[from][asset] \in Nat
    BY <1>1
<1>3. b1 \in [Tokens -> Nat] /\ b2 \in [Tokens -> Nat]
    BY <1>1, <1>2
<1>4. h1 \in [Clients -> [Tokens -> Nat]] /\ h1[to] = holdings[to]
    BY <1>1, <1>3
<1>5. holdings' = [h1 EXCEPT ![to] = b2]
    BY <1>1, <1>3, <1>4
<1>6. /\ \A a \in Tokens : a # asset => b1[a] = holdings[from][a] /\ b2[a] = h1[to][a]
      /\ b1[asset] = holdings[from][asset] - n /\ b2[asset] = h1[to][asset] + n
    BY <1>1, <1>4
<1>7. \A a \in Tokens : holdings'[to][a] >= holdings[to][a]
    BY <1>1, <1>2, <1>3, <1>4, <1>5, <1>6
<1>8. \A d \in Clients : d # from /\ d # to => holdings'[d] = holdings[d]
    BY <1>1
<1> HIDE DEF b1, b2
<1>9. ASSUME NEW a \in Tokens
      PROVE  Supply(a)' = Supply(a) /\ holdings' \in [Clients -> [Tokens -> Nat]]
    <2>0. h1 = [holdings EXCEPT ![from] = b1]
        OBVIOUS
    <2> HIDE DEF h1
    <2>1. SupplyOf(h1, a) = SupplyOf(holdings, a) + (b1[a] - holdings[from][a])
        <3>1. /\ holdings \in [Clients -> [Tokens -> Nat]] /\ h1[from] = b1
              /\ \A d \in Clients \ {from} : h1[d] = holdings[d]
            BY <1>1, <2>0
        <3>2. SupplyOf(h1, a) = SupplyOf(holdings, a) + (h1[from][a] - holdings[from][a])
            BY <1>4, <3>1, SupplyMoves
        <3> QED BY <3>1, <3>2
    <2>2. /\ SupplyOf(holdings', a) = SupplyOf(h1, a) + (b2[a] - h1[to][a])
          /\ holdings' \in [Clients -> [Tokens -> Nat]]
        <3>1. /\ holdings' \in [Clients -> [Tokens -> Nat]] /\ holdings'[to] = b2
              /\ \A d \in Clients \ {to} : holdings'[d] = h1[d]
            BY <1>3, <1>4, <1>5
        <3>2. SupplyOf(holdings', a) = SupplyOf(h1, a) + (holdings'[to][a] - h1[to][a])
            BY <1>4, <3>1, SupplyMoves
        <3> QED BY <3>1, <3>2
    <2>3. SupplyOf(holdings, a) \in Nat
        BY <1>1, HoldsNoMore
    <2>4. (b1[a] - holdings[from][a]) + (b2[a] - h1[to][a]) = 0
          /\ b1[a] - holdings[from][a] \in Int /\ b2[a] - h1[to][a] \in Int
        BY <1>1, <1>2, <1>3, <1>4, <1>6
    <2>5. SupplyOf(holdings', a) = SupplyOf(holdings, a)
        BY <2>1, <2>2, <2>3, <2>4
    <2> QED BY <2>2, <2>5 DEF Supply, SupplyOf, SumFunction
<1>10. "YES" \in Tokens /\ "NO" \in Tokens
    BY DEF Tokens
<1>11. /\ UNCHANGED Lifecycle!vars /\ LP!Inv'
       /\ Supply("YES")' <= U64Max /\ Supply("NO")' <= U64Max
    BY <1>1, <1>9, <1>10, Quiet
<1>12. RequestsOK'
    <2> SUFFICES ASSUME NEW d \in Clients
                 PROVE  /\ request'[d].stage \in {"idle", "broadcast", "finalized"}
                        /\ request'[d].stage = "broadcast" =>
                              RequestOK(request'[d].tx, holdings'[d], utxos', txs', signed')
        BY DEF RequestsOK
    <2>1. request'[d] = request[d] /\ request[d].stage \in {"idle", "broadcast", "finalized"}
        BY <1>1 DEF Inv, RequestsOK
    <2>2. ASSUME request[d].stage = "broadcast"
          PROVE  RequestOK(request[d].tx, holdings'[d], utxos, txs, signed)
        <3>1. RequestOK(request[d].tx, holdings[d], utxos, txs, signed)
            BY <2>2 DEF Inv, RequestsOK
        <3>2. d # from
            BY <1>1, <2>2 DEF Idle
        <3>3. CASE d # to
            BY <1>8, <3>1, <3>2, <3>3
        <3>4. CASE d = to
            <4>2. \A a \in Tokens : WalletAmount(request[d].tx.ins, a) \in Nat
                                    /\ WalletAmount(request[d].tx.ins, a) <= holdings[d][a]
                <5>1. \A a \in Tokens : holdings[d][a] \in Nat
                    BY <1>1
                <5> QED BY <3>1, <5>1 DEF RequestOK
            <4>3. \A a \in Tokens : holdings[d][a] \in Nat /\ holdings'[d][a] \in Nat
                BY <1>1, <1>9
            <4>4. \A a \in Tokens : WalletAmount(request[d].tx.ins, a) <= holdings'[d][a]
                BY <1>7, <3>4, <4>2, <4>3
            <4>5. \A a \in Tokens : WalletAmount(request[d].tx.ins, a) \in 0..holdings'[d][a]
                BY <4>2, <4>3, <4>4
            <4> QED BY <3>1, <4>5 DEF RequestOK
        <3> QED BY <3>3, <3>4
    <2> QED BY <1>1, <2>1, <2>2
<1>13. /\ Shape(utxos', state', txs') /\ Justified(state', signed', height')
       /\ holdings' \in [Clients -> [Tokens -> Nat]]
       /\ severed' \in BOOLEAN /\ txs' \in 0..MaxTxs /\ height' \in 0..MaxHeight
       /\ signed' \subseteq BOOLEAN /\ DOMAIN request' = Clients
    BY <1>1, <1>9, <1>10 DEF Inv
<1> QED
    BY <1>11, <1>12, <1>13 DEF Inv

-----------------------------------------------------------------------------
(* What the builders put into a transaction. *)

OutRec == [script : Script, asset : Asset \cup {"NULL"}, amount : Nat, conf : BOOLEAN]

(* What an input or output moves of a token in or out of a wallet. *)
Carries(e, a) == IF e.script = "Wallet" /\ e.asset = a THEN e.amount ELSE 0

(* The indices of a sequence are finitely many. *)
LEMMA FinitePrefix == \A m \in Nat : IsFiniteSet(1..m)
BY FS_Interval

(* WalletAmount as a sum over indices. *)
LEMMA WalletIs ==
    ASSUME NEW s, NEW a
    PROVE  WalletAmount(s, a) =
              SumFunctionOnSet([k \in DOMAIN s |-> Carries(s[k], a)], DOMAIN s)
<1>1. DOMAIN [k \in DOMAIN s |-> Carries(s[k], a)] = DOMAIN s
    OBVIOUS
<1> QED
    BY <1>1, Zenon DEF WalletAmount, SumFunction, Carries

(* No wallet output of the asset. *)
LEMMA WalletNone ==
    ASSUME NEW s, NEW a, IsFiniteSet(DOMAIN s), \A k \in DOMAIN s : Carries(s[k], a) = 0
    PROVE  WalletAmount(s, a) = 0
<1> DEFINE f == [k \in DOMAIN s |-> Carries(s[k], a)]
<1>1. WalletAmount(s, a) = SumFunctionOnSet(f, DOMAIN s)
    BY WalletIs
<1>2. \A k \in DOMAIN s : f[k] = 0
    OBVIOUS
<1> HIDE DEF f
<1> QED
    BY <1>1, <1>2, SumZero

(* One of them. *)
LEMMA WalletOne ==
    ASSUME NEW s, NEW a, IsFiniteSet(DOMAIN s), NEW p \in DOMAIN s, Carries(s[p], a) \in Nat,
           \A k \in DOMAIN s \ {p} : Carries(s[k], a) = 0
    PROVE  WalletAmount(s, a) = Carries(s[p], a)
<1> DEFINE f == [k \in DOMAIN s |-> Carries(s[k], a)]
<1>1. WalletAmount(s, a) = SumFunctionOnSet(f, DOMAIN s)
    BY WalletIs
<1>2. f[p] = Carries(s[p], a) /\ f[p] \in Int /\ \A k \in DOMAIN s \ {p} : f[k] = 0
    OBVIOUS
<1> HIDE DEF f
<1> QED
    BY <1>1, <1>2, SumSingle

(* One output more. *)
LEMMA WalletAppend ==
    ASSUME NEW s \in Seq(OutRec), NEW e \in OutRec, NEW a
    PROVE  /\ WalletAmount(s \o <<e>>, a) = WalletAmount(s, a) + Carries(e, a)
           /\ WalletAmount(s, a) \in Nat
<1> DEFINE t == s \o <<e>>
           n == Len(s)
           f == [k \in DOMAIN s |-> Carries(s[k], a)]
           g == [k \in DOMAIN t |-> Carries(t[k], a)]
<1>1. /\ n \in Nat /\ DOMAIN s = 1..n /\ DOMAIN t = 1..n + 1
      /\ t[n + 1] = e /\ \A k \in 1..n : t[k] = s[k] /\ s[k] \in OutRec
    OBVIOUS
<1>2. \A o \in OutRec : Carries(o, a) \in Nat
    BY DEF OutRec, Carries
<1>3. /\ WalletAmount(s, a) = SumFunctionOnSet(f, DOMAIN s)
      /\ WalletAmount(t, a) = SumFunctionOnSet(g, DOMAIN t)
    BY WalletIs
<1> HIDE DEF t, n
<1>4. /\ \A k \in 1..n : f[k] = g[k] /\ f[k] \in Nat
      /\ g[n + 1] = Carries(e, a)
      /\ \A k \in 1..n + 1 : g[k] \in Int
    BY <1>1, <1>2
<1> HIDE DEF f, g
<1>5. SumFunctionOnSet(g, 1..n + 1) = SumFunctionOnSet(g, 1..n) + g[n + 1]
    BY <1>1, <1>4, SumUpTo
<1> DEFINE S == 1..n
<1>6. IsFiniteSet(S)
    BY <1>1, FS_Interval
<1>7. \A k \in S : f[k] = g[k] /\ f[k] \in Nat /\ f[k] \in Int
    BY <1>4
<1>8. SumFunctionOnSet(g, 1..n + 1) = SumFunctionOnSet(g, S) + g[n + 1]
    BY <1>5
<1> HIDE DEF S
<1>9. SumFunctionOnSet(g, S) = SumFunctionOnSet(f, S) /\ SumFunctionOnSet(f, S) \in Nat
    BY <1>6, <1>7, SumAgree, SumType
<1>10. DOMAIN s = S
    BY <1>1 DEF S
<1>11. /\ WalletAmount(s, a) = SumFunctionOnSet(f, S)
       /\ WalletAmount(t, a) = SumFunctionOnSet(g, S) + g[n + 1]
    BY <1>1, <1>3, <1>8, <1>10, Zenon
<1>12. WalletAmount(t, a) = WalletAmount(s, a) + Carries(e, a) /\ WalletAmount(s, a) \in Nat
    BY <1>4, <1>9, <1>11
<1> QED
    BY <1>12 DEF t

(* Outputs that start with base, go on with change and fee only, and pay   *)
(* so many YES and NO tokens to wallets.                                   *)
Outputs(s, base, yes, no) ==
    /\ s \in Seq(OutRec)
    /\ Len(base) \in Nat /\ Len(base) <= Len(s)
    /\ \A k \in 1..Len(base) : s[k] = base[k]
    /\ \A k \in Len(base) + 1..Len(s) : s[k].script \in {"Wallet", "Fee"}
    /\ WalletAmount(s, "YES") = yes /\ WalletAmount(s, "NO") = no

(* One more output to a wallet or the fee after the market's own. *)
LEMMA OutputsAppend ==
    ASSUME NEW s, NEW base, NEW yes \in Nat, NEW no \in Nat, Outputs(s, base, yes, no),
           NEW e \in OutRec, e.script \in {"Wallet", "Fee"}
    PROVE  Outputs(s \o <<e>>, base, yes + Carries(e, "YES"), no + Carries(e, "NO"))
<1> DEFINE t == s \o <<e>>
<1>0. s \in Seq(OutRec) /\ Len(base) \in Nat /\ Len(base) <= Len(s) /\ Len(s) \in Nat
    BY DEF Outputs
<1>1. /\ t \in Seq(OutRec) /\ Len(t) = Len(s) + 1
      /\ \A k \in 1..Len(s) : t[k] = s[k]
      /\ t[Len(s) + 1] = e
    BY <1>0
<1>2. /\ WalletAmount(t, "YES") = yes + Carries(e, "YES")
      /\ WalletAmount(t, "NO") = no + Carries(e, "NO")
    BY <1>0, WalletAppend DEF Outputs
<1> HIDE DEF t
<1>3. \A k \in 1..Len(base) : t[k] = base[k]
    BY <1>0, <1>1 DEF Outputs
<1>4. \A k \in Len(base) + 1..Len(t) : t[k].script \in {"Wallet", "Fee"}
    <2> SUFFICES ASSUME NEW k \in Len(base) + 1..Len(t) PROVE t[k].script \in {"Wallet", "Fee"}
        OBVIOUS
    <2>1. k = Len(s) + 1 \/ (k \in Len(base) + 1..Len(s) /\ k \in 1..Len(s))
        BY <1>0, <1>1
    <2> QED BY <1>1, <2>1 DEF Outputs
<1>5. Len(base) <= Len(t)
    BY <1>0, <1>1
<1>6. Outputs(t, base, yes + Carries(e, "YES"), no + Carries(e, "NO"))
    BY <1>0, <1>1, <1>2, <1>3, <1>4, <1>5 DEF Outputs
<1> QED
    BY <1>6 DEF t

(* Change of a token is paid to its wallet, change in collateral and the   *)
(* fee move no tokens.                                                     *)
LEMMA OutputsChange ==
    ASSUME NEW s, NEW base, NEW yes \in Nat, NEW no \in Nat, Outputs(s, base, yes, no),
           NEW x \in Nat
    PROVE  /\ Outputs(s \o Change("YES", x), base, yes + x, no)
           /\ Outputs(s \o Change("NO", x), base, yes, no + x)
           /\ Outputs(s \o Change("COLLATERAL", x), base, yes, no)
           /\ Outputs(s \o <<fee_txout>>, base, yes, no)
<1>0. s \in Seq(OutRec)
    BY DEF Outputs
<1>1. ASSUME NEW asset \in {"YES", "NO", "COLLATERAL"}
      PROVE  Outputs(s \o Change(asset, x), base,
                     yes + (IF asset = "YES" THEN x ELSE 0), no + (IF asset = "NO" THEN x ELSE 0))
    <2>1. CASE x > 0
        <3> DEFINE e == explicit_txout(asset, x, "Wallet")
        <3>1. /\ e \in OutRec /\ e.script = "Wallet"
              /\ Carries(e, "YES") = (IF asset = "YES" THEN x ELSE 0)
              /\ Carries(e, "NO") = (IF asset = "NO" THEN x ELSE 0)
            BY DEF OutRec, Script, Asset, explicit_txout, Carries
        <3>2. s \o Change(asset, x) = s \o <<e>>
            BY <2>1 DEF Change
        <3> HIDE DEF e
        <3>3. Outputs(s \o <<e>>, base, yes + Carries(e, "YES"), no + Carries(e, "NO"))
            BY <3>1, OutputsAppend
        <3> QED BY <3>1, <3>2, <3>3
    <2>2. CASE x = 0
        <3>1. s \o Change(asset, x) = s
            BY <1>0, <2>2 DEF Change
        <3>2. /\ yes + (IF asset = "YES" THEN x ELSE 0) = yes
              /\ no + (IF asset = "NO" THEN x ELSE 0) = no
            BY <2>2
        <3> QED BY <3>1, <3>2
    <2> QED BY <2>1, <2>2
<1>2. Outputs(s \o <<fee_txout>>, base, yes, no)
    <2> DEFINE e == fee_txout
    <2>1. e \in OutRec /\ e.script = "Fee" /\ Carries(e, "YES") = 0 /\ Carries(e, "NO") = 0
        BY FeeAssumption DEF OutRec, Script, Asset, explicit_txout, Carries, fee_txout
    <2> HIDE DEF e
    <2>2. Outputs(s \o <<e>>, base, yes + Carries(e, "YES"), no + Carries(e, "NO"))
        BY <2>1, OutputsAppend
    <2>3. yes + Carries(e, "YES") = yes /\ no + Carries(e, "NO") = no
        BY <2>1
    <2> QED BY <2>2, <2>3 DEF e
<1>3. /\ Outputs(s \o Change("YES", x), base, yes + x, no + 0)
      /\ Outputs(s \o Change("NO", x), base, yes + 0, no + x)
      /\ Outputs(s \o Change("COLLATERAL", x), base, yes + 0, no + 0)
    BY <1>1
<1>4. yes + 0 = yes /\ no + 0 = no
    OBVIOUS
<1> QED
    BY <1>2, <1>3, <1>4

(* Outputs that pay no tokens to wallets. *)
LEMMA PlainOutputs ==
    ASSUME NEW base \in Seq(OutRec),
           \A k \in 1..Len(base) : Carries(base[k], "YES") = 0 /\ Carries(base[k], "NO") = 0
    PROVE  Outputs(base, base, 0, 0)
<1>1. DOMAIN base = 1..Len(base) /\ Len(base) \in Nat /\ IsFiniteSet(DOMAIN base)
    BY FS_Interval
<1>2. WalletAmount(base, "YES") = 0 /\ WalletAmount(base, "NO") = 0
    BY <1>1, WalletNone
<1>3. \A k \in Len(base) + 1..Len(base) : FALSE
    BY <1>1
<1> QED
    BY <1>1, <1>2, <1>3 DEF Outputs

(* What blinding makes of output o at position k, when the outputs at pos  *)
(* are the reissuance tokens.                                              *)
Blinded(o, k, pos) ==
    IF k \in pos
    THEN [script |-> o.script, amount |-> 1, conf |-> TRUE,
          asset  |-> IF k = 1 THEN "YES_RT" ELSE "NO_RT"]
    ELSE [o EXCEPT !.conf = (o.script = "Wallet")]

(* The outputs of the builders, blinded. *)
LEMMA BlindedIs ==
    /\ \A s : Blinded(reissuance_token_output(s), 1, {1, 2}) = RtOut(s, "YES_RT")
    /\ \A s : Blinded(reissuance_token_output(s), 2, {1, 2}) = RtOut(s, "NO_RT")
    /\ \A a, v, s, k, pos : k \notin pos =>
          Blinded(explicit_txout(a, v, s), k, pos) =
             [script |-> s, asset |-> a, amount |-> v, conf |-> (s = "Wallet")]
<1>1. ASSUME NEW s
      PROVE  /\ Blinded(reissuance_token_output(s), 1, {1, 2}) = RtOut(s, "YES_RT")
             /\ Blinded(reissuance_token_output(s), 2, {1, 2}) = RtOut(s, "NO_RT")
    BY DEF Blinded, reissuance_token_output, explicit_txout, RtOut
<1>2. ASSUME NEW a, NEW v, NEW s, NEW k, NEW pos, k \notin pos
      PROVE  Blinded(explicit_txout(a, v, s), k, pos) =
                [script |-> s, asset |-> a, amount |-> v, conf |-> (s = "Wallet")]
    BY <1>2 DEF Blinded, explicit_txout
<1> QED
    BY <1>1, <1>2

(* Collateral at a script of the market stays as it is. *)
LEMMA BlindedColl ==
    ASSUME NEW v, NEW s, s # "Wallet", NEW k, NEW pos, k \notin pos
    PROVE  Blinded(explicit_txout("COLLATERAL", v, s), k, pos) = CollOut(s, v)
<1>1. (s = "Wallet") = FALSE
    OBVIOUS
<1> QED
    BY <1>1 DEF Blinded, explicit_txout, CollOut

(* tx has the outputs outs, blinded. *)
Blinds(tx, outs, pos) ==
    /\ DOMAIN tx.outs = DOMAIN outs
    /\ \A k \in DOMAIN outs : tx.outs[k] = Blinded(outs[k], k, pos)

(* The outputs of tx are those of base, blinded, then others that are not  *)
(* the market's; they pay so many tokens to wallets.                       *)
Pays(tx, base, pos, yes, no) ==
    /\ DOMAIN tx.outs \subseteq Nat
    /\ \A k \in 1..Len(base) : k \in DOMAIN tx.outs /\ tx.outs[k] = Blinded(base[k], k, pos)
    /\ \A k \in DOMAIN tx.outs : tx.outs[k].script \in MarketSlot => k \in 1..Len(base)
    /\ WalletAmount(tx.outs, "YES") = yes /\ WalletAmount(tx.outs, "NO") = no

(* Blinding moves no script and no wallet amount. *)
LEMMA BlindsOutputs ==
    ASSUME NEW outs, NEW base, NEW yes \in Nat, NEW no \in Nat, Outputs(outs, base, yes, no),
           NEW pos, \A k \in pos : k \in 1..Len(base) /\ base[k].script # "Wallet",
           NEW tx, Blinds(tx, outs, pos)
    PROVE  Pays(tx, base, pos, yes, no)
<1> DEFINE t == tx.outs
<1>0. /\ outs \in Seq(OutRec) /\ Len(base) \in Nat /\ Len(base) <= Len(outs) /\ Len(outs) \in Nat
      /\ DOMAIN outs = 1..Len(outs)
    BY DEF Outputs
<1>1. DOMAIN t = DOMAIN outs
    BY DEF Blinds
<1>2. \A k \in DOMAIN outs : /\ t[k] = Blinded(outs[k], k, pos) /\ outs[k] \in OutRec
                             /\ t[k].script = outs[k].script
    <2>1. \A k \in DOMAIN outs : t[k] = Blinded(outs[k], k, pos) /\ outs[k] \in OutRec
        BY <1>0 DEF Blinds
    <2>2. ASSUME NEW o \in OutRec, NEW k PROVE Blinded(o, k, pos).script = o.script
        BY DEF Blinded, OutRec
    <2> QED BY <2>1, <2>2
<1> HIDE DEF t
<1>3. \A k \in 1..Len(base) : k \in DOMAIN outs /\ outs[k] = base[k]
    BY <1>0 DEF Outputs
<1>4. DOMAIN t = 1..Len(outs)
    BY <1>0, <1>1
<1>5. ASSUME NEW k \in 1..Len(outs), t[k].script \in MarketSlot PROVE k \in 1..Len(base)
    <2>1. CASE k \in Len(base) + 1..Len(outs)
        BY <1>0, <1>2, <1>5, <2>1 DEF Outputs, MarketSlot
    <2> QED BY <1>0, <2>1
<1>6. ASSUME NEW a, a \in Tokens PROVE WalletAmount(t, a) = WalletAmount(outs, a)
    <2> DEFINE f == [k \in DOMAIN outs |-> Carries(outs[k], a)]
               g == [k \in DOMAIN t |-> Carries(t[k], a)]
               S == 1..Len(outs)
    <2>0. S = DOMAIN outs /\ S = DOMAIN t /\ IsFiniteSet(S)
        BY <1>0, <1>4, FS_Interval
    <2>1. /\ WalletAmount(outs, a) = SumFunctionOnSet(f, DOMAIN outs)
          /\ WalletAmount(t, a) = SumFunctionOnSet(g, DOMAIN t)
        BY WalletIs
    <2>2. \A k \in S : f[k] = g[k]
        <3> SUFFICES ASSUME NEW k \in S PROVE Carries(outs[k], a) = Carries(t[k], a)
            BY <2>0
        <3>0. k \in DOMAIN outs /\ t[k] = Blinded(outs[k], k, pos) /\ outs[k] \in OutRec
            BY <1>2, <2>0
        <3>1. CASE k \in pos
            <4>1. outs[k].script # "Wallet"
                BY <1>3, <3>1
            <4> QED BY <1>2, <3>0, <4>1 DEF Carries
        <3>2. CASE k \notin pos
            BY <3>0, <3>2 DEF Carries, Blinded, OutRec
        <3> QED BY <3>1, <3>2
    <2> HIDE DEF f, g, S
    <2>3. SumFunctionOnSet(f, S) = SumFunctionOnSet(g, S)
        BY <2>0, <2>2, SumAgree
    <2> QED BY <2>0, <2>1, <2>3, Zenon
<1>7. WalletAmount(t, "YES") = yes /\ WalletAmount(t, "NO") = no
    BY <1>6 DEF Outputs, Tokens
<1>8. DOMAIN t \subseteq Nat
    <2>1. \A k \in 1..Len(outs) : k \in Nat
        BY <1>0
    <2> QED BY <1>4, <2>1
<1>9. \A k \in 1..Len(base) : k \in DOMAIN t /\ t[k] = Blinded(base[k], k, pos)
    BY <1>1, <1>2, <1>3
<1> QED
    BY <1>4, <1>5, <1>7, <1>8, <1>9 DEF t, Pays

(* blind_pset where the first two outputs are reissuance tokens, and where *)
(* none is.                                                                *)
TokenBlind(p) == blind_pset(p, TRUE)
PlainBlind(p) == blind_pset(p, FALSE)

IsPset(p, ins, outs, lock) == p = [ins |-> ins, outs |-> outs, lock |-> lock]

RtPos == {1, 2}

(* The fields blinding leaves alone, and the outputs it makes. *)
LEMMA TokenBlindFields ==
    ASSUME NEW ins, NEW outs, NEW lock, NEW p, IsPset(p, ins, outs, lock),
           NEW tx, tx = TokenBlind(p)
    PROVE  tx.ins = ins /\ tx.lock = lock /\ Blinds(tx, outs, RtPos)
BY DEF IsPset, TokenBlind, blind_pset, Blinded, Blinds, RtPos

(* The same where no output is a reissuance token. *)
LEMMA PlainBlindFields ==
    ASSUME NEW ins, NEW outs, NEW lock, NEW p, IsPset(p, ins, outs, lock),
           NEW tx, tx = PlainBlind(p)
    PROVE  tx.ins = ins /\ tx.lock = lock /\ Blinds(tx, outs, {})
BY DEF IsPset, PlainBlind, blind_pset, Blinded, Blinds

(* The outputs at the market's scripts are those of w when base has them.  *)
LEMMA PaysCreates ==
    ASSUME NEW tx, NEW base, NEW pos, NEW yes, NEW no, Pays(tx, base, pos, yes, no), NEW w,
           \A k \in DOMAIN w : k \in 1..Len(base),
           \A k \in 1..Len(base) : base[k].script \in MarketSlot =>
               /\ k \in DOMAIN w /\ w[k].script \in MarketSlot
               /\ w[k] = Blinded(base[k], k, pos),
           \A k \in DOMAIN w : w[k].script \in MarketSlot => base[k].script \in MarketSlot,
           \A k \in 1..Len(base) : Blinded(base[k], k, pos).script = base[k].script
    PROVE  Creates(tx, w)
<1>1. ASSUME NEW k PROVE k \in MarketOuts(tx) <=> k \in DOMAIN w /\ w[k].script \in MarketSlot
    BY DEF MarketOuts, Pays
<1>2. \A k \in MarketOuts(tx) : tx.outs[k] = w[k]
    BY DEF MarketOuts, Pays
<1>3. MarketOuts(tx) = {k \in DOMAIN w : w[k].script \in MarketSlot}
    BY <1>1
<1> QED
    BY <1>2, <1>3 DEF Creates

(* The builders that call it put the fee last themselves. *)
LEMMA FeeIsLast ==
    ASSUME NEW s \in Seq(OutRec), NEW ins, NEW lock, NEW outs, outs = s \o <<fee_txout>>,
           NEW p, IsPset(p, ins, outs, lock)
    PROVE  ensure_fee_output_last(p) = p
<1>1. Len(outs) = Len(s) + 1 /\ outs[Len(s) + 1] = fee_txout /\ Len(s) \in Nat
    OBVIOUS
<1>2. outs[Len(outs)].script = "Fee"
    BY <1>1 DEF fee_txout, explicit_txout
<1>3. p.outs = outs
    BY DEF IsPset
<1> QED
    BY <1>2, <1>3 DEF ensure_fee_output_last

-----------------------------------------------------------------------------
(* The outputs a scan hands to a builder. *)

(* Of a bundle, each asset once. *)
LEMMA BundleIs ==
    ASSUME Shape(utxos, state, txs)
    PROVE  LET b == classify_covenant_utxos IN
           /\ state = "Dormant" => \E y, n \in Ids(txs) :
                 /\ b.yes = Rt(y, "DormantYesRt", "YES_RT") /\ b.no = Rt(n, "DormantNoRt", "NO_RT")
                 /\ b.yes \in utxos /\ b.no \in utxos
           /\ state = "Unresolved" => \E y, n, k \in Ids(txs), v \in 1..U64Max :
                 /\ b.yes = Rt(y, "UnresolvedYesRt", "YES_RT")
                 /\ b.no = Rt(n, "UnresolvedNoRt", "NO_RT")
                 /\ b.coll = Coll(k, "UnresolvedCollateral", v)
                 /\ b.yes \in utxos /\ b.no \in utxos /\ b.coll \in utxos
           /\ state \in Terminal /\ utxos # {} => \E k \in Ids(txs), v \in 1..U64Max :
                 b.coll = Coll(k, TerminalSlot(state), v) /\ b.coll \in utxos
<1>1. ASSUME NEW asset, NEW u \in utxos, u.asset = asset, \A w \in utxos : w.asset = asset => w = u
      PROVE  UtxoOf(asset) = u
    BY <1>1 DEF UtxoOf
<1>2. ASSUME state = "Dormant"
      PROVE  \E y, n \in Ids(txs) :
                /\ UtxoOf("YES_RT") = Rt(y, "DormantYesRt", "YES_RT")
                /\ UtxoOf("NO_RT") = Rt(n, "DormantNoRt", "NO_RT")
                /\ UtxoOf("YES_RT") \in utxos /\ UtxoOf("NO_RT") \in utxos
    <2>1. PICK y, n \in Ids(txs) : utxos = DormantSet(y, n)
        BY <1>2 DEF Shape, Terminal
    <2> DEFINE yes == Rt(y, "DormantYesRt", "YES_RT")
               no == Rt(n, "DormantNoRt", "NO_RT")
    <2>2. yes \in utxos /\ yes.asset = "YES_RT" /\ \A w \in utxos : w.asset = "YES_RT" => w = yes
        BY <2>1 DEF DormantSet, Rt
    <2>3. no \in utxos /\ no.asset = "NO_RT" /\ \A w \in utxos : w.asset = "NO_RT" => w = no
        BY <2>1 DEF DormantSet, Rt
    <2> HIDE DEF yes, no
    <2>4. UtxoOf("YES_RT") = yes /\ UtxoOf("NO_RT") = no
        BY <1>1, <2>2, <2>3
    <2> QED BY <2>2, <2>3, <2>4 DEF yes, no
<1>3. ASSUME state = "Unresolved"
      PROVE  \E y, n, k \in Ids(txs), v \in 1..U64Max :
                /\ UtxoOf("YES_RT") = Rt(y, "UnresolvedYesRt", "YES_RT")
                /\ UtxoOf("NO_RT") = Rt(n, "UnresolvedNoRt", "NO_RT")
                /\ UtxoOf("COLLATERAL") = Coll(k, "UnresolvedCollateral", v)
                /\ UtxoOf("YES_RT") \in utxos /\ UtxoOf("NO_RT") \in utxos
                /\ UtxoOf("COLLATERAL") \in utxos
    <2>1. PICK y, n, k \in Ids(txs), v \in 1..U64Max : utxos = UnresolvedSet(y, n, k, v)
        BY <1>3 DEF Shape, Terminal
    <2> DEFINE yes == Rt(y, "UnresolvedYesRt", "YES_RT")
               no == Rt(n, "UnresolvedNoRt", "NO_RT")
               coll == Coll(k, "UnresolvedCollateral", v)
    <2>2. yes \in utxos /\ yes.asset = "YES_RT" /\ \A w \in utxos : w.asset = "YES_RT" => w = yes
        BY <2>1 DEF UnresolvedSet, Rt, Coll
    <2>3. no \in utxos /\ no.asset = "NO_RT" /\ \A w \in utxos : w.asset = "NO_RT" => w = no
        BY <2>1 DEF UnresolvedSet, Rt, Coll
    <2>4. coll \in utxos /\ coll.asset = "COLLATERAL"
          /\ \A w \in utxos : w.asset = "COLLATERAL" => w = coll
        BY <2>1 DEF UnresolvedSet, Rt, Coll
    <2> HIDE DEF yes, no, coll
    <2>5. UtxoOf("YES_RT") = yes /\ UtxoOf("NO_RT") = no /\ UtxoOf("COLLATERAL") = coll
        BY <1>1, <2>2, <2>3, <2>4
    <2> QED BY <2>2, <2>3, <2>4, <2>5 DEF yes, no, coll
<1>4. ASSUME state \in Terminal, utxos # {}
      PROVE  \E k \in Ids(txs), v \in 1..U64Max :
                UtxoOf("COLLATERAL") = Coll(k, TerminalSlot(state), v)
                /\ UtxoOf("COLLATERAL") \in utxos
    <2>1. PICK k \in Ids(txs), v \in 1..U64Max : utxos = CollSet(k, TerminalSlot(state), v)
        BY <1>4 DEF Shape, Terminal
    <2> DEFINE coll == Coll(k, TerminalSlot(state), v)
    <2>2. coll \in utxos /\ coll.asset = "COLLATERAL"
          /\ \A w \in utxos : w.asset = "COLLATERAL" => w = coll
        BY <2>1 DEF CollSet, Coll
    <2> HIDE DEF coll
    <2>3. UtxoOf("COLLATERAL") = coll
        BY <1>1, <2>2
    <2> QED BY <2>2, <2>3 DEF coll
<1> QED
    BY <1>2, <1>3, <1>4 DEF classify_covenant_utxos

(* Inputs that spend live outputs are what InputsOK asks for. *)
LEMMA SpendsLive ==
    ASSUME NEW us, NEW st, NEW top, Shape(us, st, top), NEW tx,
           \A k \in CovenantInputs(tx) : Prevout(tx.ins[k]) \in us
    PROVE  InputsOK(tx, us, top)
<1> SUFFICES ASSUME NEW k \in CovenantInputs(tx)
             PROVE  /\ tx.ins[k].id \in Ids(top)
                    /\ \A u \in us : u.id = tx.ins[k].id => u = Prevout(tx.ins[k])
    BY DEF InputsOK
<1>1. Prevout(tx.ins[k]) \in us /\ Prevout(tx.ins[k]).id = tx.ins[k].id
    BY DEF Prevout
<1> QED
    BY <1>1, ShapeIds


IssuesOuts(outs, n, total, x, y) ==
    outs = IssuanceOuts(n, total) \o Change("COLLATERAL", x) \o Change("COLLATERAL", y)

(* The outputs of an issuance: the bundle, and n tokens of each kind. *)
LEMMA IssuanceTx ==
    ASSUME NEW n \in Nat, NEW total \in Nat, NEW x \in Nat, NEW y \in Nat, NEW outs,
           IssuesOuts(outs, n, total, x, y),
           NEW tx, Blinds(tx, outs, RtPos)
    PROVE  /\ DOMAIN tx.outs \subseteq Nat
           /\ Creates(tx, UnresolvedOuts(total))
           /\ n \in OutAmounts(tx)
           /\ WalletAmount(tx.outs, "YES") = n /\ WalletAmount(tx.outs, "NO") = n
<1> DEFINE base == IssuanceOuts(n, total)
           pos == RtPos
           w == UnresolvedOuts(total)
           o1 == reissuance_token_output("UnresolvedYesRt")
           o2 == reissuance_token_output("UnresolvedNoRt")
           o3 == explicit_txout("COLLATERAL", total, "UnresolvedCollateral")
           o4 == explicit_txout("YES", n, "Wallet")
           o5 == explicit_txout("NO", n, "Wallet")
           o6 == fee_txout
<1>1. o1 \in OutRec /\ o2 \in OutRec /\ o3 \in OutRec /\ o4 \in OutRec /\ o5 \in OutRec /\ o6 \in OutRec
    BY FeeAssumption DEF OutRec, Script, MarketSlot, Asset, explicit_txout, fee_txout,
                         reissuance_token_output
<1>2. /\ \A a \in Tokens : Carries(o1, a) = 0 /\ Carries(o2, a) = 0 /\ Carries(o3, a) = 0
                           /\ Carries(o6, a) = 0
      /\ Carries(o4, "YES") = n /\ Carries(o4, "NO") = 0
      /\ Carries(o5, "YES") = 0 /\ Carries(o5, "NO") = n
    BY DEF Tokens, Carries, explicit_txout, fee_txout, reissuance_token_output
<1>3. /\ o1.script = "UnresolvedYesRt" /\ o2.script = "UnresolvedNoRt"
      /\ o3.script = "UnresolvedCollateral" /\ o4.script = "Wallet" /\ o5.script = "Wallet"
      /\ o6.script = "Fee"
    BY DEF explicit_txout, fee_txout, reissuance_token_output
<1>4. base = <<o1, o2, o3, o4, o5, o6>>
    BY DEF IssuanceOuts
<1>5. /\ DOMAIN w = 1..3
      /\ w[1] = RtOut("UnresolvedYesRt", "YES_RT") /\ w[2] = RtOut("UnresolvedNoRt", "NO_RT")
      /\ w[3] = CollOut("UnresolvedCollateral", total)
      /\ \A k \in 1..3 : w[k].script \in MarketSlot
    BY DEF UnresolvedOuts, RtOut, CollOut, MarketSlot
<1>6. Blinded(o1, 1, pos) = w[1]
    BY <1>5, BlindedIs DEF RtPos
<1>7. Blinded(o2, 2, pos) = w[2]
    BY <1>5, BlindedIs DEF RtPos
<1>8. Blinded(o3, 3, pos) = w[3]
    BY <1>5, BlindedColl DEF RtPos
<1>9. Blinded(o4, 4, pos).amount = n /\ Blinded(o4, 4, pos).script = "Wallet"
    BY DEF Blinded, explicit_txout, RtPos
<1>10. Blinded(o5, 5, pos).script = "Wallet" /\ Blinded(o6, 6, pos).script = "Fee"
    BY DEF Blinded, explicit_txout, fee_txout, RtPos
<1>11. Blinded(o1, 1, pos).script = o1.script /\ Blinded(o2, 2, pos).script = o2.script
       /\ Blinded(o3, 3, pos).script = o3.script
    BY <1>3, <1>5, <1>6, <1>7, <1>8 DEF RtOut, CollOut
<1>12. \A k \in pos : k = 1 \/ k = 2
    BY DEF RtPos
<1>13. outs = (base \o Change("COLLATERAL", x)) \o Change("COLLATERAL", y) /\ Blinds(tx, outs, pos)
    BY DEF IssuesOuts
<1> HIDE DEF o1, o2, o3, o4, o5, o6, base, pos, w
<1>14. /\ base \in Seq(OutRec) /\ Len(base) = 6 /\ DOMAIN base = 1..6
      /\ base[1] = o1 /\ base[2] = o2 /\ base[3] = o3 /\ base[4] = o4 /\ base[5] = o5 /\ base[6] = o6
    BY <1>1, <1>4
<1>15. Outputs(base, base, n, n)
    <2>1. IsFiniteSet(DOMAIN base) /\ 4 \in DOMAIN base /\ 5 \in DOMAIN base
        BY <1>14, FS_Interval
    <2>2. WalletAmount(base, "YES") = n
        <3>1. \A k \in DOMAIN base \ {4} : Carries(base[k], "YES") = 0
            BY <1>2, <1>14 DEF Tokens
        <3> QED BY <1>2, <1>14, <2>1, <3>1, WalletOne
    <2>3. WalletAmount(base, "NO") = n
        <3>1. \A k \in DOMAIN base \ {5} : Carries(base[k], "NO") = 0
            BY <1>2, <1>14 DEF Tokens
        <3> QED BY <1>2, <1>14, <2>1, <3>1, WalletOne
    <2> QED BY <1>14, <2>2, <2>3 DEF Outputs
<1>16. Outputs(outs, base, n, n)
    <2>1. Outputs(base \o Change("COLLATERAL", x), base, n, n)
        BY <1>15, OutputsChange
    <2>2. Outputs((base \o Change("COLLATERAL", x)) \o Change("COLLATERAL", y), base, n, n)
        BY <2>1, OutputsChange
    <2> QED BY <1>13, <2>2
<1>17. Pays(tx, base, pos, n, n)
    <2>1. \A k \in pos : k \in 1..Len(base) /\ base[k].script # "Wallet"
        BY <1>3, <1>12, <1>14
    <2> QED BY <1>13, <1>16, <2>1, BlindsOutputs
<1>18. \A k \in 1..Len(base) : k = 1 \/ k = 2 \/ k = 3 \/ k = 4 \/ k = 5 \/ k = 6
    BY <1>14
<1>19. Creates(tx, w)
    <2>1. \A k \in DOMAIN w : k \in 1..Len(base)
        BY <1>5, <1>14
    <2>2. \A k \in 1..Len(base) : base[k].script \in MarketSlot =>
               /\ k \in DOMAIN w /\ w[k].script \in MarketSlot
               /\ w[k] = Blinded(base[k], k, pos)
        BY <1>3, <1>5, <1>6, <1>7, <1>8, <1>14, <1>18 DEF MarketSlot
    <2>3. \A k \in DOMAIN w : w[k].script \in MarketSlot => base[k].script \in MarketSlot
        BY <1>3, <1>5, <1>14 DEF MarketSlot
    <2>4. \A k \in 1..Len(base) : Blinded(base[k], k, pos).script = base[k].script
        BY <1>3, <1>9, <1>10, <1>11, <1>14, <1>18
    <2> QED BY <1>17, <2>1, <2>2, <2>3, <2>4, PaysCreates
<1>20. n \in OutAmounts(tx)
    <2>1. 4 \in 1..Len(base)
        BY <1>14
    <2>2. 4 \in DOMAIN tx.outs /\ tx.outs[4].amount = n
        BY <1>9, <1>14, <1>17, <2>1 DEF Pays
    <2> QED BY <2>2 DEF OutAmounts
<1> QED
    BY <1>17, <1>19, <1>20 DEF Pays, w

(* Covenant inputs that spend live outputs, then wallet inputs. *)
LEMMA InputsAre ==
    ASSUME NEW us, NEW st, NEW top, Shape(us, st, top), NEW tx, NEW slots,
           \A k \in DOMAIN slots : /\ k \in DOMAIN tx.ins
                                   /\ tx.ins[k].script = slots[k] /\ slots[k] \in MarketSlot
                                   /\ Prevout(tx.ins[k]) \in us,
           \A k \in DOMAIN tx.ins : k \notin DOMAIN slots => tx.ins[k].script = "Wallet"
    PROVE  SpendsSlots(tx, slots) /\ InputsOK(tx, us, top)
<1>1. ASSUME NEW k PROVE k \in CovenantInputs(tx) <=> k \in DOMAIN slots
    BY DEF CovenantInputs, MarketSlot
<1>2. CovenantInputs(tx) = DOMAIN slots
    BY <1>1
<1>3. \A k \in CovenantInputs(tx) : Prevout(tx.ins[k]) \in us
    BY <1>1
<1> QED
    BY <1>2, <1>3, SpendsLive DEF SpendsSlots

(* The inputs the builders add. *)
LEMMA InputKinds ==
    ASSUME NEW x
    PROVE  /\ \A id, s, a : /\ Prevout(InputWithIssuance(Rt(id, s, a), x)) = Rt(id, s, a)
                            /\ InputWithIssuance(Rt(id, s, a), x).script = s
           /\ \A id, s, v : /\ Prevout(InputWithIssuance(Coll(id, s, v), x)) = Coll(id, s, v)
                            /\ InputWithIssuance(Coll(id, s, v), x).script = s
                            /\ InputWithIssuance(Coll(id, s, v), x).amount = v
           /\ \A a, v : /\ InputWithIssuance(WalletUtxo(a, v), x).script = "Wallet"
                        /\ InputWithIssuance(WalletUtxo(a, v), x).asset = a
                        /\ InputWithIssuance(WalletUtxo(a, v), x).amount = v
BY DEF InputWithIssuance, Prevout, Rt, Coll, WalletUtxo

(* A first issuance. *)
LEMMA InitialIssueOK ==
    ASSUME Shape(utxos, state, txs), state = "Dormant",
           NEW n \in Nat, Fits(required_collateral(n)), NEW wallet, NEW fee,
           wallet - required_collateral(n) \in Nat, fee - FeeAmount \in Nat,
           NEW h \in [Tokens -> Nat], NEW p, NEW tx, tx = TokenBlind(p),
           p = build_initial_issuance_pset(classify_covenant_utxos, n, wallet, fee)
    PROVE  RequestOK(tx, h, utxos, txs, signed)
<1> DEFINE b == classify_covenant_utxos
           total == required_collateral(n)
           i1 == InputWithIssuance(b.yes, {n})
           i2 == InputWithIssuance(b.no, {n})
           i3 == add_pset_input(WalletUtxo("COLLATERAL", wallet))
           i4 == add_pset_input(WalletUtxo("COLLATERAL", fee))
           ins == <<i1, i2, i3, i4>>
           x == wallet - total
           y == fee - FeeAmount
           outs == IssuanceOuts(n, total) \o Change("COLLATERAL", x) \o Change("COLLATERAL", y)
           slots == <<"DormantYesRt", "DormantNoRt">>
<1>1. PICK yes, no \in Ids(txs) :
          /\ b.yes = Rt(yes, "DormantYesRt", "YES_RT") /\ b.no = Rt(no, "DormantNoRt", "NO_RT")
          /\ b.yes \in utxos /\ b.no \in utxos
    BY BundleIs
<1>2. /\ i1.script = "DormantYesRt" /\ i2.script = "DormantNoRt"
      /\ Prevout(i1) \in utxos /\ Prevout(i2) \in utxos
    BY <1>1, InputKinds
<1>3. i3.script = "Wallet" /\ i4.script = "Wallet" /\ i3.asset = "COLLATERAL" /\ i4.asset = "COLLATERAL"
    BY InputKinds DEF add_pset_input
<1>4. IsPset(p, ins, outs, 0)
    BY DEF build_initial_issuance_pset, IsPset
<1>5. total \in Nat /\ x \in Nat /\ y \in Nat
    BY DEF Fits
<1>6. DOMAIN slots = 1..2 /\ slots[1] = "DormantYesRt" /\ slots[2] = "DormantNoRt"
      /\ \A k \in 1..2 : slots[k] \in MarketSlot
    BY DEF MarketSlot
<1> HIDE DEF b, i1, i2, i3, i4
<1>7. DOMAIN ins = 1..4 /\ ins[1] = i1 /\ ins[2] = i2 /\ ins[3] = i3 /\ ins[4] = i4
    OBVIOUS
<1>8. IssuesOuts(outs, n, total, x, y)
    BY DEF IssuesOuts
<1>s. slots = <<"DormantYesRt", "DormantNoRt">>
    OBVIOUS
<1>t. total = required_collateral(n)
    OBVIOUS
<1> HIDE DEF ins, outs, x, y, total, slots
<1>9. tx.ins = ins /\ Blinds(tx, outs, RtPos)
    BY <1>4, TokenBlindFields
<1>10. SpendsSlots(tx, slots) /\ InputsOK(tx, utxos, txs)
    <2>1. \A k \in DOMAIN slots : /\ k \in DOMAIN tx.ins
                                  /\ tx.ins[k].script = slots[k] /\ slots[k] \in MarketSlot
                                  /\ Prevout(tx.ins[k]) \in utxos
        BY <1>2, <1>6, <1>7, <1>9
    <2>2. \A k \in DOMAIN tx.ins : k \notin DOMAIN slots => tx.ins[k].script = "Wallet"
        BY <1>3, <1>6, <1>7, <1>9
    <2> QED BY <2>1, <2>2, InputsAre
<1>11. \A a \in Tokens : WalletAmount(tx.ins, a) = 0
    <2> SUFFICES ASSUME NEW a \in Tokens PROVE WalletAmount(tx.ins, a) = 0
        OBVIOUS
    <2>1. \A k \in DOMAIN ins : Carries(ins[k], a) = 0
        BY <1>2, <1>3, <1>7 DEF Carries, Tokens
    <2>2. IsFiniteSet(DOMAIN ins)
        BY <1>7, FinitePrefix
    <2> QED BY <1>9, <2>1, <2>2, WalletNone
<1>12. /\ DOMAIN tx.outs \subseteq Nat /\ Creates(tx, UnresolvedOuts(total)) /\ n \in OutAmounts(tx)
       /\ WalletAmount(tx.outs, "YES") = n /\ WalletAmount(tx.outs, "NO") = n
    BY <1>5, <1>8, <1>9, IssuanceTx
<1>13. InitialIssue(tx, n)
    BY <1>10, <1>11, <1>12, <1>s, <1>t DEF InitialIssue, Moves, Tokens
<1>14. \A a \in Tokens : WalletAmount(tx.ins, a) \in 0..h[a]
    BY <1>11
<1>15. EffectOK(tx, signed)
    BY <1>12, <1>13 DEF EffectOK
<1> QED
    BY <1>10, <1>12, <1>14, <1>15 DEF RequestOK

(* A further issuance. *)
LEMMA SubsequentIssueOK ==
    ASSUME Shape(utxos, state, txs), state = "Unresolved",
           NEW n \in Nat, required_collateral(n) \in Nat, NEW wallet, NEW fee,
           Fits(classify_covenant_utxos.coll.amount + required_collateral(n)),
           wallet - required_collateral(n) \in Nat, fee - FeeAmount \in Nat,
           NEW h \in [Tokens -> Nat], NEW p, NEW tx, tx = TokenBlind(p),
           p = build_subsequent_issuance_pset(classify_covenant_utxos, n, wallet, fee)
    PROVE  RequestOK(tx, h, utxos, txs, signed)
<1> DEFINE b == classify_covenant_utxos
           price == required_collateral(n)
           total == b.coll.amount + price
           i1 == InputWithIssuance(b.yes, {n})
           i2 == InputWithIssuance(b.no, {n})
           i3 == add_pset_input(b.coll)
           i4 == add_pset_input(WalletUtxo("COLLATERAL", wallet))
           i5 == add_pset_input(WalletUtxo("COLLATERAL", fee))
           ins == <<i1, i2, i3, i4, i5>>
           x == wallet - price
           y == fee - FeeAmount
           outs == IssuanceOuts(n, total) \o Change("COLLATERAL", x) \o Change("COLLATERAL", y)
           slots == <<"UnresolvedYesRt", "UnresolvedNoRt", "UnresolvedCollateral">>
<1>1. PICK yes, no, k \in Ids(txs), v \in 1..U64Max :
          /\ b.yes = Rt(yes, "UnresolvedYesRt", "YES_RT")
          /\ b.no = Rt(no, "UnresolvedNoRt", "NO_RT")
          /\ b.coll = Coll(k, "UnresolvedCollateral", v)
          /\ b.yes \in utxos /\ b.no \in utxos /\ b.coll \in utxos
    BY BundleIs
<1>2. /\ i1.script = "UnresolvedYesRt" /\ i2.script = "UnresolvedNoRt"
      /\ i3.script = "UnresolvedCollateral"
      /\ Prevout(i1) \in utxos /\ Prevout(i2) \in utxos /\ Prevout(i3) \in utxos
      /\ i3.amount = b.coll.amount
    BY <1>1, InputKinds DEF add_pset_input, Coll
<1>3. i4.script = "Wallet" /\ i5.script = "Wallet" /\ i4.asset = "COLLATERAL" /\ i5.asset = "COLLATERAL"
    BY InputKinds DEF add_pset_input
<1>4. IsPset(p, ins, outs, 0)
    BY DEF build_subsequent_issuance_pset, IsPset
<1>5. total \in Nat /\ x \in Nat /\ y \in Nat /\ Fits(total)
    BY DEF Fits
<1>6. DOMAIN slots = 1..3 /\ slots[1] = "UnresolvedYesRt" /\ slots[2] = "UnresolvedNoRt"
      /\ slots[3] = "UnresolvedCollateral" /\ \A j \in 1..3 : slots[j] \in MarketSlot
    BY DEF MarketSlot
<1>e. total = b.coll.amount + required_collateral(n)
    OBVIOUS
<1> HIDE DEF b, i1, i2, i3, i4, i5
<1>7. DOMAIN ins = 1..5 /\ ins[1] = i1 /\ ins[2] = i2 /\ ins[3] = i3 /\ ins[4] = i4 /\ ins[5] = i5
    OBVIOUS
<1>8. IssuesOuts(outs, n, total, x, y)
    BY DEF IssuesOuts
<1>s. slots = <<"UnresolvedYesRt", "UnresolvedNoRt", "UnresolvedCollateral">>
    OBVIOUS
<1> HIDE DEF ins, outs, x, y, total, price, slots
<1>9. tx.ins = ins /\ Blinds(tx, outs, RtPos)
    BY <1>4, TokenBlindFields
<1>t. total = tx.ins[3].amount + required_collateral(n)
    BY <1>2, <1>7, <1>9, <1>e
<1>10. SpendsSlots(tx, slots) /\ InputsOK(tx, utxos, txs)
    <2>1. \A j \in DOMAIN slots : /\ j \in DOMAIN tx.ins
                                  /\ tx.ins[j].script = slots[j] /\ slots[j] \in MarketSlot
                                  /\ Prevout(tx.ins[j]) \in utxos
        BY <1>2, <1>6, <1>7, <1>9
    <2>2. \A j \in DOMAIN tx.ins : j \notin DOMAIN slots => tx.ins[j].script = "Wallet"
        BY <1>3, <1>6, <1>7, <1>9
    <2> QED BY <2>1, <2>2, InputsAre
<1>11. \A a \in Tokens : WalletAmount(tx.ins, a) = 0
    <2> SUFFICES ASSUME NEW a \in Tokens PROVE WalletAmount(tx.ins, a) = 0
        OBVIOUS
    <2>1. \A j \in DOMAIN ins : Carries(ins[j], a) = 0
        BY <1>2, <1>3, <1>7 DEF Carries, Tokens
    <2>2. IsFiniteSet(DOMAIN ins)
        BY <1>7, FinitePrefix
    <2> QED BY <1>9, <2>1, <2>2, WalletNone
<1>12. /\ DOMAIN tx.outs \subseteq Nat /\ Creates(tx, UnresolvedOuts(total)) /\ n \in OutAmounts(tx)
       /\ WalletAmount(tx.outs, "YES") = n /\ WalletAmount(tx.outs, "NO") = n
    BY <1>5, <1>8, <1>9, IssuanceTx
<1>13. SubsequentIssue(tx, n)
    BY <1>5, <1>10, <1>11, <1>12, <1>s, <1>t DEF SubsequentIssue, Moves, Tokens
<1>14. \A a \in Tokens : WalletAmount(tx.ins, a) \in 0..h[a]
    BY <1>11
<1>15. EffectOK(tx, signed)
    BY <1>12, <1>13 DEF EffectOK
<1> QED
    BY <1>10, <1>12, <1>14, <1>15 DEF RequestOK

TerminalOuts(outs, v, target, y) ==
    outs = << burn_txout("YES_RT", 1), burn_txout("NO_RT", 1),
              explicit_txout("COLLATERAL", v, target) >>
           \o Change("COLLATERAL", y) \o << fee_txout >>

(* The outputs of a resolution or an expiry: the collateral, in its slot.  *)
LEMMA TerminalTx ==
    ASSUME NEW v \in Nat, NEW st \in Terminal, NEW y \in Nat, NEW outs, NEW target,
           target = TerminalSlot(st), TerminalOuts(outs, v, target, y),
           NEW tx, Blinds(tx, outs, RtPos)
    PROVE  /\ DOMAIN tx.outs \subseteq Nat
           /\ Creates(tx, ConcludedOuts(target, v))
           /\ WalletAmount(tx.outs, "YES") = 0 /\ WalletAmount(tx.outs, "NO") = 0
<1> DEFINE o1 == burn_txout("YES_RT", 1)
           o2 == burn_txout("NO_RT", 1)
           o3 == explicit_txout("COLLATERAL", v, target)
           base == <<o1, o2, o3>>
           pos == RtPos
           w == ConcludedOuts(target, v)
<1>t. target \in MarketSlot /\ target # "Wallet"
    BY DEF Terminal, TerminalSlot, MarketSlot
<1>1. o1 \in OutRec /\ o2 \in OutRec /\ o3 \in OutRec
    BY <1>t DEF OutRec, Script, MarketSlot, Asset, explicit_txout, burn_txout
<1>2. \A a \in Tokens : Carries(o1, a) = 0 /\ Carries(o2, a) = 0 /\ Carries(o3, a) = 0
    BY <1>t DEF Tokens, Carries, explicit_txout, burn_txout
<1>3. o1.script = "Burn" /\ o2.script = "Burn" /\ o3.script = target
    BY DEF explicit_txout, burn_txout
<1>5. /\ DOMAIN w = 1..3
      /\ w[1].script = "Burn" /\ w[2].script = "Burn"
      /\ w[3] = CollOut(target, v) /\ w[3].script = target
    BY DEF ConcludedOuts, NoOut, CollOut
<1>6. Blinded(o1, 1, pos).script = "Burn" /\ Blinded(o2, 2, pos).script = "Burn"
    BY DEF RtPos, Blinded, burn_txout, explicit_txout
<1>7. Blinded(o3, 3, pos) = w[3]
    BY <1>t, <1>5, BlindedColl DEF RtPos
<1>8. \A k \in pos : k = 1 \/ k = 2
    BY DEF RtPos
<1>9. outs = (base \o Change("COLLATERAL", y)) \o <<fee_txout>> /\ Blinds(tx, outs, pos)
    BY DEF TerminalOuts
<1> HIDE DEF o1, o2, o3, pos, w
<1>10. /\ base \in Seq(OutRec) /\ Len(base) = 3
       /\ base[1] = o1 /\ base[2] = o2 /\ base[3] = o3
    BY <1>1
<1> HIDE DEF base
<1>11. \A k \in 1..Len(base) : k = 1 \/ k = 2 \/ k = 3
    BY <1>10
<1>12. Outputs(base, base, 0, 0)
    <2>1. \A k \in 1..Len(base) : Carries(base[k], "YES") = 0 /\ Carries(base[k], "NO") = 0
        BY <1>2, <1>10, <1>11 DEF Tokens
    <2> QED BY <1>10, <2>1, PlainOutputs
<1>13. Outputs(outs, base, 0, 0)
    <2>0. 0 \in Nat
        OBVIOUS
    <2>1. Outputs(base \o Change("COLLATERAL", y), base, 0, 0)
        BY <1>12, <2>0, OutputsChange
    <2>2. Outputs((base \o Change("COLLATERAL", y)) \o <<fee_txout>>, base, 0, 0)
        BY <2>0, <2>1, OutputsChange
    <2> QED BY <1>9, <2>2
<1>14. Pays(tx, base, pos, 0, 0)
    <2>0. 0 \in Nat
        OBVIOUS
    <2>1. \A k \in pos : k \in 1..Len(base) /\ base[k].script # "Wallet"
        BY <1>3, <1>8, <1>10
    <2> QED BY <1>9, <1>13, <2>0, <2>1, BlindsOutputs
<1>15. Creates(tx, w)
    <2>1. \A k \in DOMAIN w : k \in 1..Len(base)
        BY <1>5, <1>10
    <2>2. \A k \in 1..Len(base) : base[k].script \in MarketSlot =>
               /\ k \in DOMAIN w /\ w[k].script \in MarketSlot
               /\ w[k] = Blinded(base[k], k, pos)
        BY <1>t, <1>3, <1>5, <1>7, <1>10, <1>11 DEF MarketSlot
    <2>3. \A k \in DOMAIN w : w[k].script \in MarketSlot => base[k].script \in MarketSlot
        BY <1>3, <1>5, <1>10 DEF MarketSlot
    <2>4. \A k \in 1..Len(base) : Blinded(base[k], k, pos).script = base[k].script
        BY <1>3, <1>5, <1>6, <1>7, <1>10, <1>11
    <2> QED BY <1>14, <2>1, <2>2, <2>3, <2>4, PaysCreates
<1> QED
    BY <1>14, <1>15 DEF Pays, w

(* A resolution or an expiry. *)
LEMMA ConcludeOK ==
    ASSUME Shape(utxos, state, txs), state = "Unresolved", NEW st \in Terminal,
           st = "ResolvedYes" => TRUE \in signed,
           st = "ResolvedNo" => FALSE \in signed,
           NEW lock, st = "Expired" => lock = ExpiryTime,
           NEW fee, fee - FeeAmount \in Nat, NEW target, target = TerminalSlot(st),
           NEW h \in [Tokens -> Nat], NEW p, NEW tx, tx = TokenBlind(p),
           p = TerminalPset(classify_covenant_utxos, target, fee, lock)
    PROVE  RequestOK(tx, h, utxos, txs, signed)
<1> DEFINE b == classify_covenant_utxos
           i1 == add_pset_input(b.yes)
           i2 == add_pset_input(b.no)
           i3 == add_pset_input(b.coll)
           i4 == add_pset_input(WalletUtxo("COLLATERAL", fee))
           ins == <<i1, i2, i3, i4>>
           y == fee - FeeAmount
           amount == b.coll.amount
           outs == << burn_txout("YES_RT", 1), burn_txout("NO_RT", 1),
                      explicit_txout("COLLATERAL", amount, target) >>
                   \o Change("COLLATERAL", y) \o << fee_txout >>
           slots == <<"UnresolvedYesRt", "UnresolvedNoRt", "UnresolvedCollateral">>
<1>1. PICK yes, no, k \in Ids(txs), v \in 1..U64Max :
          /\ b.yes = Rt(yes, "UnresolvedYesRt", "YES_RT")
          /\ b.no = Rt(no, "UnresolvedNoRt", "NO_RT")
          /\ b.coll = Coll(k, "UnresolvedCollateral", v)
          /\ b.yes \in utxos /\ b.no \in utxos /\ b.coll \in utxos
    BY BundleIs
<1>2. /\ i1.script = "UnresolvedYesRt" /\ i2.script = "UnresolvedNoRt"
      /\ i3.script = "UnresolvedCollateral"
      /\ Prevout(i1) \in utxos /\ Prevout(i2) \in utxos /\ Prevout(i3) \in utxos
      /\ i3.amount = amount /\ amount = v
    BY <1>1, InputKinds DEF add_pset_input, Coll
<1>3. i4.script = "Wallet" /\ i4.asset = "COLLATERAL"
    BY InputKinds DEF add_pset_input
<1>4. IsPset(p, ins, outs, lock)
    BY DEF TerminalPset, IsPset
<1>5. amount \in Nat /\ y \in Nat
    BY <1>2, CovenantAssumption
<1>6. DOMAIN slots = 1..3 /\ slots[1] = "UnresolvedYesRt" /\ slots[2] = "UnresolvedNoRt"
      /\ slots[3] = "UnresolvedCollateral" /\ \A j \in 1..3 : slots[j] \in MarketSlot
    BY DEF MarketSlot
<1> HIDE DEF b, i1, i2, i3, i4, amount
<1>7. DOMAIN ins = 1..4 /\ ins[1] = i1 /\ ins[2] = i2 /\ ins[3] = i3 /\ ins[4] = i4
    OBVIOUS
<1>8. TerminalOuts(outs, amount, target, y)
    BY DEF TerminalOuts
<1>s. slots = <<"UnresolvedYesRt", "UnresolvedNoRt", "UnresolvedCollateral">>
    OBVIOUS
<1> HIDE DEF ins, outs, y, slots
<1>9. tx.ins = ins /\ tx.lock = lock /\ Blinds(tx, outs, RtPos)
    BY <1>4, TokenBlindFields
<1>t. amount = tx.ins[3].amount
    BY <1>2, <1>7, <1>9
<1>10. SpendsSlots(tx, slots) /\ InputsOK(tx, utxos, txs)
    <2>1. \A j \in DOMAIN slots : /\ j \in DOMAIN tx.ins
                                  /\ tx.ins[j].script = slots[j] /\ slots[j] \in MarketSlot
                                  /\ Prevout(tx.ins[j]) \in utxos
        BY <1>2, <1>6, <1>7, <1>9
    <2>2. \A j \in DOMAIN tx.ins : j \notin DOMAIN slots => tx.ins[j].script = "Wallet"
        BY <1>3, <1>6, <1>7, <1>9
    <2> QED BY <2>1, <2>2, InputsAre
<1>11. \A a \in Tokens : WalletAmount(tx.ins, a) = 0
    <2> SUFFICES ASSUME NEW a \in Tokens PROVE WalletAmount(tx.ins, a) = 0
        OBVIOUS
    <2>1. \A j \in DOMAIN ins : Carries(ins[j], a) = 0
        BY <1>2, <1>3, <1>7 DEF Carries, Tokens
    <2>2. IsFiniteSet(DOMAIN ins)
        BY <1>7, FinitePrefix
    <2> QED BY <1>9, <2>1, <2>2, WalletNone
<1>12. /\ DOMAIN tx.outs \subseteq Nat /\ Creates(tx, ConcludedOuts(target, amount))
       /\ WalletAmount(tx.outs, "YES") = 0 /\ WalletAmount(tx.outs, "NO") = 0
    BY <1>5, <1>8, <1>9, TerminalTx
<1>13. Conclude(tx, st, signed)
    BY <1>9, <1>10, <1>11, <1>12, <1>s, <1>t DEF Conclude, Moves, Tokens
<1>14. \A a \in Tokens : WalletAmount(tx.ins, a) \in 0..h[a]
    BY <1>11
<1>15. EffectOK(tx, signed)
    BY <1>13 DEF EffectOK
<1> QED
    BY <1>10, <1>12, <1>14, <1>15 DEF RequestOK

(* What cancellations leave at the market. *)
LeftOuts(v) == <<CollOut("UnresolvedCollateral", v)>>
DormantOuts == <<RtOut("DormantYesRt", "YES_RT"), RtOut("DormantNoRt", "NO_RT")>>

WithFee(outs, s) == outs = s \o <<fee_txout>>

PartialOuts(s, n, v, refund, yes, no, y) ==
    s = << explicit_txout("COLLATERAL", v, "UnresolvedCollateral"),
           burn_txout("YES", n), burn_txout("NO", n),
           explicit_txout("COLLATERAL", refund, "Wallet") >>
        \o Change("YES", yes) \o Change("NO", no) \o Change("COLLATERAL", y)

Leaves(tx, n, v, yes, no) ==
    /\ DOMAIN tx.outs \subseteq Nat
    /\ Creates(tx, LeftOuts(v))
    /\ n \in OutAmounts(tx)
    /\ WalletAmount(tx.outs, "YES") = yes /\ WalletAmount(tx.outs, "NO") = no

(* The outputs of a partial cancellation: what is left of the collateral,  *)
(* and tokens as change.                                                   *)
LEMMA PartialTx ==
    ASSUME NEW n \in Nat, NEW v \in Nat, NEW refund \in Nat, NEW yes \in Nat, NEW no \in Nat,
           NEW y \in Nat, NEW s, PartialOuts(s, n, v, refund, yes, no, y),
           NEW outs, WithFee(outs, s), NEW tx, Blinds(tx, outs, {})
    PROVE  /\ s \in Seq(OutRec)
           /\ Leaves(tx, n, v, yes, no)
<1> DEFINE o1 == explicit_txout("COLLATERAL", v, "UnresolvedCollateral")
           o2 == burn_txout("YES", n)
           o3 == burn_txout("NO", n)
           o4 == explicit_txout("COLLATERAL", refund, "Wallet")
           base == <<o1, o2, o3, o4>>
           pos == {}
           w == LeftOuts(v)
<1>1. o1 \in OutRec /\ o2 \in OutRec /\ o3 \in OutRec /\ o4 \in OutRec
    BY DEF OutRec, Script, MarketSlot, Asset, explicit_txout, burn_txout
<1>2. \A a \in Tokens : Carries(o1, a) = 0 /\ Carries(o2, a) = 0 /\ Carries(o3, a) = 0
                        /\ Carries(o4, a) = 0
    BY DEF Tokens, Carries, explicit_txout, burn_txout
<1>3. o1.script = "UnresolvedCollateral" /\ o2.script = "Burn" /\ o3.script = "Burn"
      /\ o4.script = "Wallet"
    BY DEF explicit_txout, burn_txout
<1>5. /\ DOMAIN w = 1..1
      /\ w[1] = CollOut("UnresolvedCollateral", v) /\ w[1].script = "UnresolvedCollateral"
    BY DEF CollOut, LeftOuts
<1>6. /\ Blinded(o2, 2, pos).script = "Burn" /\ Blinded(o3, 3, pos).script = "Burn"
      /\ Blinded(o4, 4, pos).script = "Wallet" /\ Blinded(o2, 2, pos).amount = n
    BY DEF Blinded, burn_txout, explicit_txout
<1>7. Blinded(o1, 1, pos) = w[1]
    <2>1. 1 \notin pos /\ "UnresolvedCollateral" # "Wallet"
        OBVIOUS
    <2> QED BY <1>5, <2>1, BlindedColl
<1>8. \A k \in pos : FALSE
    OBVIOUS
<1>9. s = ((base \o Change("YES", yes)) \o Change("NO", no)) \o Change("COLLATERAL", y)
    BY DEF PartialOuts
<1>b. Blinds(tx, outs, pos)
    OBVIOUS
<1> HIDE DEF o1, o2, o3, o4, pos, w
<1>10. /\ base \in Seq(OutRec) /\ Len(base) = 4
       /\ base[1] = o1 /\ base[2] = o2 /\ base[3] = o3 /\ base[4] = o4
    BY <1>1
<1> HIDE DEF base
<1>11. \A k \in 1..Len(base) : k = 1 \/ k = 2 \/ k = 3 \/ k = 4
    BY <1>10
<1>12. Outputs(base, base, 0, 0)
    <2>1. \A k \in 1..Len(base) : Carries(base[k], "YES") = 0 /\ Carries(base[k], "NO") = 0
        BY <1>2, <1>10, <1>11 DEF Tokens
    <2> QED BY <1>10, <2>1, PlainOutputs
<1>13. Outputs(s, base, yes, no) /\ Outputs(outs, base, yes, no)
    <2>0. 0 \in Nat /\ 0 + yes = yes /\ 0 + no = no
        OBVIOUS
    <2>1. Outputs(base \o Change("YES", yes), base, yes, 0)
        <3>1. Outputs(base \o Change("YES", yes), base, 0 + yes, 0)
            BY <1>12, <2>0, OutputsChange
        <3> QED BY <2>0, <3>1
    <2>2. Outputs((base \o Change("YES", yes)) \o Change("NO", no), base, yes, no)
        <3>1. Outputs((base \o Change("YES", yes)) \o Change("NO", no), base, yes, 0 + no)
            BY <2>0, <2>1, OutputsChange
        <3> QED BY <2>0, <3>1
    <2>3. Outputs(s, base, yes, no)
        BY <1>9, <2>2, OutputsChange
    <2>4. Outputs(s \o <<fee_txout>>, base, yes, no)
        BY <2>3, OutputsChange
    <2> QED BY <2>3, <2>4 DEF WithFee
<1>14. Pays(tx, base, pos, yes, no)
    <2>1. \A k \in pos : k \in 1..Len(base) /\ base[k].script # "Wallet"
        BY <1>8
    <2> QED BY <1>b, <1>13, <2>1, BlindsOutputs
<1>15. Creates(tx, w)
    <2>1. \A k \in DOMAIN w : k \in 1..Len(base)
        BY <1>5, <1>10
    <2>2. \A k \in 1..Len(base) : base[k].script \in MarketSlot =>
               /\ k \in DOMAIN w /\ w[k].script \in MarketSlot
               /\ w[k] = Blinded(base[k], k, pos)
        BY <1>3, <1>5, <1>7, <1>10, <1>11 DEF MarketSlot
    <2>3. \A k \in DOMAIN w : w[k].script \in MarketSlot => base[k].script \in MarketSlot
        BY <1>3, <1>5, <1>10 DEF MarketSlot
    <2>4. \A k \in 1..Len(base) : Blinded(base[k], k, pos).script = base[k].script
        BY <1>3, <1>5, <1>6, <1>7, <1>10, <1>11
    <2> QED BY <1>14, <2>1, <2>2, <2>3, <2>4, PaysCreates
<1>16. n \in OutAmounts(tx)
    <2>1. 2 \in 1..Len(base)
        BY <1>10
    <2>2. 2 \in DOMAIN tx.outs /\ tx.outs[2].amount = n
        BY <1>6, <1>10, <1>14, <2>1 DEF Pays
    <2> QED BY <2>2 DEF OutAmounts
<1>17. s \in Seq(OutRec)
    BY <1>13 DEF Outputs
<1> QED
    BY <1>14, <1>15, <1>16, <1>17 DEF Pays, Leaves, w

FullOuts(s, n, refund, y) ==
    s = << reissuance_token_output("DormantYesRt"), reissuance_token_output("DormantNoRt"),
           burn_txout("YES", n), burn_txout("NO", n),
           explicit_txout("COLLATERAL", refund, "Wallet") >>
        \o Change("COLLATERAL", y)

(* The outputs of a full cancellation: the market is dormant again. *)
LEMMA FullTx ==
    ASSUME NEW n \in Nat, NEW refund \in Nat,
           NEW y \in Nat, NEW s, FullOuts(s, n, refund, y),
           NEW outs, WithFee(outs, s), NEW tx, Blinds(tx, outs, RtPos)
    PROVE  /\ s \in Seq(OutRec)
           /\ DOMAIN tx.outs \subseteq Nat
           /\ Creates(tx, DormantOuts)
           /\ n \in OutAmounts(tx)
           /\ WalletAmount(tx.outs, "YES") = 0 /\ WalletAmount(tx.outs, "NO") = 0
<1> DEFINE o1 == reissuance_token_output("DormantYesRt")
           o2 == reissuance_token_output("DormantNoRt")
           o3 == burn_txout("YES", n)
           o4 == burn_txout("NO", n)
           o5 == explicit_txout("COLLATERAL", refund, "Wallet")
           base == <<o1, o2, o3, o4, o5>>
           pos == RtPos
           w == DormantOuts
<1>1. o1 \in OutRec /\ o2 \in OutRec /\ o3 \in OutRec /\ o4 \in OutRec /\ o5 \in OutRec
    BY DEF OutRec, Script, MarketSlot, Asset, explicit_txout, burn_txout, reissuance_token_output
<1>2. \A a \in Tokens : Carries(o1, a) = 0 /\ Carries(o2, a) = 0 /\ Carries(o3, a) = 0
                        /\ Carries(o4, a) = 0 /\ Carries(o5, a) = 0
    BY DEF Tokens, Carries, explicit_txout, burn_txout, reissuance_token_output
<1>3. o1.script = "DormantYesRt" /\ o2.script = "DormantNoRt" /\ o3.script = "Burn"
      /\ o4.script = "Burn" /\ o5.script = "Wallet"
    BY DEF explicit_txout, burn_txout, reissuance_token_output
<1>5. /\ DOMAIN w = 1..2
      /\ w[1] = RtOut("DormantYesRt", "YES_RT") /\ w[1].script = "DormantYesRt"
      /\ w[2] = RtOut("DormantNoRt", "NO_RT") /\ w[2].script = "DormantNoRt"
    BY DEF RtOut, DormantOuts
<1>6. /\ Blinded(o3, 3, pos).script = "Burn" /\ Blinded(o4, 4, pos).script = "Burn"
      /\ Blinded(o5, 5, pos).script = "Wallet" /\ Blinded(o3, 3, pos).amount = n
    BY DEF RtPos, Blinded, burn_txout, explicit_txout
<1>7. Blinded(o1, 1, pos) = w[1]
    BY <1>5, BlindedIs DEF RtPos
<1>c. Blinded(o2, 2, pos) = w[2]
    BY <1>5, BlindedIs DEF RtPos
<1>8. \A k \in pos : k = 1 \/ k = 2
    BY DEF RtPos
<1>9. s = base \o Change("COLLATERAL", y)
    BY DEF FullOuts
<1>b. Blinds(tx, outs, pos)
    OBVIOUS
<1> HIDE DEF o1, o2, o3, o4, o5, pos, w
<1>10. /\ base \in Seq(OutRec) /\ Len(base) = 5
       /\ base[1] = o1 /\ base[2] = o2 /\ base[3] = o3 /\ base[4] = o4 /\ base[5] = o5
    BY <1>1
<1> HIDE DEF base
<1>11. \A k \in 1..Len(base) : k = 1 \/ k = 2 \/ k = 3 \/ k = 4 \/ k = 5
    BY <1>10
<1>12. Outputs(base, base, 0, 0)
    <2>1. \A k \in 1..Len(base) : Carries(base[k], "YES") = 0 /\ Carries(base[k], "NO") = 0
        BY <1>2, <1>10, <1>11 DEF Tokens
    <2> QED BY <1>10, <2>1, PlainOutputs
<1>z. 0 \in Nat
    OBVIOUS
<1>13. Outputs(s, base, 0, 0) /\ Outputs(outs, base, 0, 0)
    <2>3. Outputs(s, base, 0, 0)
        BY <1>9, <1>12, <1>z, OutputsChange
    <2>4. Outputs(s \o <<fee_txout>>, base, 0, 0)
        BY <1>z, <2>3, OutputsChange
    <2> QED BY <2>3, <2>4 DEF WithFee
<1>14. Pays(tx, base, pos, 0, 0)
    <2>1. \A k \in pos : k \in 1..Len(base) /\ base[k].script # "Wallet"
        BY <1>3, <1>8, <1>10
    <2> QED BY <1>b, <1>z, <1>13, <2>1, BlindsOutputs
<1>15. Creates(tx, w)
    <2>1. \A k \in DOMAIN w : k \in 1..Len(base)
        BY <1>5, <1>10
    <2>2. \A k \in 1..Len(base) : base[k].script \in MarketSlot =>
               /\ k \in DOMAIN w /\ w[k].script \in MarketSlot
               /\ w[k] = Blinded(base[k], k, pos)
        BY <1>3, <1>5, <1>7, <1>c, <1>10, <1>11 DEF MarketSlot
    <2>3. \A k \in DOMAIN w : w[k].script \in MarketSlot => base[k].script \in MarketSlot
        BY <1>3, <1>5, <1>10 DEF MarketSlot
    <2>4. \A k \in 1..Len(base) : Blinded(base[k], k, pos).script = base[k].script
        BY <1>3, <1>5, <1>6, <1>7, <1>c, <1>10, <1>11
    <2> QED BY <1>14, <2>1, <2>2, <2>3, <2>4, PaysCreates
<1>16. n \in OutAmounts(tx)
    <2>1. 3 \in 1..Len(base)
        BY <1>10
    <2>2. 3 \in DOMAIN tx.outs /\ tx.outs[3].amount = n
        BY <1>6, <1>10, <1>14, <2>1 DEF Pays
    <2> QED BY <2>2 DEF OutAmounts
<1>17. s \in Seq(OutRec)
    BY <1>13 DEF Outputs
<1> QED
    BY <1>14, <1>15, <1>16, <1>17 DEF Pays, w

(* A cancellation that leaves collateral behind. *)
LEMMA PartialCancelOK ==
    ASSUME Shape(utxos, state, txs), state = "Unresolved", NEW h \in [Tokens -> Nat],
           NEW n \in Nat, NEW refund \in Nat, refund = required_collateral(n),
           classify_covenant_utxos.coll.amount > refund,
           NEW yes \in Nat, NEW no \in Nat, n <= yes, n <= no, yes <= h["YES"], no <= h["NO"],
           NEW fee, NEW y \in Nat, y = fee - FeeAmount,
           NEW q, q = build_cancellation_pset(classify_covenant_utxos, n, yes, no, fee),
           NEW p, p = ensure_fee_output_last(q), NEW tx, tx = PlainBlind(p)
    PROVE  RequestOK(tx, h, utxos, txs, signed)
<1> DEFINE b == classify_covenant_utxos
           amount == b.coll.amount
           rest == amount - refund
           yesLeft == yes - n
           noLeft == no - n
           i1 == add_pset_input(b.coll)
           i2 == add_pset_input(WalletUtxo("YES", yes))
           i3 == add_pset_input(WalletUtxo("NO", no))
           i4 == add_pset_input(WalletUtxo("COLLATERAL", fee))
           ins == <<i1, i2, i3, i4>>
           s == << explicit_txout("COLLATERAL", rest, "UnresolvedCollateral"),
                   burn_txout("YES", n), burn_txout("NO", n),
                   explicit_txout("COLLATERAL", refund, "Wallet") >>
                \o Change("YES", yesLeft) \o Change("NO", noLeft) \o Change("COLLATERAL", y)
           outs == s \o <<fee_txout>>
           slots == <<"UnresolvedCollateral">>
<1>1. PICK k \in Ids(txs), v \in 1..U64Max :
          b.coll = Coll(k, "UnresolvedCollateral", v) /\ b.coll \in utxos
    BY BundleIs
<1>2. /\ i1.script = "UnresolvedCollateral" /\ Prevout(i1) \in utxos
      /\ i1.amount = amount /\ amount = v
    BY <1>1, InputKinds DEF add_pset_input, Coll
<1>3. /\ i2.script = "Wallet" /\ i2.asset = "YES" /\ i2.amount = yes
      /\ i3.script = "Wallet" /\ i3.asset = "NO" /\ i3.amount = no
      /\ i4.script = "Wallet" /\ i4.asset = "COLLATERAL"
    BY InputKinds DEF add_pset_input
<1>5. /\ amount \in Nat /\ rest \in Nat /\ yesLeft \in Nat /\ noLeft \in Nat
      /\ rest > 0 /\ amount > refund
    BY <1>2, CovenantAssumption
<1>4. IsPset(q, ins, outs, 0)
    BY <1>5 DEF build_cancellation_pset, IsPset
<1>6. DOMAIN slots = 1..1 /\ slots[1] = "UnresolvedCollateral"
      /\ "UnresolvedCollateral" \in MarketSlot
    BY DEF MarketSlot
<1>8. PartialOuts(s, n, rest, refund, yesLeft, noLeft, y)
    BY DEF PartialOuts
<1>r. rest = amount - required_collateral(n) /\ yesLeft = yes - n /\ noLeft = no - n
    OBVIOUS
<1> HIDE DEF b, i1, i2, i3, i4, amount, rest, yesLeft, noLeft
<1>7. DOMAIN ins = 1..4 /\ ins[1] = i1 /\ ins[2] = i2 /\ ins[3] = i3 /\ ins[4] = i4
    OBVIOUS
<1>s. slots = <<"UnresolvedCollateral">>
    OBVIOUS
<1>o. WithFee(outs, s)
    BY DEF WithFee
<1> HIDE DEF ins, outs, s, slots
<1>i. \A j \in 1..4 : j = 1 \/ j = 2 \/ j = 3 \/ j = 4
    OBVIOUS
<1>q. p = q
    <2>1. Blinds(PlainBlind(q), outs, {})
        BY <1>4, PlainBlindFields
    <2>2. s \in Seq(OutRec)
        BY <1>5, <1>8, <1>o, <2>1, PartialTx
    <2> QED BY <1>4, <1>o, <2>2, FeeIsLast DEF WithFee
<1>9. tx.ins = ins /\ Blinds(tx, outs, {})
    BY <1>4, <1>q, PlainBlindFields
<1>t. rest = tx.ins[1].amount - required_collateral(n) /\ tx.ins[1].amount > required_collateral(n)
    BY <1>2, <1>5, <1>7, <1>9, <1>r
<1>10. SpendsSlots(tx, slots) /\ InputsOK(tx, utxos, txs)
    <2>1. \A j \in DOMAIN slots : /\ j \in DOMAIN tx.ins
                                  /\ tx.ins[j].script = slots[j] /\ slots[j] \in MarketSlot
                                  /\ Prevout(tx.ins[j]) \in utxos
        BY <1>2, <1>6, <1>7, <1>9
    <2>2. \A j \in DOMAIN tx.ins : j \notin DOMAIN slots => tx.ins[j].script = "Wallet"
        BY <1>3, <1>6, <1>7, <1>9, <1>i
    <2> QED BY <2>1, <2>2, InputsAre
<1>11. WalletAmount(tx.ins, "YES") = yes /\ WalletAmount(tx.ins, "NO") = no
    <2>1. /\ Carries(ins[2], "YES") = yes /\ \A j \in DOMAIN ins \ {2} : Carries(ins[j], "YES") = 0
          /\ Carries(ins[3], "NO") = no /\ \A j \in DOMAIN ins \ {3} : Carries(ins[j], "NO") = 0
        BY <1>2, <1>3, <1>7, <1>i DEF Carries
    <2>2. IsFiniteSet(DOMAIN ins) /\ 2 \in DOMAIN ins /\ 3 \in DOMAIN ins
        <3>1. 4 \in Nat /\ 2 \in 1..4 /\ 3 \in 1..4
            OBVIOUS
        <3> QED BY <1>7, <3>1, FinitePrefix
    <2> QED BY <1>9, <2>1, <2>2, WalletOne
<1>12. /\ DOMAIN tx.outs \subseteq Nat /\ Creates(tx, LeftOuts(rest))
       /\ n \in OutAmounts(tx)
       /\ WalletAmount(tx.outs, "YES") = yesLeft /\ WalletAmount(tx.outs, "NO") = noLeft
    <2>0. /\ rest \in Nat /\ yesLeft \in Nat /\ noLeft \in Nat
          /\ PartialOuts(s, n, rest, refund, yesLeft, noLeft, y) /\ WithFee(outs, s)
          /\ Blinds(tx, outs, {})
        BY <1>5, <1>8, <1>9, <1>o
    <2>1. Leaves(tx, n, rest, yesLeft, noLeft)
        BY <2>0, PartialTx
    <2> QED BY <2>1 DEF Leaves
<1>13. PartialCancel(tx, n)
    <2>1. Moves(tx, yes, no, yes - n, no - n)
        BY <1>11, <1>12, <1>r DEF Moves
    <2> QED BY <1>10, <1>12, <1>s, <1>t, <2>1 DEF PartialCancel, LeftOuts
<1>14. \A a \in Tokens : WalletAmount(tx.ins, a) \in 0..h[a]
    <2>1. h["YES"] \in Nat /\ h["NO"] \in Nat
        BY DEF Tokens
    <2>2. WalletAmount(tx.ins, "YES") \in 0..h["YES"] /\ WalletAmount(tx.ins, "NO") \in 0..h["NO"]
        BY <1>11, <2>1
    <2> QED BY <2>2 DEF Tokens
<1>15. EffectOK(tx, signed)
    BY <1>12, <1>13 DEF EffectOK
<1> QED
    BY <1>10, <1>12, <1>14, <1>15 DEF RequestOK

(* A cancellation of every pair there is. *)
LEMMA FullCancelOK ==
    ASSUME Shape(utxos, state, txs), state = "Unresolved", NEW h \in [Tokens -> Nat],
           NEW n \in Nat, NEW refund \in Nat, refund = required_collateral(n),
           classify_covenant_utxos.coll.amount = refund,
           NEW yes \in Nat, NEW no \in Nat, n <= yes, n <= no, yes <= h["YES"], no <= h["NO"],
           NEW fee, NEW y \in Nat, y = fee - FeeAmount,
           NEW q, q = build_cancellation_pset(classify_covenant_utxos, n, yes, no, fee),
           NEW p, p = ensure_fee_output_last(q), NEW tx, tx = TokenBlind(p)
    PROVE  RequestOK(tx, h, utxos, txs, signed)
<1> DEFINE b == classify_covenant_utxos
           amount == b.coll.amount
           i1 == add_pset_input(b.coll)
           i2 == add_pset_input(b.yes)
           i3 == add_pset_input(b.no)
           i4 == add_pset_input(WalletUtxo("YES", yes))
           i5 == add_pset_input(WalletUtxo("NO", no))
           i6 == add_pset_input(WalletUtxo("COLLATERAL", fee))
           ins == <<i1, i2, i3, i4, i5, i6>>
           s == << reissuance_token_output("DormantYesRt"), reissuance_token_output("DormantNoRt"),
                   burn_txout("YES", n), burn_txout("NO", n),
                   explicit_txout("COLLATERAL", refund, "Wallet") >>
                \o Change("COLLATERAL", y)
           outs == s \o <<fee_txout>>
           slots == <<"UnresolvedCollateral", "UnresolvedYesRt", "UnresolvedNoRt">>
<1>1. PICK iy, in, k \in Ids(txs), v \in 1..U64Max :
          /\ b.yes = Rt(iy, "UnresolvedYesRt", "YES_RT")
          /\ b.no = Rt(in, "UnresolvedNoRt", "NO_RT")
          /\ b.coll = Coll(k, "UnresolvedCollateral", v)
          /\ b.yes \in utxos /\ b.no \in utxos /\ b.coll \in utxos
    BY BundleIs
<1>2. /\ i1.script = "UnresolvedCollateral" /\ i2.script = "UnresolvedYesRt"
      /\ i3.script = "UnresolvedNoRt"
      /\ Prevout(i1) \in utxos /\ Prevout(i2) \in utxos /\ Prevout(i3) \in utxos
      /\ i1.amount = amount
    BY <1>1, InputKinds DEF add_pset_input, Coll
<1>3. /\ i4.script = "Wallet" /\ i4.asset = "YES" /\ i4.amount = yes
      /\ i5.script = "Wallet" /\ i5.asset = "NO" /\ i5.amount = no
      /\ i6.script = "Wallet" /\ i6.asset = "COLLATERAL"
    BY InputKinds DEF add_pset_input
<1>5. ~(amount - refund > 0) /\ amount = refund
    OBVIOUS
<1>4. IsPset(q, ins, outs, 0)
    BY <1>5 DEF build_cancellation_pset, IsPset
<1>6. DOMAIN slots = 1..3 /\ slots[1] = "UnresolvedCollateral" /\ slots[2] = "UnresolvedYesRt"
      /\ slots[3] = "UnresolvedNoRt" /\ \A j \in 1..3 : slots[j] \in MarketSlot
    BY DEF MarketSlot
<1>8. FullOuts(s, n, refund, y)
    BY DEF FullOuts
<1> HIDE DEF b, i1, i2, i3, i4, i5, i6, amount
<1>7. DOMAIN ins = 1..6 /\ ins[1] = i1 /\ ins[2] = i2 /\ ins[3] = i3 /\ ins[4] = i4
      /\ ins[5] = i5 /\ ins[6] = i6
    OBVIOUS
<1>s. slots = <<"UnresolvedCollateral", "UnresolvedYesRt", "UnresolvedNoRt">>
    OBVIOUS
<1>o. WithFee(outs, s)
    BY DEF WithFee
<1> HIDE DEF ins, outs, s, slots
<1>i. \A j \in 1..6 : j = 1 \/ j = 2 \/ j = 3 \/ j = 4 \/ j = 5 \/ j = 6
    OBVIOUS
<1>q. p = q
    <2>1. Blinds(TokenBlind(q), outs, RtPos)
        BY <1>4, TokenBlindFields
    <2>2. s \in Seq(OutRec)
        BY <1>8, <1>o, <2>1, FullTx
    <2> QED BY <1>4, <1>o, <2>2, FeeIsLast DEF WithFee
<1>9. tx.ins = ins /\ Blinds(tx, outs, RtPos)
    BY <1>4, <1>q, TokenBlindFields
<1>t. tx.ins[1].amount = required_collateral(n)
    BY <1>2, <1>5, <1>7, <1>9
<1>10. SpendsSlots(tx, slots) /\ InputsOK(tx, utxos, txs)
    <2>1. \A j \in DOMAIN slots : /\ j \in DOMAIN tx.ins
                                  /\ tx.ins[j].script = slots[j] /\ slots[j] \in MarketSlot
                                  /\ Prevout(tx.ins[j]) \in utxos
        BY <1>2, <1>6, <1>7, <1>9
    <2>2. \A j \in DOMAIN tx.ins : j \notin DOMAIN slots => tx.ins[j].script = "Wallet"
        BY <1>3, <1>6, <1>7, <1>9, <1>i
    <2> QED BY <2>1, <2>2, InputsAre
<1>11. WalletAmount(tx.ins, "YES") = yes /\ WalletAmount(tx.ins, "NO") = no
    <2>1. /\ Carries(ins[4], "YES") = yes /\ \A j \in DOMAIN ins \ {4} : Carries(ins[j], "YES") = 0
          /\ Carries(ins[5], "NO") = no /\ \A j \in DOMAIN ins \ {5} : Carries(ins[j], "NO") = 0
        BY <1>2, <1>3, <1>7, <1>i DEF Carries
    <2>2. IsFiniteSet(DOMAIN ins) /\ 4 \in DOMAIN ins /\ 5 \in DOMAIN ins
        <3>1. 6 \in Nat /\ 4 \in 1..6 /\ 5 \in 1..6
            OBVIOUS
        <3> QED BY <1>7, <3>1, FinitePrefix
    <2> QED BY <1>9, <2>1, <2>2, WalletOne
<1>12. /\ DOMAIN tx.outs \subseteq Nat
       /\ Creates(tx, DormantOuts)
       /\ n \in OutAmounts(tx)
       /\ WalletAmount(tx.outs, "YES") = 0 /\ WalletAmount(tx.outs, "NO") = 0
    BY <1>8, <1>9, <1>o, FullTx
<1>13. FullCancel(tx, n)
    <2>1. Moves(tx, yes, no, 0, 0)
        BY <1>11, <1>12 DEF Moves
    <2> QED BY <1>10, <1>12, <1>s, <1>t, <2>1 DEF FullCancel, DormantOuts
<1>14. \A a \in Tokens : WalletAmount(tx.ins, a) \in 0..h[a]
    <2>1. h["YES"] \in Nat /\ h["NO"] \in Nat
        BY DEF Tokens
    <2>2. WalletAmount(tx.ins, "YES") \in 0..h["YES"] /\ WalletAmount(tx.ins, "NO") \in 0..h["NO"]
        BY <1>11, <2>1
    <2> QED BY <2>2 DEF Tokens
<1>15. EffectOK(tx, signed)
    BY <1>12, <1>13 DEF EffectOK
<1> QED
    BY <1>10, <1>12, <1>14, <1>15 DEF RequestOK

(* What a redemption leaves at the market. *)
RedeemedOuts(slot, rest) == IF rest > 0 THEN <<CollOut(slot, rest)>> ELSE <<NoOut>>

RedemptionBase(slot, asset, n, rest, payout) ==
    IF rest > 0
    THEN << explicit_txout("COLLATERAL", rest, slot), burn_txout(asset, n),
            explicit_txout("COLLATERAL", payout, "Wallet") >>
    ELSE << burn_txout(asset, n), explicit_txout("COLLATERAL", payout, "Wallet") >>

RedemptionOuts(s, base, asset, left, y) ==
    s = base \o Change(asset, left) \o Change("COLLATERAL", y)

Redeemed(tx, slot, asset, n, rest, left) ==
    /\ DOMAIN tx.outs \subseteq Nat
    /\ Creates(tx, RedeemedOuts(slot, rest))
    /\ n \in OutAmounts(tx)
    /\ asset = "YES" => WalletAmount(tx.outs, "YES") = left /\ WalletAmount(tx.outs, "NO") = 0
    /\ asset = "NO" => WalletAmount(tx.outs, "YES") = 0 /\ WalletAmount(tx.outs, "NO") = left

(* The outputs of a redemption, whether or not it takes all the collateral. *)
LEMMA RedemptionBaseIs ==
    ASSUME NEW st \in Terminal, NEW slot, slot = TerminalSlot(st), NEW asset \in Tokens,
           NEW n \in Nat, NEW rest \in Nat, NEW payout \in Nat, NEW base,
           base = RedemptionBase(slot, asset, n, rest, payout)
    PROVE  /\ Outputs(base, base, 0, 0)
           /\ \A tx : Pays(tx, base, {}, WalletAmount(tx.outs, "YES"), WalletAmount(tx.outs, "NO"))
                 => Creates(tx, RedeemedOuts(slot, rest)) /\ n \in OutAmounts(tx)
<1> DEFINE o1 == explicit_txout("COLLATERAL", rest, slot)
           o2 == burn_txout(asset, n)
           o3 == explicit_txout("COLLATERAL", payout, "Wallet")
           w == RedeemedOuts(slot, rest)
           pos == {}
<1>0. slot \in MarketSlot /\ slot # "Wallet"
    BY DEF Terminal, TerminalSlot, MarketSlot
<1>1. o1 \in OutRec /\ o2 \in OutRec /\ o3 \in OutRec
    BY <1>0 DEF OutRec, Script, MarketSlot, Asset, Tokens, explicit_txout, burn_txout
<1>2. /\ Carries(o1, "YES") = 0 /\ Carries(o2, "YES") = 0 /\ Carries(o3, "YES") = 0
      /\ Carries(o1, "NO") = 0 /\ Carries(o2, "NO") = 0 /\ Carries(o3, "NO") = 0
    BY <1>0 DEF Tokens, Carries, explicit_txout, burn_txout
<1>3. o1.script = slot /\ o2.script = "Burn" /\ o3.script = "Wallet"
    BY DEF explicit_txout, burn_txout
<1>4. ASSUME NEW k
      PROVE  /\ Blinded(o2, k, pos).script = "Burn" /\ Blinded(o2, k, pos).amount = n
             /\ Blinded(o3, k, pos).script = "Wallet"
    BY DEF Blinded, burn_txout, explicit_txout
<1>5. Blinded(o1, 1, pos) = CollOut(slot, rest)
    <2>1. 1 \notin pos
        OBVIOUS
    <2> QED BY <1>0, <2>1, BlindedColl
<1>6. CollOut(slot, rest).script = slot /\ NoOut.script = "Burn"
    BY DEF CollOut, NoOut
<1>7. CASE rest > 0
    <2>1. base = <<o1, o2, o3>> /\ w = <<CollOut(slot, rest)>>
        BY <1>7 DEF RedemptionBase, RedeemedOuts
    <2> HIDE DEF o1, o2, o3, pos, w
    <2>2. /\ base \in Seq(OutRec) /\ Len(base) = 3
          /\ base[1] = o1 /\ base[2] = o2 /\ base[3] = o3
        BY <1>1, <2>1
    <2>3. DOMAIN w = 1..1 /\ w[1] = CollOut(slot, rest)
        BY <2>1
    <2>4. \A k \in 1..Len(base) : k = 1 \/ k = 2 \/ k = 3
        BY <2>2
    <2>5. Outputs(base, base, 0, 0)
        <3>1. \A k \in 1..Len(base) : Carries(base[k], "YES") = 0 /\ Carries(base[k], "NO") = 0
            BY <1>2, <2>2, <2>4
        <3> QED BY <2>2, <3>1, PlainOutputs
    <2>6. ASSUME NEW tx, NEW yes, NEW no, Pays(tx, base, pos, yes, no)
          PROVE  Creates(tx, w) /\ n \in OutAmounts(tx)
        <3>1. \A k \in DOMAIN w : k \in 1..Len(base)
            BY <2>2, <2>3
        <3>2. \A k \in 1..Len(base) : base[k].script \in MarketSlot =>
                   /\ k \in DOMAIN w /\ w[k].script \in MarketSlot
                   /\ w[k] = Blinded(base[k], k, pos)
            BY <1>0, <1>3, <1>5, <1>6, <2>2, <2>3, <2>4 DEF MarketSlot
        <3>3. \A k \in DOMAIN w : w[k].script \in MarketSlot => base[k].script \in MarketSlot
            BY <1>0, <1>3, <2>2, <2>3
        <3>4. \A k \in 1..Len(base) : Blinded(base[k], k, pos).script = base[k].script
            BY <1>3, <1>4, <1>5, <1>6, <2>2, <2>4
        <3>5. Creates(tx, w)
            BY <2>6, <3>1, <3>2, <3>3, <3>4, PaysCreates
        <3>6. 2 \in 1..Len(base)
            BY <2>2
        <3>7. 2 \in DOMAIN tx.outs /\ tx.outs[2].amount = n
            BY <1>4, <2>2, <2>6, <3>6 DEF Pays
        <3> QED BY <3>5, <3>7 DEF OutAmounts
    <2> QED BY <2>5, <2>6 DEF w, pos
<1>8. CASE ~(rest > 0)
    <2>1. base = <<o2, o3>> /\ w = <<NoOut>>
        BY <1>8 DEF RedemptionBase, RedeemedOuts
    <2> HIDE DEF o1, o2, o3, pos, w
    <2>2. /\ base \in Seq(OutRec) /\ Len(base) = 2
          /\ base[1] = o2 /\ base[2] = o3
        BY <1>1, <2>1
    <2>3. DOMAIN w = 1..1 /\ w[1] = NoOut
        BY <2>1
    <2>4. \A k \in 1..Len(base) : k = 1 \/ k = 2
        BY <2>2
    <2>5. Outputs(base, base, 0, 0)
        <3>1. \A k \in 1..Len(base) : Carries(base[k], "YES") = 0 /\ Carries(base[k], "NO") = 0
            BY <1>2, <2>2, <2>4
        <3> QED BY <2>2, <3>1, PlainOutputs
    <2>6. ASSUME NEW tx, NEW yes, NEW no, Pays(tx, base, pos, yes, no)
          PROVE  Creates(tx, w) /\ n \in OutAmounts(tx)
        <3>1. \A k \in DOMAIN w : k \in 1..Len(base)
            BY <2>2, <2>3
        <3>2. \A k \in 1..Len(base) : base[k].script \in MarketSlot =>
                   /\ k \in DOMAIN w /\ w[k].script \in MarketSlot
                   /\ w[k] = Blinded(base[k], k, pos)
            BY <1>3, <2>2, <2>4 DEF MarketSlot
        <3>3. \A k \in DOMAIN w : w[k].script \in MarketSlot => base[k].script \in MarketSlot
            BY <1>6, <2>2, <2>3 DEF MarketSlot
        <3>4. \A k \in 1..Len(base) : Blinded(base[k], k, pos).script = base[k].script
            BY <1>3, <1>4, <2>2, <2>4
        <3>5. Creates(tx, w)
            BY <2>6, <3>1, <3>2, <3>3, <3>4, PaysCreates
        <3>6. 1 \in 1..Len(base)
            BY <2>2
        <3>7. 1 \in DOMAIN tx.outs /\ tx.outs[1].amount = n
            BY <1>4, <2>2, <2>6, <3>6 DEF Pays
        <3> QED BY <3>5, <3>7 DEF OutAmounts
    <2> QED BY <2>5, <2>6 DEF w, pos
<1> QED
    BY <1>7, <1>8

(* They pay the change in the asset redeemed. *)
LEMMA RedemptionTx ==
    ASSUME NEW st \in Terminal, NEW slot, slot = TerminalSlot(st), NEW asset \in Tokens,
           NEW n \in Nat, NEW rest \in Nat, NEW payout \in Nat, NEW left \in Nat, NEW y \in Nat,
           NEW base, base = RedemptionBase(slot, asset, n, rest, payout),
           NEW s, RedemptionOuts(s, base, asset, left, y),
           NEW outs, WithFee(outs, s), NEW tx, Blinds(tx, outs, {})
    PROVE  s \in Seq(OutRec) /\ Redeemed(tx, slot, asset, n, rest, left)
<1> DEFINE yes == IF asset = "YES" THEN left ELSE 0
           no == IF asset = "NO" THEN left ELSE 0
<1>1. yes \in Nat /\ no \in Nat /\ 0 \in Nat /\ 0 + left = left
    OBVIOUS
<1>2. Outputs(base, base, 0, 0)
    BY RedemptionBaseIs
<1>3. Outputs(base \o Change(asset, left), base, yes, no)
    <2>1. Outputs(base \o Change("YES", left), base, 0 + left, 0)
        BY <1>1, <1>2, OutputsChange
    <2>2. Outputs(base \o Change("NO", left), base, 0, 0 + left)
        BY <1>1, <1>2, OutputsChange
    <2> QED BY <1>1, <2>1, <2>2 DEF Tokens
<1> HIDE DEF yes, no
<1>4. Outputs(s, base, yes, no)
    <2>1. Outputs((base \o Change(asset, left)) \o Change("COLLATERAL", y), base, yes, no)
        BY <1>1, <1>3, OutputsChange
    <2> QED BY <2>1 DEF RedemptionOuts
<1>5. Outputs(outs, base, yes, no)
    <2>1. Outputs(s \o <<fee_txout>>, base, yes, no)
        BY <1>1, <1>4, OutputsChange
    <2> QED BY <2>1 DEF WithFee
<1>6. Pays(tx, base, {}, yes, no)
    <2> DEFINE pos == {}
    <2>1. (\A k \in pos : k \in 1..Len(base) /\ base[k].script # "Wallet") /\ Blinds(tx, outs, pos)
        OBVIOUS
    <2> HIDE DEF pos
    <2>2. Pays(tx, base, pos, yes, no)
        BY <1>1, <1>5, <2>1, BlindsOutputs
    <2> QED BY <2>2 DEF pos
<1>7. /\ DOMAIN tx.outs \subseteq Nat
      /\ WalletAmount(tx.outs, "YES") = yes /\ WalletAmount(tx.outs, "NO") = no
    BY <1>6 DEF Pays
<1>8. Creates(tx, RedeemedOuts(slot, rest)) /\ n \in OutAmounts(tx)
    <2>1. Pays(tx, base, {}, WalletAmount(tx.outs, "YES"), WalletAmount(tx.outs, "NO"))
        BY <1>6, <1>7
    <2> QED BY <2>1, RedemptionBaseIs
<1>9. s \in Seq(OutRec)
    BY <1>4 DEF Outputs
<1> QED
    BY <1>7, <1>8, <1>9 DEF Redeemed, yes, no

(* A redemption, of the winning token or of either after expiry. *)
LEMMA RedeemOK ==
    ASSUME Shape(utxos, state, txs), state \in Terminal, utxos # {}, NEW h \in [Tokens -> Nat],
           NEW asset \in Tokens, state = "ResolvedYes" => asset = "YES",
           state = "ResolvedNo" => asset = "NO", NEW n \in Nat, NEW payout \in Nat,
           payout = (IF state = "Expired" THEN n * CollateralPerToken
                                          ELSE required_collateral(n)),
           payout <= classify_covenant_utxos.coll.amount,
           NEW total \in Nat, n <= total, total <= h[asset],
           NEW fee, NEW y \in Nat, y = fee - FeeAmount, NEW lock,
           NEW q, q = RedemptionPset(classify_covenant_utxos, asset, n, payout, total, fee, lock),
           NEW p, p = ensure_fee_output_last(q), NEW tx, tx = PlainBlind(p)
    PROVE  RequestOK(tx, h, utxos, txs, signed)
<1> DEFINE b == classify_covenant_utxos
           amount == b.coll.amount
           rest == amount - payout
           left == total - n
           slot == TerminalSlot(state)
           base == RedemptionBase(slot, asset, n, rest, payout)
           i1 == add_pset_input(b.coll)
           i2 == add_pset_input(WalletUtxo(asset, total))
           i3 == add_pset_input(WalletUtxo("COLLATERAL", fee))
           ins == <<i1, i2, i3>>
           s == base \o Change(asset, left) \o Change("COLLATERAL", y)
           outs == s \o <<fee_txout>>
           slots == <<slot>>
<1>1. PICK k \in Ids(txs), v \in 1..U64Max : b.coll = Coll(k, slot, v) /\ b.coll \in utxos
    BY BundleIs
<1>2. /\ i1.script = slot /\ Prevout(i1) \in utxos
      /\ i1.amount = amount /\ amount = v /\ b.coll.script = slot
    BY <1>1, InputKinds DEF add_pset_input, Coll
<1>3. /\ i2.script = "Wallet" /\ i2.asset = asset /\ i2.amount = total
      /\ i3.script = "Wallet" /\ i3.asset = "COLLATERAL"
    BY InputKinds DEF add_pset_input
<1>5. /\ amount \in Nat /\ rest \in Nat /\ left \in Nat /\ payout <= amount
    BY <1>2, CovenantAssumption
<1>b. q = [ins |-> ins, outs |-> outs, lock |-> lock]
    BY <1>2 DEF RedemptionPset, RedemptionBase
<1>4. IsPset(q, ins, outs, lock)
    BY <1>b DEF IsPset
<1>6. slot \in MarketSlot
    BY DEF MarketSlot, TerminalSlot, Terminal
<1>8. RedemptionOuts(s, base, asset, left, y)
    BY DEF RedemptionOuts
<1>r. rest = amount - payout /\ left = total - n /\ slot = TerminalSlot(state)
      /\ base = RedemptionBase(slot, asset, n, rest, payout)
    OBVIOUS
<1> HIDE DEF b, i1, i2, i3, amount, rest, left, slot, base
<1>7. DOMAIN ins = 1..3 /\ ins[1] = i1 /\ ins[2] = i2 /\ ins[3] = i3
    OBVIOUS
<1>s. slots = <<slot>> /\ DOMAIN slots = 1..1 /\ slots[1] = slot
    OBVIOUS
<1>o. WithFee(outs, s)
    BY DEF WithFee
<1> HIDE DEF ins, outs, s, slots
<1>i. (\A j \in 1..3 : j = 1 \/ j = 2 \/ j = 3) /\ (\A j \in 1..1 : j = 1) /\ 1 \in 1..3 /\ 2 \in 1..3
      /\ 1 \in 1..1
    OBVIOUS
<1>q. p = q
    <2>1. Blinds(PlainBlind(q), outs, {})
        BY <1>4, PlainBlindFields
    <2>2. s \in Seq(OutRec)
        BY <1>5, <1>8, <1>o, <1>r, <2>1, RedemptionTx
    <2> QED BY <1>4, <1>o, <2>2, FeeIsLast DEF WithFee
<1>9. tx.ins = ins /\ Blinds(tx, outs, {})
    BY <1>4, <1>q, PlainBlindFields
<1>t. tx.ins[1].amount = amount
    BY <1>2, <1>7, <1>9
<1>10. SpendsSlots(tx, slots) /\ InputsOK(tx, utxos, txs)
    <2>1. \A j \in DOMAIN slots : /\ j \in DOMAIN tx.ins
                                  /\ tx.ins[j].script = slots[j] /\ slots[j] \in MarketSlot
                                  /\ Prevout(tx.ins[j]) \in utxos
        BY <1>2, <1>6, <1>7, <1>9, <1>s, <1>i
    <2>2. \A j \in DOMAIN tx.ins : j \notin DOMAIN slots => tx.ins[j].script = "Wallet"
        BY <1>3, <1>7, <1>9, <1>s, <1>i
    <2> QED BY <2>1, <2>2, InputsAre
<1>11. /\ WalletAmount(tx.ins, asset) = total
       /\ \A a \in Tokens \ {asset} : WalletAmount(tx.ins, a) = 0
    <2>1. /\ Carries(ins[2], asset) = total
          /\ \A j \in DOMAIN ins \ {2} : \A a \in Tokens : Carries(ins[j], a) = 0
          /\ \A a \in Tokens \ {asset} : Carries(ins[2], a) = 0
        BY <1>2, <1>3, <1>6, <1>7, <1>i DEF Carries, Tokens, MarketSlot
    <2>2. IsFiniteSet(DOMAIN ins) /\ 2 \in DOMAIN ins
        <3>1. 3 \in Nat
            OBVIOUS
        <3> QED BY <1>7, <1>i, <3>1, FinitePrefix
    <2>3. WalletAmount(ins, asset) = total
        BY <2>1, <2>2, WalletOne
    <2>4. ASSUME NEW a \in Tokens \ {asset} PROVE WalletAmount(ins, a) = 0
        <3>1. \A j \in DOMAIN ins : Carries(ins[j], a) = 0
            BY <2>1
        <3> QED BY <2>2, <3>1, WalletNone
    <2> QED BY <1>9, <2>3, <2>4
<1>12. Redeemed(tx, slot, asset, n, rest, left)
    BY <1>5, <1>8, <1>9, <1>o, <1>r, RedemptionTx
<1>13. Redeems(tx, state, n, payout)
    <2>1. \/ state # "ResolvedNo" /\ Moves(tx, total, 0, total - n, 0)
          \/ state # "ResolvedYes" /\ Moves(tx, 0, total, 0, total - n)
        <3>1. CASE asset = "YES"
            BY <1>11, <1>12, <1>r, <3>1 DEF Redeemed, Moves, Tokens
        <3>2. CASE asset = "NO"
            BY <1>11, <1>12, <1>r, <3>2 DEF Redeemed, Moves, Tokens
        <3> QED BY <3>1, <3>2 DEF Tokens
    <2>2. SpendsSlots(tx, <<TerminalSlot(state)>>)
        BY <1>10, <1>s, <1>r
    <2>3. Creates(tx, IF tx.ins[1].amount - payout > 0
                      THEN <<CollOut(TerminalSlot(state), tx.ins[1].amount - payout)>>
                      ELSE <<NoOut>>)
        BY <1>12, <1>r, <1>t DEF Redeemed, RedeemedOuts
    <2> QED BY <1>5, <1>t, <2>1, <2>2, <2>3 DEF Redeems
<1>14. \A a \in Tokens : WalletAmount(tx.ins, a) \in 0..h[a]
    <2>1. \A a \in Tokens : h[a] \in Nat
        OBVIOUS
    <2> QED BY <1>11, <2>1
<1>15. EffectOK(tx, signed)
    <2>1. Redeem(tx, state, n)
        BY <1>13 DEF Redeem
    <2> QED BY <1>12, <2>1 DEF EffectOK, Redeemed
<1> QED
    BY <1>10, <1>12, <1>14, <1>15 DEF RequestOK, Redeemed

-----------------------------------------------------------------------------
(* The steps of a request. *)

(* What a wallet adds covers what it pays for. *)
LEMMA InputsCover ==
    /\ \A n \in Nat : required_collateral(n) \in Nat
    /\ \A fee \in FeeInputs : fee - FeeAmount \in Nat
    /\ \A n \in Nat : \A wallet \in CollateralInputs(n) : wallet - required_collateral(n) \in Nat
    /\ Amounts \subseteq Nat
<1>1. \A n \in Nat : required_collateral(n) \in Nat
    BY CovenantAssumption DEF required_collateral
<1>2. \A fee \in FeeInputs : fee - FeeAmount \in Nat
    <2> SUFFICES ASSUME NEW fee \in FeeInputs PROVE fee - FeeAmount \in Nat
        OBVIOUS
    <2>1. PICK x \in Surplus : fee = FeeAmount + x
        BY DEF FeeInputs
    <2>2. x \in Nat /\ FeeAmount \in Nat
        BY FeeAssumption, MarketAssumption
    <2> QED BY <2>1, <2>2
<1>3. ASSUME NEW n \in Nat, NEW wallet \in CollateralInputs(n)
      PROVE  wallet - required_collateral(n) \in Nat
    <2>1. PICK x \in Surplus : wallet = required_collateral(n) + x
        BY <1>3 DEF CollateralInputs
    <2>2. x \in Nat /\ required_collateral(n) \in Nat
        BY <1>1, MarketAssumption
    <2> QED BY <2>1, <2>2
<1>4. Amounts \subseteq Nat
    BY MarketAssumption DEF Amounts
<1> QED
    BY <1>1, <1>2, <1>3, <1>4

(* A transaction is kept for broadcast. *)
LEMMA PrepareInv ==
    ASSUME Inv, NEW c \in Clients, NEW a, NEW next, Prepare(c, a, next),
           RequestOK(a.tx, holdings[c], utxos, txs, signed)
    PROVE  Inv' /\ UNCHANGED Lifecycle!vars
<1> DEFINE r == [stage |-> "broadcast", tx |-> a.tx, witnesses |-> a.witnesses, next |-> next]
<1>1. /\ request' = [request EXCEPT ![c] = r]
      /\ UNCHANGED <<utxos, state, severed, txs, height, signed, holdings>>
    BY DEF Prepare
<1>2. r.stage = "broadcast" /\ r.tx = a.tx
    OBVIOUS
<1> HIDE DEF r
<1>3. r.stage \in {"idle", "broadcast", "finalized"}
    BY <1>2
<1> QED
    BY <1>1, <1>2, <1>3, RequestStep

(* A request ends. *)
LEMMA IdleInv ==
    ASSUME Inv, NEW c \in Clients, request' = [request EXCEPT ![c] = Idle],
           UNCHANGED <<utxos, state, severed, txs, height, signed, holdings>>
    PROVE  Inv' /\ UNCHANGED Lifecycle!vars
<1> DEFINE r == Idle
<1>1. r.stage = "idle" /\ r.stage \in {"idle", "broadcast", "finalized"}
      /\ ~(r.stage = "broadcast")
    BY DEF Idle
<1>2. request' = [request EXCEPT ![c] = r]
    OBVIOUS
<1> HIDE DEF r
<1> QED
    BY <1>1, <1>2, RequestStep

(* issue_tokens. *)
LEMMA IssueInv ==
    ASSUME Inv, NEW c \in Clients, NEW n \in Nat, NEW fee \in FeeInputs, IssueTokens(c, n, fee)
    PROVE  Inv' /\ UNCHANGED Lifecycle!vars
<1> DEFINE b == classify_covenant_utxos
<1>1. /\ state \in {"Dormant", "Unresolved"} /\ Fits(required_collateral(n))
      /\ state = "Unresolved" =>
            Fits(classify_covenant_utxos.coll.amount + required_collateral(n))
    BY DEF IssueTokens, scan_market_state
<1>2. PICK wallet \in CollateralInputs(n) :
          Prepare(c, assemble_issuance(state, b, n, wallet, fee), <<>>)
    BY DEF IssueTokens
<1>3. /\ required_collateral(n) \in Nat /\ fee - FeeAmount \in Nat
      /\ wallet - required_collateral(n) \in Nat
    BY InputsCover
<1>4. Shape(utxos, state, txs) /\ holdings[c] \in [Tokens -> Nat]
    BY DEF Inv
<1> DEFINE a == assemble_issuance(state, b, n, wallet, fee)
           h == holdings[c]
<1>5. CASE state = "Dormant"
    <2> DEFINE p == build_initial_issuance_pset(b, n, wallet, fee)
               tx == TokenBlind(p)
    <2>1. a.tx = tx
        BY <1>5 DEF assemble_issuance, Assembled, TokenBlind
    <2>2. p = build_initial_issuance_pset(classify_covenant_utxos, n, wallet, fee) /\ tx = TokenBlind(p)
        OBVIOUS
    <2> HIDE DEF a, p, tx, h
    <2>3. h \in [Tokens -> Nat]
        BY <1>4 DEF h
    <2>4. RequestOK(tx, h, utxos, txs, signed)
        BY <1>1, <1>3, <1>4, <1>5, <2>2, <2>3, InitialIssueOK
    <2>5. RequestOK(a.tx, holdings[c], utxos, txs, signed)
        BY <2>1, <2>4 DEF h
    <2>6. Prepare(c, a, <<>>)
        BY <1>2 DEF a
    <2> QED BY <2>5, <2>6, PrepareInv
<1>6. CASE state = "Unresolved"
    <2> DEFINE p == build_subsequent_issuance_pset(b, n, wallet, fee)
               tx == TokenBlind(p)
    <2>1. a.tx = tx
        BY <1>6 DEF assemble_issuance, Assembled, TokenBlind
    <2>2. p = build_subsequent_issuance_pset(classify_covenant_utxos, n, wallet, fee) /\ tx = TokenBlind(p)
        OBVIOUS
    <2> HIDE DEF a, p, tx, h
    <2>3. h \in [Tokens -> Nat]
        BY <1>4 DEF h
    <2>4. RequestOK(tx, h, utxos, txs, signed)
        BY <1>1, <1>3, <1>4, <1>6, <2>2, <2>3, SubsequentIssueOK
    <2>5. RequestOK(a.tx, holdings[c], utxos, txs, signed)
        BY <2>1, <2>4 DEF h
    <2>6. Prepare(c, a, <<>>)
        BY <1>2 DEF a
    <2> QED BY <2>5, <2>6, PrepareInv
<1> QED
    BY <1>1, <1>5, <1>6

(* cancel_tokens. *)
LEMMA CancelInv ==
    ASSUME Inv, NEW c \in Clients, NEW n \in Nat, NEW fee \in FeeInputs, CancelTokens(c, n, fee)
    PROVE  Inv' /\ UNCHANGED Lifecycle!vars
<1> DEFINE b == classify_covenant_utxos
           h == holdings[c]
           refund == required_collateral(n)
           y == fee - FeeAmount
<1>1. state = "Unresolved" /\ b.coll.amount >= refund
    BY DEF CancelTokens, scan_market_state
<1>2. PICK yes \in TokenInputs(c, "YES", n), no \in TokenInputs(c, "NO", n) :
          Prepare(c, assemble_cancellation(b, n, yes, no, fee), <<>>)
    BY DEF CancelTokens
<1>3. refund \in Nat /\ y \in Nat
    BY InputsCover
<1>4. Shape(utxos, state, txs) /\ h \in [Tokens -> Nat]
    BY DEF Inv
<1>5. h["YES"] \in Nat /\ h["NO"] \in Nat
    BY <1>4 DEF Tokens
<1>6. /\ yes \in Nat /\ no \in Nat /\ n <= yes /\ n <= no /\ yes <= h["YES"] /\ no <= h["NO"]
    BY <1>2, <1>5 DEF TokenInputs
<1>7. PICK k \in Ids(txs), v \in 1..U64Max : b.coll = Coll(k, "UnresolvedCollateral", v)
    BY <1>1, <1>4, BundleIs
<1>8. b.coll.amount \in Nat
    BY <1>7, CovenantAssumption DEF Coll
<1> DEFINE a == assemble_cancellation(b, n, yes, no, fee)
           q == build_cancellation_pset(b, n, yes, no, fee)
           p == ensure_fee_output_last(q)
<1>9. CASE b.coll.amount = refund
    <2> DEFINE tx == TokenBlind(p)
    <2>1. a.tx = tx
        BY <1>9 DEF assemble_cancellation, Assembled, TokenBlind
    <2>2. /\ q = build_cancellation_pset(classify_covenant_utxos, n, yes, no, fee)
          /\ p = ensure_fee_output_last(q) /\ tx = TokenBlind(p)
          /\ refund = required_collateral(n) /\ classify_covenant_utxos.coll.amount = refund
          /\ y = fee - FeeAmount
        BY <1>9
    <2> HIDE DEF a, p, q, tx, h, refund, y
    <2>3. RequestOK(tx, h, utxos, txs, signed)
        BY <1>1, <1>3, <1>4, <1>6, <2>2, FullCancelOK
    <2>4. RequestOK(a.tx, holdings[c], utxos, txs, signed)
        BY <2>1, <2>3 DEF h
    <2>5. Prepare(c, a, <<>>)
        BY <1>2 DEF a
    <2> QED BY <2>4, <2>5, PrepareInv
<1>10. CASE b.coll.amount # refund
    <2> DEFINE tx == PlainBlind(p)
    <2>1. a.tx = tx
        BY <1>10 DEF assemble_cancellation, Assembled, PlainBlind
    <2>2. /\ q = build_cancellation_pset(classify_covenant_utxos, n, yes, no, fee)
          /\ p = ensure_fee_output_last(q) /\ tx = PlainBlind(p)
          /\ refund = required_collateral(n)
          /\ y = fee - FeeAmount
        OBVIOUS
    <2>3. classify_covenant_utxos.coll.amount > refund
        BY <1>1, <1>3, <1>8, <1>10
    <2> HIDE DEF a, p, q, tx, h, refund, y
    <2>4. RequestOK(tx, h, utxos, txs, signed)
        BY <1>1, <1>3, <1>4, <1>6, <2>2, <2>3, PartialCancelOK
    <2>5. RequestOK(a.tx, holdings[c], utxos, txs, signed)
        BY <2>1, <2>4 DEF h
    <2>6. Prepare(c, a, <<>>)
        BY <1>2 DEF a
    <2> QED BY <2>5, <2>6, PrepareInv
<1> QED
    BY <1>9, <1>10

(* The covenant checked the signature before the SDK kept the transaction. *)
LEMMA ResolutionSigned ==
    ASSUME NEW b, NEW outcomeYes, NEW sig, NEW fee,
           attach_covenant_witnesses(assemble_oracle_resolve(b, outcomeYes, sig, fee))
    PROVE  sig = outcomeYes
<1> DEFINE a == assemble_oracle_resolve(b, outcomeYes, sig, fee)
           w == [Witness("OracleResolvePrimary", "UnresolvedYesRt")
                    EXCEPT !.outcome_yes = outcomeYes, !.sig = sig]
<1>1. 1 \in DOMAIN a.witnesses /\ a.witnesses[1] = w
    BY DEF assemble_oracle_resolve, Assembled
<1>2. w.path = "OracleResolvePrimary" /\ w.outcome_yes = outcomeYes /\ w.sig = sig
    BY DEF Witness
<1>3. attach_covenant_witnesses(a)
    OBVIOUS
<1> HIDE DEF a, w
<1>4. main(a.tx, 1 - 1, w)
    BY <1>1, <1>3 DEF attach_covenant_witnesses
<1>5. oracle_resolve_primary_path(a.tx, 1 - 1, w)
    BY <1>2, <1>4 DEF main
<1> QED
    BY <1>2, <1>5 DEF oracle_resolve_primary_path, verify_oracle_signature

(* resolve_market. *)
LEMMA ResolveInv ==
    ASSUME Inv, NEW c \in Clients, NEW outcomeYes \in BOOLEAN, NEW sig \in signed,
           NEW fee \in FeeInputs, ResolveMarket(c, outcomeYes, sig, fee)
    PROVE  Inv' /\ UNCHANGED Lifecycle!vars
<1> DEFINE b == classify_covenant_utxos
           h == holdings[c]
           a == assemble_oracle_resolve(b, outcomeYes, sig, fee)
<1>1. state = "Unresolved" /\ Prepare(c, a, <<>>)
    BY DEF ResolveMarket, scan_market_state
<1>2. attach_covenant_witnesses(a)
    BY <1>1 DEF Prepare
<1>3. outcomeYes \in signed
    BY <1>2, ResolutionSigned
<1>4. Shape(utxos, state, txs) /\ h \in [Tokens -> Nat] /\ fee - FeeAmount \in Nat
    BY InputsCover DEF Inv
<1>5. ASSUME NEW st \in Terminal, NEW target, target = TerminalSlot(st),
             st = "ResolvedYes" => TRUE \in signed, st = "ResolvedNo" => FALSE \in signed,
             st # "Expired", build_oracle_resolve_pset(b, outcomeYes, fee) = TerminalPset(b, target, fee, 0)
      PROVE  Inv' /\ UNCHANGED Lifecycle!vars
    <2> DEFINE p == TerminalPset(b, target, fee, 0)
               tx == TokenBlind(p)
    <2>1. a.tx = tx
        BY <1>5 DEF assemble_oracle_resolve, Assembled, TokenBlind
    <2>2. p = TerminalPset(classify_covenant_utxos, target, fee, 0) /\ tx = TokenBlind(p)
        OBVIOUS
    <2> HIDE DEF a, p, tx, h
    <2>3. RequestOK(tx, h, utxos, txs, signed)
        BY <1>1, <1>4, <1>5, <2>2, ConcludeOK
    <2>4. RequestOK(a.tx, holdings[c], utxos, txs, signed)
        BY <2>1, <2>3 DEF h
    <2> QED BY <1>1, <2>4, PrepareInv
<1>6. CASE outcomeYes = TRUE
    <2>1. /\ "ResolvedYes" \in Terminal /\ TerminalSlot("ResolvedYes") = "ResolvedYesCollateral"
          /\ TRUE \in signed
        BY <1>3, <1>6 DEF Terminal, TerminalSlot
    <2>2. build_oracle_resolve_pset(b, outcomeYes, fee) =
             TerminalPset(b, "ResolvedYesCollateral", fee, 0)
        BY <1>6 DEF build_oracle_resolve_pset
    <2> QED BY <1>5, <2>1, <2>2
<1>7. CASE outcomeYes = FALSE
    <2>1. /\ "ResolvedNo" \in Terminal /\ TerminalSlot("ResolvedNo") = "ResolvedNoCollateral"
          /\ FALSE \in signed
        BY <1>3, <1>7 DEF Terminal, TerminalSlot
    <2>2. build_oracle_resolve_pset(b, outcomeYes, fee) =
             TerminalPset(b, "ResolvedNoCollateral", fee, 0)
        BY <1>7 DEF build_oracle_resolve_pset
    <2> QED BY <1>5, <2>1, <2>2
<1> QED
    BY <1>6, <1>7

(* The finalisation of redeem_expired. *)
LEMMA FinalizeInv ==
    ASSUME Inv, NEW c \in Clients, NEW asset, NEW n, NEW fee \in FeeInputs,
           RedeemExpiredFinalize(c, asset, n, fee)
    PROVE  Inv' /\ UNCHANGED Lifecycle!vars
<1> DEFINE b == classify_covenant_utxos
           h == holdings[c]
           a == assemble_expire_transition(b, fee)
           st == "Expired"
           target == "ExpiredCollateral"
           p == TerminalPset(b, target, fee, ExpiryTime)
           tx == TokenBlind(p)
<1>1. state = "Unresolved" /\ Prepare(c, a, <<asset, n>>)
    BY DEF RedeemExpiredFinalize, scan_market_state
<1>2. Shape(utxos, state, txs) /\ h \in [Tokens -> Nat] /\ fee - FeeAmount \in Nat
    BY InputsCover DEF Inv
<1>3. a.tx = tx
    BY DEF assemble_expire_transition, build_expire_transition_pset, Assembled, TokenBlind
<1>4. /\ p = TerminalPset(classify_covenant_utxos, target, fee, ExpiryTime) /\ tx = TokenBlind(p)
      /\ st \in Terminal /\ target = TerminalSlot(st) /\ st # "ResolvedYes" /\ st # "ResolvedNo"
    BY DEF Terminal, TerminalSlot
<1> HIDE DEF a, p, tx, h, st, target
<1>5. RequestOK(tx, h, utxos, txs, signed)
    BY <1>1, <1>2, <1>4, ConcludeOK
<1>6. RequestOK(a.tx, holdings[c], utxos, txs, signed)
    BY <1>3, <1>5 DEF h
<1> QED
    BY <1>1, <1>6, PrepareInv

(* redeem_tokens. *)
LEMMA RedeemInv ==
    ASSUME Inv, NEW c \in Clients, NEW n \in Nat, NEW fee \in FeeInputs, RedeemTokens(c, n, fee)
    PROVE  Inv' /\ UNCHANGED Lifecycle!vars
<1> DEFINE b == classify_covenant_utxos
           h == holdings[c]
           payout == required_collateral(n)
           y == fee - FeeAmount
           asset == winning_token_asset(b)
<1>1. /\ state \in {"ResolvedYes", "ResolvedNo"} /\ utxos # {}
      /\ b.coll.amount >= payout
    BY DEF RedeemTokens, scan_market_state
<1>2. PICK total \in TokenInputs(c, asset, n) :
          Prepare(c, assemble_post_resolution_redemption(b, n, total, fee), <<>>)
    BY DEF RedeemTokens
<1>3. payout \in Nat /\ y \in Nat
    BY InputsCover
<1>4. Shape(utxos, state, txs) /\ h \in [Tokens -> Nat]
    BY DEF Inv
<1>5. PICK k \in Ids(txs), v \in 1..U64Max : b.coll = Coll(k, TerminalSlot(state), v)
    BY <1>1, <1>4, BundleIs DEF Terminal
<1>6. b.coll.amount \in Nat /\ b.coll.script = TerminalSlot(state)
    BY <1>5, CovenantAssumption DEF Coll
<1>7. /\ state = "ResolvedYes" => asset = "YES"
      /\ state = "ResolvedNo" => asset = "NO"
      /\ asset \in Tokens /\ state \in Terminal /\ state # "Expired"
    BY <1>1, <1>6 DEF winning_token_asset, TerminalSlot, Tokens, Terminal
<1>8. total \in Nat /\ n <= total /\ total <= h[asset]
    <2>1. h[asset] \in Nat
        BY <1>4, <1>7
    <2> QED BY <1>2, <2>1 DEF TokenInputs
<1> DEFINE a == assemble_post_resolution_redemption(b, n, total, fee)
           q == RedemptionPset(b, asset, n, payout, total, fee, 0)
           p == ensure_fee_output_last(q)
           tx == PlainBlind(p)
<1>9. a.tx = tx
    BY DEF assemble_post_resolution_redemption, build_post_resolution_redemption_pset, Assembled,
           PlainBlind
<1>10. /\ q = RedemptionPset(classify_covenant_utxos, asset, n, payout, total, fee, 0)
       /\ p = ensure_fee_output_last(q) /\ tx = PlainBlind(p) /\ y = fee - FeeAmount
       /\ payout = (IF state = "Expired" THEN n * CollateralPerToken
                                         ELSE required_collateral(n))
    BY <1>7
<1>11. payout <= classify_covenant_utxos.coll.amount
    BY <1>1, <1>3, <1>6
<1>12. Prepare(c, a, <<>>)
    BY <1>2
<1> HIDE DEF a, p, q, tx, h, payout, y, asset
<1>13. RequestOK(tx, h, utxos, txs, signed)
    BY <1>1, <1>3, <1>4, <1>7, <1>8, <1>10, <1>11, RedeemOK
<1>14. RequestOK(a.tx, holdings[c], utxos, txs, signed)
    BY <1>9, <1>13 DEF h
<1> QED
    BY <1>12, <1>14, PrepareInv

(* The redemption of redeem_expired. *)
LEMMA RedeemExpiredInv ==
    ASSUME Inv, NEW c \in Clients, NEW asset \in Tokens, NEW n \in Nat, NEW fee \in FeeInputs,
           RedeemExpired(c, asset, n, fee)
    PROVE  Inv' /\ UNCHANGED Lifecycle!vars
<1> DEFINE b == classify_covenant_utxos
           h == holdings[c]
           payout == n * CollateralPerToken
           y == fee - FeeAmount
<1>1. state = "Expired" /\ utxos # {} /\ b.coll.amount >= payout
    BY DEF RedeemExpired, scan_market_state
<1>2. PICK total \in TokenInputs(c, asset, n) :
          Prepare(c, assemble_expiry_redemption(b, asset, n, total, fee), <<>>)
    BY DEF RedeemExpired
<1>3. payout \in Nat /\ y \in Nat
    BY InputsCover, CovenantAssumption
<1>4. Shape(utxos, state, txs) /\ h \in [Tokens -> Nat] /\ state \in Terminal
    BY <1>1 DEF Inv, Terminal
<1>5. PICK k \in Ids(txs), v \in 1..U64Max : b.coll = Coll(k, TerminalSlot(state), v)
    BY <1>1, <1>4, BundleIs
<1>6. b.coll.amount \in Nat
    BY <1>5, CovenantAssumption DEF Coll
<1>7. ~(state = "ResolvedYes") /\ ~(state = "ResolvedNo")
    BY <1>1
<1>8. total \in Nat /\ n <= total /\ total <= h[asset]
    <2>1. h[asset] \in Nat
        BY <1>4
    <2> QED BY <1>2, <2>1 DEF TokenInputs
<1> DEFINE a == assemble_expiry_redemption(b, asset, n, total, fee)
           q == RedemptionPset(b, asset, n, payout, total, fee, ExpiryTime)
           p == ensure_fee_output_last(q)
           tx == PlainBlind(p)
<1>9. a.tx = tx
    BY DEF assemble_expiry_redemption, build_expiry_redemption_pset, Assembled, PlainBlind
<1>10. /\ q = RedemptionPset(classify_covenant_utxos, asset, n, payout, total, fee, ExpiryTime)
       /\ p = ensure_fee_output_last(q) /\ tx = PlainBlind(p) /\ y = fee - FeeAmount
       /\ payout = (IF state = "Expired" THEN n * CollateralPerToken
                                         ELSE required_collateral(n))
    BY <1>1
<1>11. payout <= classify_covenant_utxos.coll.amount
    BY <1>1, <1>3, <1>6
<1>12. Prepare(c, a, <<>>)
    BY <1>2
<1> HIDE DEF a, p, q, tx, h, payout, y
<1>13. RequestOK(tx, h, utxos, txs, signed)
    BY <1>1, <1>3, <1>4, <1>7, <1>8, <1>10, <1>11, RedeemOK
<1>14. RequestOK(a.tx, holdings[c], utxos, txs, signed)
    BY <1>9, <1>13 DEF h
<1> QED
    BY <1>12, <1>14, PrepareInv

-----------------------------------------------------------------------------
(* The invariant. *)

(* A fresh market. *)
LEMMA InitInv ==
    ASSUME Init
    PROVE  Inv /\ Lifecycle!Init
<1>1. /\ txs = 0 /\ height = 0 /\ severed = FALSE /\ signed = {} /\ state = "Dormant"
      /\ holdings = [c \in Clients |-> [a \in Tokens |-> 0]]
      /\ request = [c \in Clients |-> Idle]
    BY DEF Init
<1>2. Shape(utxos, state, txs)
    <2> DEFINE y == <<0, 0>>
               n == <<0, 1>>
    <2>1. y \in Ids(txs) /\ n \in Ids(txs) /\ y # n
        BY <1>1 DEF Ids
    <2>2. utxos = DormantSet(y, n)
        BY DEF Init, DormantSet, Rt
    <2> HIDE DEF y, n
    <2> QED BY <1>1, <2>1, <2>2 DEF Shape
<1>3. Collateral = 0
    <2>1. PICK y, n \in Ids(txs) : utxos = DormantSet(y, n)
        BY <1>1, <1>2 DEF Shape, Terminal
    <2> QED BY <1>2, <2>1, CollateralIs, CollateralCases
<1>4. holdings \in [Clients -> [Tokens -> Nat]] /\ \A c \in Clients, a \in Tokens : holdings[c][a] = 0
    BY <1>1
<1>5. ASSUME NEW a \in Tokens PROVE Supply(a) = 0
    <2> DEFINE f == [c \in Clients |-> holdings[c][a]]
    <2>1. \A c \in Clients : f[c] = 0
        BY <1>4
    <2>2. Supply(a) = SumFunctionOnSet(f, Clients)
        BY SupplyIs DEF SupplyOf
    <2> HIDE DEF f
    <2> QED BY <2>1, <2>2, SumZero, MarketAssumption
<1>6. Supply("YES") = 0 /\ Supply("NO") = 0
    BY <1>5 DEF Tokens
<1>7. Lifecycle!Init
    BY <1>1, <1>3, <1>6 DEF Lifecycle!Init
<1>8. LP!Inv
    BY <1>7, SameLifecycle, LP!InitInv, CovenantAssumption
<1>9. RequestsOK /\ DOMAIN request = Clients
    BY <1>1 DEF RequestsOK, Idle
<1>10. Justified(state, signed, height)
    BY <1>1 DEF Justified
<1>11. txs \in 0..MaxTxs /\ height \in 0..MaxHeight
    BY <1>1, MarketAssumption
<1>12. Supply("YES") <= U64Max /\ Supply("NO") <= U64Max
    BY <1>6, CovenantAssumption
<1>13. signed \subseteq BOOLEAN /\ severed \in BOOLEAN
    BY <1>1
<1> QED
    BY <1>2, <1>4, <1>7, <1>8, <1>9, <1>10, <1>11, <1>12, <1>13 DEF Inv

(* Every step keeps it, and is a step of the lifecycle or none. *)
LEMMA NextInv ==
    ASSUME Inv, [Next]_vars
    PROVE  Inv' /\ [Lifecycle!Next]_(Lifecycle!vars)
<1>1. CASE UNCHANGED vars
    <2>1. UNCHANGED <<utxos, state, severed, txs, height, signed, holdings, request>>
        BY <1>1 DEF vars
    <2>2. /\ UNCHANGED Lifecycle!vars /\ LP!Inv'
          /\ Supply("YES")' <= U64Max /\ Supply("NO")' <= U64Max
        BY <2>1, QuietHoldings, Quiet
    <2>3. RequestsOK'
        BY <2>1 DEF Inv, RequestsOK
    <2>4. Inv'
        BY <2>1, <2>2, <2>3 DEF Inv
    <2> QED BY <2>2, <2>4
<1>2. CASE EnvNext
    BY <1>2, BlockInv, OracleInv, TransferInv DEF EnvNext
<1>3. ASSUME NEW c \in Clients, SdkNext(c)
      PROVE  Inv' /\ [Lifecycle!Next]_(Lifecycle!vars)
    <2>1. ASSUME NEW fee \in FeeInputs, NEW n \in Amounts,
                 \/ IssueTokens(c, n, fee)
                 \/ CancelTokens(c, n, fee)
                 \/ RedeemTokens(c, n, fee)
                 \/ \E asset \in Tokens : \/ RedeemExpiredFinalize(c, asset, n, fee)
                                          \/ RedeemExpired(c, asset, n, fee)
          PROVE  Inv' /\ UNCHANGED Lifecycle!vars
        <3>1. n \in Nat
            BY InputsCover
        <3> QED BY <2>1, <3>1, IssueInv, CancelInv, RedeemInv, FinalizeInv, RedeemExpiredInv
    <2>2. ASSUME NEW fee \in FeeInputs, NEW outcomeYes \in BOOLEAN, NEW sig \in signed,
                 ResolveMarket(c, outcomeYes, sig, fee)
          PROVE  Inv' /\ UNCHANGED Lifecycle!vars
        BY <2>2, ResolveInv
    <2>3. CASE RedeemExpiredFail(c)
        BY <2>3, IdleInv DEF RedeemExpiredFail
    <2>4. CASE BroadcastAccepted(c)
        BY <2>4, AcceptedInv
    <2>5. CASE BroadcastRejected(c)
        BY <2>5, IdleInv DEF BroadcastRejected
    <2> QED BY <1>3, <2>1, <2>2, <2>3, <2>4, <2>5 DEF SdkNext
<1> QED
    BY <1>1, <1>2, <1>3 DEF Next

(* The type part of LiveSetCanonical and the rest follow from the shape of *)
(* the live outputs.                                                       *)
LEMMA ShapeCanonical ==
    ASSUME Inv
    PROVE  LiveSetCanonical /\ OutcomeJustified
<1>1. OutcomeJustified
    BY DEF Inv, Justified, OutcomeJustified
<1>2. \A c \in Clients, a \in Tokens : holdings[c][a] \in 0..U64Max
    <2> SUFFICES ASSUME NEW c \in Clients, NEW a \in Tokens PROVE holdings[c][a] \in 0..U64Max
        OBVIOUS
    <2>1. holdings \in [Clients -> [Tokens -> Nat]]
        BY DEF Inv
    <2>2. /\ SupplyOf(holdings, a) \in Nat /\ holdings[c][a] <= SupplyOf(holdings, a)
          /\ holdings[c][a] \in Nat
        BY <2>1, HoldsNoMore
    <2>3. SupplyOf(holdings, a) <= U64Max
        BY SupplyIs DEF Inv, Tokens
    <2> QED BY <2>2, <2>3, CovenantAssumption
<1>3. /\ state \in {"Dormant", "Unresolved", "ResolvedYes", "ResolvedNo", "Expired"}
      /\ severed \in BOOLEAN /\ txs \in 0..MaxTxs /\ height \in 0..MaxHeight
      /\ signed \subseteq BOOLEAN
      /\ \A c \in Clients : request[c].stage \in {"idle", "broadcast", "finalized"}
    BY DEF Inv, Shape, Terminal, RequestsOK
<1> DEFINE Fine(us) ==
        /\ \A u \in us : /\ u.script \in MarketSlot /\ u.asset \in Asset
                         /\ u.amount \in 1..U64Max /\ u.conf \in BOOLEAN
        /\ \A u, v \in us : u.script = v.script => u = v
        /\ \A u \in us : /\ u.asset = SlotAsset(u.script)
                         /\ u.conf <=> (u.asset # "COLLATERAL")
<1>u. 1 \in 1..U64Max
    BY CovenantAssumption
<1>4. CASE state = "Dormant"
    <2>1. PICK y, n \in Ids(txs) : utxos = DormantSet(y, n)
        BY <1>4 DEF Inv, Shape, Terminal
    <2>2. Fine(utxos) /\ utxos # {}
        BY <1>u, <2>1 DEF DormantSet, Rt, MarketSlot, Asset, SlotAsset
    <2>3. derive_state_from_live_slots(LiveSlots) = state
        BY <1>4, <2>1, DeriveCases DEF LiveSlots
    <2> QED BY <1>1, <1>2, <1>3, <1>4, <2>2, <2>3 DEF LiveSetCanonical, TypeOK
<1>5. CASE state = "Unresolved"
    <2>1. PICK y, n, k \in Ids(txs), v \in 1..U64Max : utxos = UnresolvedSet(y, n, k, v)
        BY <1>5 DEF Inv, Shape, Terminal
    <2>2. Fine(utxos) /\ utxos # {}
        BY <1>u, <2>1 DEF UnresolvedSet, Rt, Coll, MarketSlot, Asset, SlotAsset
    <2>3. derive_state_from_live_slots(LiveSlots) = state
        BY <1>5, <2>1, DeriveCases DEF LiveSlots
    <2> QED BY <1>1, <1>2, <1>3, <1>5, <2>2, <2>3 DEF LiveSetCanonical, TypeOK
<1>6. CASE state \in Terminal /\ utxos = {}
    BY <1>1, <1>2, <1>3, <1>6 DEF LiveSetCanonical, TypeOK, Terminal
<1>7. CASE state \in Terminal /\ utxos # {}
    <2>1. PICK k \in Ids(txs), v \in 1..U64Max : utxos = CollSet(k, TerminalSlot(state), v)
        BY <1>7 DEF Inv, Shape, Terminal
    <2> DEFINE slot == TerminalSlot(state)
    <2>s. slot \in MarketSlot /\ SlotAsset(slot) = "COLLATERAL"
        BY <1>7 DEF MarketSlot, SlotAsset, TerminalSlot, Terminal
    <2> HIDE DEF slot
    <2>w. utxos = CollSet(k, slot, v)
        BY <2>1 DEF slot
    <2>2. Fine(utxos)
        BY <2>s, <2>w DEF CollSet, Coll, Asset
    <2>3. derive_state_from_live_slots(LiveSlots) = state
        BY <1>7, <2>1, DeriveCases DEF LiveSlots
    <2> QED BY <1>1, <1>2, <1>3, <1>7, <2>2, <2>3 DEF LiveSetCanonical, TypeOK, Terminal
<1> QED
    BY <1>3, <1>4, <1>5, <1>6, <1>7 DEF Terminal

(* Every reachable state satisfies the inductive invariant. *)
THEOREM MarketInvariant == Spec => []Inv
<1>1. Init => Inv
    BY InitInv
<1>2. Inv /\ [Next]_vars => Inv'
    BY NextInv
<1> QED
    BY <1>1, <1>2, PTL DEF Spec

(* Whatever stale transactions race each other to the chain, the market    *)
(* keeps one of the canonical sets of live outputs.                        *)
THEOREM LiveSetStaysCanonical == Spec => []LiveSetCanonical
<1>1. Inv => LiveSetCanonical
    BY ShapeCanonical
<1> QED
    BY <1>1, MarketInvariant, PTL

(* A market is resolved only as the oracle signed, and expires only at its *)
(* height.                                                                 *)
THEOREM OutcomesAreJustified == Spec => []OutcomeJustified
<1>1. Inv => OutcomeJustified
    BY ShapeCanonical
<1> QED
    BY <1>1, MarketInvariant, PTL

(* The transactions on the chain do what the lifecycle specification says, *)
(* so its collateral and supplies are those of the market.                 *)
THEOREM MarketImplements == Spec => ImplementsLifecycle
<1>1. Init => Lifecycle!Init
    BY InitInv
<1>2. Inv /\ [Next]_vars => [Lifecycle!Next]_(Lifecycle!vars)
    BY NextInv
<1> QED
    BY <1>1, <1>2, MarketInvariant, PTL DEF Spec, ImplementsLifecycle, Lifecycle!Spec

(* Solvency of the market on the chain: whatever requests race, the value of *)
(* its live collateral output is what all YES and NO tokens in wallets can   *)
(* claim from issue_tokens, cancel_tokens, redeem_tokens and redeem_expired. *)
THEOREM MarketIsSolvent == Spec => []Lifecycle!FullyBacked
<1>1. Inv => Lifecycle!FullyBacked
    BY DEF Inv, LP!Inv, Lifecycle!FullyBacked, LP!FullyBacked, Lifecycle!Claims, LP!Claims,
           Lifecycle!CollateralForPairs, LP!CollateralForPairs
<1> QED
    BY <1>1, MarketInvariant, PTL

(* An outcome on the chain is final: after it no race of stale transactions *)
(* changes the market's state or mints a token.                             *)
THEOREM OutcomesAreFinal == Spec => Lifecycle!OutcomeFinal
<1>1. Inv /\ [Next]_vars => [Lifecycle!TerminalStep]_(Lifecycle!vars)
    <2> SUFFICES ASSUME Inv, [Next]_vars
                 PROVE  [Lifecycle!TerminalStep]_(Lifecycle!vars)
        OBVIOUS
    <2>1. UNCHANGED Lifecycle!vars <=> UNCHANGED LP!vars
        BY DEF Lifecycle!vars, LP!vars
    <2>2. [LP!Next]_(LP!vars)
        BY <2>1, NextInv, SameLifecycle
    <2>3. LP!Inv
        BY DEF Inv
    <2>4. LP!Inv /\ [LP!Next]_(LP!vars) => [LP!TerminalStep]_(LP!vars)
        BY LP!TerminalSteps, CovenantAssumption
    <2>5. LP!TerminalStep => Lifecycle!TerminalStep
        BY DEF Lifecycle!TerminalStep, LP!TerminalStep, Lifecycle!Terminal, LP!Terminal
    <2> QED
        BY <2>1, <2>2, <2>3, <2>4, <2>5
<1> QED
    BY <1>1, MarketInvariant, PTL DEF Spec, Lifecycle!OutcomeFinal

-----------------------------------------------------------------------------
(* What a sequence of inputs or outputs carries of an asset. *)

Valued(e, a) == IF e.asset = a THEN e.amount ELSE 0

Total(s, a) == SumFunctionOnSet([k \in DOMAIN s |-> Valued(s[k], a)], DOMAIN s)

(* The balance of the network, in these terms. *)
LEMMA AmountsAre ==
    ASSUME NEW tx, NEW a
    PROVE  InAmount(tx, a) = Total(tx.ins, a) /\ OutAmount(tx, a) = Total(tx.outs, a)
<1>1. /\ DOMAIN [k \in DOMAIN tx.ins |-> Valued(tx.ins[k], a)] = DOMAIN tx.ins
      /\ DOMAIN [k \in DOMAIN tx.outs |-> Valued(tx.outs[k], a)] = DOMAIN tx.outs
    OBVIOUS
<1> QED
    BY <1>1, Zenon DEF InAmount, OutAmount, SumFunction, Total, Valued

(* The sum of a short sequence, written out. *)
LEMMA SumOfFew ==
    ASSUME NEW f, NEW m \in Nat, \A k \in 1..m : f[k] \in Int
    PROVE  /\ SumFunctionOnSet(f, 1..0) = 0
           /\ m >= 1 => SumFunctionOnSet(f, 1..1) = f[1]
           /\ m >= 2 => SumFunctionOnSet(f, 1..2) = f[1] + f[2]
           /\ m >= 3 => SumFunctionOnSet(f, 1..3) = f[1] + f[2] + f[3]
           /\ m >= 4 => SumFunctionOnSet(f, 1..4) = f[1] + f[2] + f[3] + f[4]
           /\ m >= 5 => SumFunctionOnSet(f, 1..5) = f[1] + f[2] + f[3] + f[4] + f[5]
           /\ m >= 6 => SumFunctionOnSet(f, 1..6) = f[1] + f[2] + f[3] + f[4] + f[5] + f[6]
<1> DEFINE Sig(n) == SumFunctionOnSet(f, 1..n)
<1>0. Sig(0) = 0
    <2>1. 1..0 = {}
        OBVIOUS
    <2> QED BY <2>1, SumEmpty
<1>1. ASSUME NEW n \in Nat, n + 1 <= m
      PROVE  Sig(n + 1) = Sig(n) + f[n + 1]
    <2>1. \A k \in 1..n + 1 : f[k] \in Int
        BY <1>1
    <2> QED BY <2>1, SumUpTo
<1> HIDE DEF Sig
<1>2. m >= 1 => Sig(1) = f[1]
    <2>1. ASSUME m >= 1 PROVE Sig(1) = f[1]
        <3>1. Sig(0 + 1) = Sig(0) + f[0 + 1]
            BY <1>1, <2>1
        <3> QED BY <1>0, <2>1, <3>1
    <2> QED BY <2>1
<1>3. ASSUME NEW n \in Nat, n + 1 <= m PROVE Sig(n + 1) = Sig(n) + f[n + 1]
    BY <1>1, <1>3
<1>4. m >= 2 => Sig(1 + 1) = Sig(1) + f[1 + 1]
    BY <1>3
<1>5. m >= 3 => Sig(2 + 1) = Sig(2) + f[2 + 1]
    BY <1>3
<1>6. m >= 4 => Sig(3 + 1) = Sig(3) + f[3 + 1]
    BY <1>3
<1>7. m >= 5 => Sig(4 + 1) = Sig(4) + f[4 + 1]
    BY <1>3
<1>8. m >= 6 => Sig(5 + 1) = Sig(5) + f[5 + 1]
    BY <1>3
<1>9. /\ 1 + 1 = 2 /\ 2 + 1 = 3 /\ 3 + 1 = 4 /\ 4 + 1 = 5 /\ 5 + 1 = 6
    OBVIOUS
<1>10. /\ m >= 2 => Sig(2) = f[1] + f[2]
       /\ m >= 3 => Sig(3) = f[1] + f[2] + f[3]
       /\ m >= 4 => Sig(4) = f[1] + f[2] + f[3] + f[4]
       /\ m >= 5 => Sig(5) = f[1] + f[2] + f[3] + f[4] + f[5]
       /\ m >= 6 => Sig(6) = f[1] + f[2] + f[3] + f[4] + f[5] + f[6]
    BY <1>2, <1>4, <1>5, <1>6, <1>7, <1>8, <1>9
<1> QED
    BY <1>0, <1>2, <1>10 DEF Sig

(* The same for a sequence of inputs or outputs. *)
LEMMA TotalOfFew ==
    ASSUME NEW s, NEW m \in Nat, DOMAIN s = 1..m, NEW a,
           \A k \in 1..m : Valued(s[k], a) \in Int
    PROVE  /\ m = 2 => Total(s, a) = Valued(s[1], a) + Valued(s[2], a)
           /\ m = 3 => Total(s, a) = Valued(s[1], a) + Valued(s[2], a) + Valued(s[3], a)
           /\ m = 4 => Total(s, a) = Valued(s[1], a) + Valued(s[2], a) + Valued(s[3], a)
                                     + Valued(s[4], a)
           /\ m = 5 => Total(s, a) = Valued(s[1], a) + Valued(s[2], a) + Valued(s[3], a)
                                     + Valued(s[4], a) + Valued(s[5], a)
           /\ m = 6 => Total(s, a) = Valued(s[1], a) + Valued(s[2], a) + Valued(s[3], a)
                                     + Valued(s[4], a) + Valued(s[5], a) + Valued(s[6], a)
<1> DEFINE f == [k \in DOMAIN s |-> Valued(s[k], a)]
<1>1. Total(s, a) = SumFunctionOnSet(f, 1..m)
    BY DEF Total
<1>2. \A k \in 1..m : f[k] = Valued(s[k], a) /\ f[k] \in Int
    OBVIOUS
<1> HIDE DEF f
<1>3. \A k \in 1..m : f[k] \in Int
    BY <1>2
<1> DEFINE Sig(n) == SumFunctionOnSet(f, 1..n)
<1>4. /\ m >= 2 => Sig(2) = f[1] + f[2]
      /\ m >= 3 => Sig(3) = f[1] + f[2] + f[3]
      /\ m >= 4 => Sig(4) = f[1] + f[2] + f[3] + f[4]
      /\ m >= 5 => Sig(5) = f[1] + f[2] + f[3] + f[4] + f[5]
      /\ m >= 6 => Sig(6) = f[1] + f[2] + f[3] + f[4] + f[5] + f[6]
    BY <1>3, SumOfFew
<1>5. Total(s, a) = Sig(m)
    BY <1>1
<1> HIDE DEF Sig
<1> QED
    BY <1>2, <1>4, <1>5
-----------------------------------------------------------------------------
(* What the outputs of a builder come to once they are blinded. *)

BlindOuts(outs, pos) == [k \in DOMAIN outs |-> Blinded(outs[k], k, pos)]

Totals(s, yes, no, yesRt, noRt, coll) ==
    /\ Total(s, "YES") = yes /\ Total(s, "NO") = no
    /\ Total(s, "YES_RT") = yesRt /\ Total(s, "NO_RT") = noRt
    /\ Total(s, "COLLATERAL") = coll

(* Outputs t: positive amounts, which add up to these. *)
Sums(t, yes, no, yesRt, noRt, coll) ==
    /\ t \in Seq(OutRec)
    /\ \A k \in 1..Len(t) : t[k].amount > 0
    /\ Totals(t, yes, no, yesRt, noRt, coll)

(* One output more. *)
LEMMA TotalAppend ==
    ASSUME NEW s \in Seq(OutRec), NEW e \in OutRec, NEW a
    PROVE  /\ Total(s \o <<e>>, a) = Total(s, a) + Valued(e, a)
           /\ Total(s, a) \in Nat
<1> DEFINE t == s \o <<e>>
           n == Len(s)
           f == [k \in DOMAIN s |-> Valued(s[k], a)]
           g == [k \in DOMAIN t |-> Valued(t[k], a)]
<1>1. /\ n \in Nat /\ DOMAIN s = 1..n /\ DOMAIN t = 1..n + 1
      /\ t[n + 1] = e /\ \A k \in 1..n : t[k] = s[k] /\ s[k] \in OutRec
    OBVIOUS
<1>2. \A o \in OutRec : Valued(o, a) \in Nat
    BY DEF OutRec, Valued
<1>3. Total(s, a) = SumFunctionOnSet(f, DOMAIN s) /\ Total(t, a) = SumFunctionOnSet(g, DOMAIN t)
    BY DEF Total
<1> HIDE DEF t, n
<1>4. /\ \A k \in 1..n : f[k] = g[k] /\ f[k] \in Nat
      /\ g[n + 1] = Valued(e, a)
      /\ \A k \in 1..n + 1 : g[k] \in Int
    BY <1>1, <1>2
<1> HIDE DEF f, g
<1>5. SumFunctionOnSet(g, 1..n + 1) = SumFunctionOnSet(g, 1..n) + g[n + 1]
    BY <1>1, <1>4, SumUpTo
<1> DEFINE S == 1..n
<1>6. IsFiniteSet(S)
    BY <1>1, FS_Interval
<1>7. \A k \in S : f[k] = g[k] /\ f[k] \in Nat /\ f[k] \in Int
    BY <1>4
<1>8. SumFunctionOnSet(g, 1..n + 1) = SumFunctionOnSet(g, S) + g[n + 1]
    BY <1>5
<1> HIDE DEF S
<1>9. SumFunctionOnSet(g, S) = SumFunctionOnSet(f, S) /\ SumFunctionOnSet(f, S) \in Nat
    BY <1>6, <1>7, SumAgree, SumType
<1>10. DOMAIN s = S
    BY <1>1 DEF S
<1>11. Total(s, a) = SumFunctionOnSet(f, S) /\ Total(t, a) = SumFunctionOnSet(g, S) + g[n + 1]
    BY <1>1, <1>3, <1>8, <1>10, Zenon
<1>12. Total(t, a) = Total(s, a) + Valued(e, a) /\ Total(s, a) \in Nat
    BY <1>4, <1>9, <1>11
<1> QED
    BY <1>12 DEF t

(* One positive output more. *)
LEMMA SumsAppend ==
    ASSUME NEW t, NEW yes \in Nat, NEW no \in Nat, NEW yesRt, NEW noRt, NEW coll \in Nat,
           Sums(t, yes, no, yesRt, noRt, coll), NEW e \in OutRec, e.amount > 0,
           e.asset \in {"YES", "NO", "COLLATERAL"}
    PROVE  Sums(t \o <<e>>, yes + Valued(e, "YES"), no + Valued(e, "NO"), yesRt, noRt,
                coll + Valued(e, "COLLATERAL"))
<1> DEFINE u == t \o <<e>>
<1>0. t \in Seq(OutRec) /\ Len(t) \in Nat
    BY DEF Sums
<1>1. /\ u \in Seq(OutRec) /\ Len(u) = Len(t) + 1
      /\ \A k \in 1..Len(t) : u[k] = t[k]
      /\ u[Len(t) + 1] = e
    BY <1>0
<1>2. \A a : Total(u, a) = Total(t, a) + Valued(e, a) /\ Total(t, a) \in Nat
    BY <1>0, TotalAppend
<1>3. Valued(e, "YES_RT") = 0 /\ Valued(e, "NO_RT") = 0
    BY DEF Valued
<1> HIDE DEF u
<1>4. \A k \in 1..Len(u) : u[k].amount > 0
    <2> SUFFICES ASSUME NEW k \in 1..Len(u) PROVE u[k].amount > 0
        OBVIOUS
    <2>1. k = Len(t) + 1 \/ k \in 1..Len(t)
        BY <1>0, <1>1
    <2> QED BY <1>1, <2>1 DEF Sums
<1>5. Totals(u, yes + Valued(e, "YES"), no + Valued(e, "NO"), yesRt, noRt,
             coll + Valued(e, "COLLATERAL"))
    BY <1>2, <1>3 DEF Sums, Totals
<1> QED
    BY <1>1, <1>4, <1>5 DEF Sums, u

(* Blinding, one output at a time. *)
LEMMA BlindAppend ==
    ASSUME NEW s \in Seq(OutRec), NEW e \in OutRec, NEW pos, \A k \in pos : k \in 1..Len(s)
    PROVE  /\ BlindOuts(s, pos) \in Seq(OutRec) /\ Len(BlindOuts(s, pos)) = Len(s)
           /\ BlindOuts(s \o <<e>>, pos) =
                 BlindOuts(s, pos) \o <<[e EXCEPT !.conf = (e.script = "Wallet")]>>
<1> DEFINE n == Len(s)
           u == s \o <<e>>
           e2 == [e EXCEPT !.conf = (e.script = "Wallet")]
           t == BlindOuts(s, pos)
           v == BlindOuts(u, pos)
<1>0. /\ n \in Nat /\ DOMAIN s = 1..n /\ \A k \in 1..n : s[k] \in OutRec
      /\ u \in Seq(OutRec) /\ DOMAIN u = 1..n + 1
      /\ \A k \in 1..n : u[k] = s[k]
      /\ u[n + 1] = e
    OBVIOUS
<1>1. ASSUME NEW o \in OutRec, NEW k PROVE Blinded(o, k, pos) \in OutRec
    BY DEF Blinded, OutRec, Asset
<1>2. /\ t = [k \in 1..n |-> Blinded(s[k], k, pos)]
      /\ v = [k \in 1..n + 1 |-> Blinded(u[k], k, pos)]
    BY <1>0 DEF BlindOuts
<1>3. Blinded(e, n + 1, pos) = e2
    <2>1. n + 1 \notin pos
        BY <1>0
    <2> QED BY <2>1 DEF Blinded
<1>4. e2 \in OutRec
    BY <1>1, <1>3
<1> HIDE DEF n, u, e2, t, v
<1>5. t \in [1..n -> OutRec] /\ \A k \in 1..n : t[k] = Blinded(s[k], k, pos)
    BY <1>0, <1>1, <1>2
<1>6. t \in Seq(OutRec) /\ Len(t) = n
    BY <1>0, <1>5
<1>7. v = t \o <<e2>>
    <2> DEFINE w == t \o <<e2>>
    <2>1. /\ w \in Seq(OutRec) /\ DOMAIN w = 1..n + 1 /\ w[n + 1] = e2
          /\ \A k \in 1..n : w[k] = t[k]
          /\ w = [k \in DOMAIN w |-> w[k]]
        BY <1>0, <1>4, <1>6
    <2> HIDE DEF w
    <2>2. DOMAIN v = 1..n + 1 /\ \A k \in 1..n + 1 : v[k] = Blinded(u[k], k, pos)
        BY <1>2
    <2>3. ASSUME NEW k \in 1..n + 1 PROVE v[k] = w[k]
        <3>1. k = n + 1 \/ k \in 1..n
            BY <1>0
        <3> QED BY <1>0, <1>3, <1>5, <2>1, <2>2, <3>1
    <2>4. v = w
        BY <1>2, <2>1, <2>2, <2>3
    <2> QED BY <2>4 DEF w
<1> QED
    BY <1>6, <1>7 DEF n, u, e2, t, v

(* Outputs s that start with base come, blinded, to these amounts. *)
ComesTo(s, base, pos, yes, no, yesRt, noRt, coll) ==
    /\ s \in Seq(OutRec)
    /\ Len(base) \in Nat /\ Len(base) <= Len(s)
    /\ \A k \in pos : k \in 1..Len(base)
    /\ \A k \in 1..Len(base) : s[k] = base[k]
    /\ Sums(BlindOuts(s, pos), yes, no, yesRt, noRt, coll)

(* Change and fee come on top. *)
LEMMA ComesToAppend ==
    ASSUME NEW s, NEW base, NEW pos, NEW yes \in Nat, NEW no \in Nat, NEW yesRt, NEW noRt,
           NEW coll \in Nat, ComesTo(s, base, pos, yes, no, yesRt, noRt, coll),
           NEW e \in OutRec, e.amount > 0, e.asset \in {"YES", "NO", "COLLATERAL"}
    PROVE  ComesTo(s \o <<e>>, base, pos, yes + Valued(e, "YES"), no + Valued(e, "NO"),
                   yesRt, noRt, coll + Valued(e, "COLLATERAL"))
<1> DEFINE u == s \o <<e>>
           t == BlindOuts(s, pos)
           e2 == [e EXCEPT !.conf = (e.script = "Wallet")]
<1>0. /\ s \in Seq(OutRec) /\ Len(s) \in Nat /\ Len(base) \in Nat /\ Len(base) <= Len(s)
      /\ \A k \in pos : k \in 1..Len(base)
      /\ \A k \in 1..Len(base) : s[k] = base[k]
      /\ Sums(t, yes, no, yesRt, noRt, coll)
    BY DEF ComesTo
<1>1. u \in Seq(OutRec) /\ Len(u) = Len(s) + 1 /\ \A k \in 1..Len(s) : u[k] = s[k]
    BY <1>0
<1>2. \A k \in pos : k \in 1..Len(s)
    BY <1>0
<1>3. BlindOuts(u, pos) = t \o <<e2>>
    BY <1>0, <1>2, BlindAppend
<1>4. /\ e2 \in OutRec /\ e2.amount = e.amount /\ e2.asset = e.asset
    BY DEF OutRec
<1>5. \A a : Valued(e2, a) = Valued(e, a)
    BY <1>4 DEF Valued
<1> HIDE DEF u, t, e2
<1>6. Sums(t \o <<e2>>, yes + Valued(e2, "YES"), no + Valued(e2, "NO"), yesRt, noRt,
           coll + Valued(e2, "COLLATERAL"))
    BY <1>0, <1>4, SumsAppend
<1>7. Sums(BlindOuts(u, pos), yes + Valued(e, "YES"), no + Valued(e, "NO"), yesRt, noRt,
           coll + Valued(e, "COLLATERAL"))
    BY <1>3, <1>5, <1>6
<1>8. Len(base) <= Len(u) /\ \A k \in 1..Len(base) : u[k] = base[k]
    BY <1>0, <1>1
<1> QED
    BY <1>0, <1>1, <1>7, <1>8 DEF ComesTo, u

(* Change of an asset, if any, and the fee. *)
LEMMA ComesToChange ==
    ASSUME NEW s, NEW base, NEW pos, NEW yes \in Nat, NEW no \in Nat, NEW yesRt, NEW noRt,
           NEW coll \in Nat, ComesTo(s, base, pos, yes, no, yesRt, noRt, coll), NEW x \in Nat
    PROVE  /\ ComesTo(s \o Change("YES", x), base, pos, yes + x, no, yesRt, noRt, coll)
           /\ ComesTo(s \o Change("NO", x), base, pos, yes, no + x, yesRt, noRt, coll)
           /\ ComesTo(s \o Change("COLLATERAL", x), base, pos, yes, no, yesRt, noRt, coll + x)
           /\ ComesTo(s \o <<fee_txout>>, base, pos, yes, no, yesRt, noRt, coll + FeeAmount)
<1>0. s \in Seq(OutRec)
    BY DEF ComesTo
<1>1. ASSUME NEW asset \in {"YES", "NO", "COLLATERAL"}
      PROVE  ComesTo(s \o Change(asset, x), base, pos,
                     yes + (IF asset = "YES" THEN x ELSE 0), no + (IF asset = "NO" THEN x ELSE 0),
                     yesRt, noRt, coll + (IF asset = "COLLATERAL" THEN x ELSE 0))
    <2>1. CASE x > 0
        <3> DEFINE e == explicit_txout(asset, x, "Wallet")
        <3>1. /\ e \in OutRec /\ e.amount > 0 /\ e.asset \in {"YES", "NO", "COLLATERAL"}
              /\ Valued(e, "YES") = (IF asset = "YES" THEN x ELSE 0)
              /\ Valued(e, "NO") = (IF asset = "NO" THEN x ELSE 0)
              /\ Valued(e, "COLLATERAL") = (IF asset = "COLLATERAL" THEN x ELSE 0)
            BY <2>1 DEF OutRec, Script, Asset, explicit_txout, Valued
        <3>2. s \o Change(asset, x) = s \o <<e>>
            BY <2>1 DEF Change
        <3> HIDE DEF e
        <3>3. ComesTo(s \o <<e>>, base, pos, yes + Valued(e, "YES"), no + Valued(e, "NO"),
                      yesRt, noRt, coll + Valued(e, "COLLATERAL"))
            BY <3>1, ComesToAppend
        <3> QED BY <3>1, <3>2, <3>3
    <2>2. CASE x = 0
        <3>1. s \o Change(asset, x) = s
            BY <1>0, <2>2 DEF Change
        <3>2. /\ yes + (IF asset = "YES" THEN x ELSE 0) = yes
              /\ no + (IF asset = "NO" THEN x ELSE 0) = no
              /\ coll + (IF asset = "COLLATERAL" THEN x ELSE 0) = coll
            BY <2>2
        <3> QED BY <3>1, <3>2
    <2> QED BY <2>1, <2>2
<1>2. ComesTo(s \o <<fee_txout>>, base, pos, yes, no, yesRt, noRt, coll + FeeAmount)
    <2> DEFINE e == fee_txout
    <2>1. /\ e \in OutRec /\ e.amount > 0 /\ e.asset \in {"YES", "NO", "COLLATERAL"}
          /\ Valued(e, "YES") = 0 /\ Valued(e, "NO") = 0 /\ Valued(e, "COLLATERAL") = FeeAmount
        BY FeeAssumption DEF OutRec, Script, Asset, explicit_txout, Valued, fee_txout
    <2> HIDE DEF e
    <2>2. ComesTo(s \o <<e>>, base, pos, yes + Valued(e, "YES"), no + Valued(e, "NO"),
                  yesRt, noRt, coll + Valued(e, "COLLATERAL"))
        BY <2>1, ComesToAppend
    <2>3. /\ yes + Valued(e, "YES") = yes /\ no + Valued(e, "NO") = no
          /\ coll + Valued(e, "COLLATERAL") = coll + FeeAmount
        BY <2>1
    <2> QED BY <2>2, <2>3 DEF e
<1>3. /\ ComesTo(s \o Change("YES", x), base, pos, yes + x, no + 0, yesRt, noRt, coll + 0)
      /\ ComesTo(s \o Change("NO", x), base, pos, yes + 0, no + x, yesRt, noRt, coll + 0)
      /\ ComesTo(s \o Change("COLLATERAL", x), base, pos, yes + 0, no + 0, yesRt, noRt, coll + x)
    BY <1>1
<1>4. yes + 0 = yes /\ no + 0 = no /\ coll + 0 = coll
    OBVIOUS
<1> QED
    BY <1>2, <1>3, <1>4

(* The outputs of a transaction whose builder's outputs come to these. *)
LEMMA BlindedOutputs ==
    ASSUME NEW s, NEW base, NEW pos, NEW yes, NEW no, NEW yesRt, NEW noRt, NEW coll,
           ComesTo(s, base, pos, yes, no, yesRt, noRt, coll), NEW t, t = BlindOuts(s, pos)
    PROVE  /\ Sums(t, yes, no, yesRt, noRt, coll)
           /\ Len(t) = Len(s) /\ DOMAIN t = 1..Len(s)
           /\ \A k \in 1..Len(base) : k \in 1..Len(t) /\ t[k] = Blinded(base[k], k, pos)
           /\ \A k \in 1..Len(s) : t[k].script = s[k].script
<1>0. /\ s \in Seq(OutRec) /\ Len(s) \in Nat /\ Len(base) \in Nat /\ Len(base) <= Len(s)
      /\ \A k \in 1..Len(base) : s[k] = base[k]
      /\ \A k \in pos : k \in 1..Len(base)
      /\ Sums(t, yes, no, yesRt, noRt, coll)
    BY DEF ComesTo
<1>1. DOMAIN t = 1..Len(s) /\ \A k \in 1..Len(s) : t[k] = Blinded(s[k], k, pos) /\ s[k] \in OutRec
    BY <1>0 DEF BlindOuts
<1>2. t \in Seq(OutRec)
    BY <1>0 DEF Sums
<1>3. Len(t) = Len(s)
    BY <1>0, <1>1, <1>2
<1>4. ASSUME NEW o \in OutRec, NEW k PROVE Blinded(o, k, pos).script = o.script
    BY DEF Blinded, OutRec
<1>5. \A k \in 1..Len(base) : k \in 1..Len(s)
    BY <1>0
<1> QED
    BY <1>0, <1>1, <1>3, <1>4, <1>5

(* A builder's first outputs, by themselves. *)
LEMMA BaseComesTo ==
    ASSUME NEW base \in Seq(OutRec), NEW pos, \A k \in pos : k \in 1..Len(base),
           NEW t, t = BlindOuts(base, pos), \A k \in 1..Len(base) : t[k].amount > 0,
           NEW yes, NEW no, NEW yesRt, NEW noRt, NEW coll,
           Totals(t, yes, no, yesRt, noRt, coll)
    PROVE  ComesTo(base, base, pos, yes, no, yesRt, noRt, coll)
<1>1. fee_txout \in OutRec
    BY FeeAssumption DEF OutRec, Script, Asset, explicit_txout, fee_txout
<1>2. t \in Seq(OutRec) /\ Len(t) = Len(base)
    BY <1>1, BlindAppend
<1> QED
    BY <1>2 DEF ComesTo, Sums

(* The value of an output after blinding. *)
LEMMA BlindedValue ==
    /\ \A s, a : /\ Valued(RtOut(s, "YES_RT"), a) = (IF a = "YES_RT" THEN 1 ELSE 0)
                 /\ Valued(RtOut(s, "NO_RT"), a) = (IF a = "NO_RT" THEN 1 ELSE 0)
                 /\ RtOut(s, a).amount > 0
    /\ \A a, b, v, s, k, pos : k \notin pos =>
          /\ Valued(Blinded(explicit_txout(a, v, s), k, pos), b) = (IF a = b THEN v ELSE 0)
          /\ Blinded(explicit_txout(a, v, s), k, pos).amount = v
          /\ Blinded(explicit_txout(a, v, s), k, pos).script = s
          /\ Blinded(explicit_txout(a, v, s), k, pos).asset = a
<1>1. ASSUME NEW s, NEW a
      PROVE  /\ Valued(RtOut(s, "YES_RT"), a) = (IF a = "YES_RT" THEN 1 ELSE 0)
             /\ Valued(RtOut(s, "NO_RT"), a) = (IF a = "NO_RT" THEN 1 ELSE 0)
             /\ RtOut(s, a).amount > 0
    BY DEF Valued, RtOut
<1>2. ASSUME NEW a, NEW b, NEW v, NEW s, NEW k, NEW pos, k \notin pos
      PROVE  /\ Valued(Blinded(explicit_txout(a, v, s), k, pos), b) = (IF a = b THEN v ELSE 0)
             /\ Blinded(explicit_txout(a, v, s), k, pos).amount = v
             /\ Blinded(explicit_txout(a, v, s), k, pos).script = s
             /\ Blinded(explicit_txout(a, v, s), k, pos).asset = a
    BY <1>2 DEF Blinded, explicit_txout, Valued
<1> QED
    BY <1>1, <1>2

(* The outputs of an issuance. *)
LEMMA IssuancePays ==
    ASSUME NEW n \in Nat \ {0}, NEW total \in Nat \ {0}, NEW x \in Nat, NEW y \in Nat, NEW outs,
           IssuesOuts(outs, n, total, x, y), NEW t, t = BlindOuts(outs, RtPos)
    PROVE  /\ Sums(t, n, n, 1, 1, total + FeeAmount + x + y)
           /\ Len(t) >= 6
           /\ t[1] = RtOut("UnresolvedYesRt", "YES_RT") /\ t[2] = RtOut("UnresolvedNoRt", "NO_RT")
           /\ t[3] = CollOut("UnresolvedCollateral", total)
           /\ t[6].script = "Fee"
<1> DEFINE base == IssuanceOuts(n, total)
           pos == RtPos
           o1 == reissuance_token_output("UnresolvedYesRt")
           o2 == reissuance_token_output("UnresolvedNoRt")
           o3 == explicit_txout("COLLATERAL", total, "UnresolvedCollateral")
           o4 == explicit_txout("YES", n, "Wallet")
           o5 == explicit_txout("NO", n, "Wallet")
           o6 == fee_txout
           r == BlindOuts(base, pos)
           c == total + FeeAmount
<1>1. o1 \in OutRec /\ o2 \in OutRec /\ o3 \in OutRec /\ o4 \in OutRec /\ o5 \in OutRec /\ o6 \in OutRec
    BY FeeAssumption DEF OutRec, Script, MarketSlot, Asset, explicit_txout, fee_txout,
                         reissuance_token_output
<1>2. base = <<o1, o2, o3, o4, o5, o6>>
    BY DEF IssuanceOuts
<1>3. 3 \notin pos /\ 4 \notin pos /\ 5 \notin pos /\ 6 \notin pos /\ \A k \in pos : k = 1 \/ k = 2
    BY DEF RtPos
<1>4. /\ Blinded(o1, 1, pos) = RtOut("UnresolvedYesRt", "YES_RT")
      /\ Blinded(o2, 2, pos) = RtOut("UnresolvedNoRt", "NO_RT")
    BY BlindedIs DEF RtPos
<1>5. Blinded(o3, 3, pos) = CollOut("UnresolvedCollateral", total)
    BY <1>3, BlindedColl
<1>6. /\ \A a : /\ Valued(Blinded(o1, 1, pos), a) = (IF a = "YES_RT" THEN 1 ELSE 0)
                /\ Valued(Blinded(o2, 2, pos), a) = (IF a = "NO_RT" THEN 1 ELSE 0)
      /\ Blinded(o1, 1, pos).amount > 0 /\ Blinded(o2, 2, pos).amount > 0
    BY <1>4, BlindedValue
<1>7. /\ \A a : /\ Valued(Blinded(o3, 3, pos), a) = (IF a = "COLLATERAL" THEN total ELSE 0)
                /\ Valued(Blinded(o4, 4, pos), a) = (IF a = "YES" THEN n ELSE 0)
                /\ Valued(Blinded(o5, 5, pos), a) = (IF a = "NO" THEN n ELSE 0)
                /\ Valued(Blinded(o6, 6, pos), a) = (IF a = "COLLATERAL" THEN FeeAmount ELSE 0)
      /\ Blinded(o3, 3, pos).amount = total /\ Blinded(o4, 4, pos).amount = n
      /\ Blinded(o5, 5, pos).amount = n /\ Blinded(o6, 6, pos).amount = FeeAmount
      /\ Blinded(o6, 6, pos).script = "Fee"
    BY <1>3, BlindedValue DEF fee_txout
<1>8. outs = (base \o Change("COLLATERAL", x)) \o Change("COLLATERAL", y) /\ t = BlindOuts(outs, pos)
    BY DEF IssuesOuts
<1>9. c \in Nat /\ total > 0 /\ n > 0 /\ FeeAmount \in Nat /\ FeeAmount > 0
    BY FeeAssumption
<1> HIDE DEF o1, o2, o3, o4, o5, o6, base, pos
<1>10. /\ base \in Seq(OutRec) /\ Len(base) = 6 /\ DOMAIN base = 1..6
       /\ base[1] = o1 /\ base[2] = o2 /\ base[3] = o3 /\ base[4] = o4 /\ base[5] = o5 /\ base[6] = o6
    BY <1>1, <1>2
<1>11. /\ DOMAIN r = 1..6
       /\ r[1] = Blinded(o1, 1, pos) /\ r[2] = Blinded(o2, 2, pos) /\ r[3] = Blinded(o3, 3, pos)
       /\ r[4] = Blinded(o4, 4, pos) /\ r[5] = Blinded(o5, 5, pos) /\ r[6] = Blinded(o6, 6, pos)
    BY <1>10 DEF BlindOuts
<1>12. \A k \in 1..6 : k = 1 \/ k = 2 \/ k = 3 \/ k = 4 \/ k = 5 \/ k = 6
    OBVIOUS
<1>13. ComesTo(base, base, pos, n, n, 1, 1, c)
    <2>1. \A k \in 1..Len(base) : r[k].amount > 0
        BY <1>6, <1>7, <1>9, <1>10, <1>11, <1>12
    <2>2. \A k \in pos : k \in 1..Len(base)
        BY <1>3, <1>10
    <2>3. ASSUME NEW a
          PROVE  Total(r, a) = (IF a = "YES_RT" THEN 1 ELSE 0) + (IF a = "NO_RT" THEN 1 ELSE 0)
                    + (IF a = "COLLATERAL" THEN total ELSE 0) + (IF a = "YES" THEN n ELSE 0)
                    + (IF a = "NO" THEN n ELSE 0) + (IF a = "COLLATERAL" THEN FeeAmount ELSE 0)
        <3>1. \A k \in 1..6 : Valued(r[k], a) \in Int
            BY <1>6, <1>7, <1>9, <1>11, <1>12
        <3>2. Total(r, a) = Valued(r[1], a) + Valued(r[2], a) + Valued(r[3], a)
                            + Valued(r[4], a) + Valued(r[5], a) + Valued(r[6], a)
            <4>1. DOMAIN r = 1..6 /\ 6 \in Nat
                BY <1>11
            <4> HIDE DEF r
            <4> QED BY ONLY <3>1, <4>1, TotalOfFew
        <3> QED BY <1>6, <1>7, <1>11, <3>2
    <2>4. Totals(r, n, n, 1, 1, c)
        BY <1>9, <2>3 DEF Totals
    <2> QED BY <1>10, <2>1, <2>2, <2>4, BaseComesTo
<1> HIDE DEF c
<1>14. ComesTo(outs, base, pos, n, n, 1, 1, c + x + y)
    <2>1. ComesTo(base \o Change("COLLATERAL", x), base, pos, n, n, 1, 1, c + x)
        BY <1>9, <1>13, ComesToChange
    <2>2. c + x \in Nat
        BY <1>9
    <2>3. ComesTo((base \o Change("COLLATERAL", x)) \o Change("COLLATERAL", y), base, pos,
                  n, n, 1, 1, (c + x) + y)
        BY <2>1, <2>2, ComesToChange
    <2> QED BY <1>8, <2>3
<1>15. /\ Sums(t, n, n, 1, 1, c + x + y)
       /\ \A k \in 1..Len(base) : k \in 1..Len(t) /\ t[k] = Blinded(base[k], k, pos)
    BY <1>8, <1>14, BlindedOutputs
<1>16. /\ 6 \in 1..Len(t) /\ t[1] = Blinded(o1, 1, pos) /\ t[2] = Blinded(o2, 2, pos)
       /\ t[3] = Blinded(o3, 3, pos) /\ t[6] = Blinded(o6, 6, pos)
    BY <1>10, <1>15
<1>17. Len(t) \in Nat
    BY <1>15 DEF Sums
<1> QED
    BY <1>4, <1>5, <1>7, <1>15, <1>16, <1>17 DEF c

-----------------------------------------------------------------------------
(* What the inputs are, and what they bring and mint. *)

RtIn(i, script, asset, issuance) ==
    /\ i.script = script /\ i.asset = asset /\ i.amount = 1 /\ i.conf = TRUE
    /\ i.issuance = issuance

CollIn(i, script, v) ==
    /\ i.script = script /\ i.asset = "COLLATERAL" /\ i.amount = v /\ i.conf = FALSE
    /\ i.issuance = {}

WalletIn(i, asset, v) ==
    i.script = "Wallet" /\ i.asset = asset /\ i.amount = v /\ i.issuance = {}

(* The inputs that builders add. *)
LEMMA InputsMade ==
    /\ \A id, s, a, x : RtIn(InputWithIssuance(Rt(id, s, a), x), s, a, x)
    /\ \A id, s, a : RtIn(add_pset_input(Rt(id, s, a)), s, a, {})
    /\ \A id, s, v : CollIn(add_pset_input(Coll(id, s, v)), s, v)
    /\ \A a, v : WalletIn(add_pset_input(WalletUtxo(a, v)), a, v)
BY DEF RtIn, CollIn, WalletIn, InputWithIssuance, add_pset_input, Rt, Coll, WalletUtxo

Mint(issuance) == SumFunction([n \in issuance |-> n])

RtOf(asset) == IF asset = "YES" THEN "YES_RT" ELSE "NO_RT"

(* The amount of one input's issuance. *)
LEMMA MintIs ==
    /\ Mint({}) = 0
    /\ \A n \in Nat : Mint({n}) = n
<1>1. ASSUME NEW S PROVE Mint(S) = SumFunctionOnSet([n \in S |-> n], S)
    <2>1. DOMAIN [n \in S |-> n] = S
        OBVIOUS
    <2> QED BY <2>1, Zenon DEF Mint, SumFunction
<1>2. Mint({}) = 0
    BY <1>1, SumEmpty
<1>3. ASSUME NEW n \in Nat PROVE Mint({n}) = n
    <2> DEFINE S == {n}
               f == [m \in S |-> m]
    <2>1. Mint(S) = SumFunctionOnSet(f, S)
        BY <1>1
    <2>2. f[n] = n /\ n \in S /\ IsFiniteSet(S) /\ f[n] \in Int /\ \A k \in S \ {n} : f[k] = 0
        BY FS_Singleton
    <2> HIDE DEF f
    <2>3. SumFunctionOnSet(f, S) = f[n]
        BY <2>2, SumSingle
    <2> QED BY <2>1, <2>2, <2>3
<1> QED
    BY <1>2, <1>3

(* Minted as a sum over the inputs. *)
LEMMA MintedIs ==
    ASSUME NEW tx, NEW a
    PROVE  Minted(tx, a) =
              SumFunctionOnSet([k \in DOMAIN tx.ins |->
                  IF tx.ins[k].asset = RtOf(a) THEN Mint(tx.ins[k].issuance) ELSE 0],
                  DOMAIN tx.ins)
<1>1. DOMAIN [k \in DOMAIN tx.ins |->
          IF tx.ins[k].asset = RtOf(a) THEN Mint(tx.ins[k].issuance) ELSE 0] = DOMAIN tx.ins
    OBVIOUS
<1> QED
    BY <1>1, Zenon DEF Minted, SumFunction, Mint, RtOf

(* Nothing is minted without an issuance. *)
LEMMA MintedNone ==
    ASSUME NEW tx, NEW a, IsFiniteSet(DOMAIN tx.ins), \A k \in DOMAIN tx.ins : tx.ins[k].issuance = {}
    PROVE  Minted(tx, a) = 0
<1> DEFINE f == [k \in DOMAIN tx.ins |->
                    IF tx.ins[k].asset = RtOf(a) THEN Mint(tx.ins[k].issuance) ELSE 0]
<1>1. Minted(tx, a) = SumFunctionOnSet(f, DOMAIN tx.ins)
    BY MintedIs
<1>2. \A k \in DOMAIN tx.ins : f[k] = 0
    BY MintIs
<1> HIDE DEF f
<1> QED
    BY <1>1, <1>2, SumZero

(* One input mints the asset. *)
LEMMA MintedOne ==
    ASSUME NEW tx, NEW a, IsFiniteSet(DOMAIN tx.ins), NEW p \in DOMAIN tx.ins, NEW n \in Nat,
           tx.ins[p].asset = RtOf(a), tx.ins[p].issuance = {n},
           \A k \in DOMAIN tx.ins \ {p} : tx.ins[k].asset # RtOf(a)
    PROVE  Minted(tx, a) = n
<1> DEFINE f == [k \in DOMAIN tx.ins |->
                    IF tx.ins[k].asset = RtOf(a) THEN Mint(tx.ins[k].issuance) ELSE 0]
<1>1. Minted(tx, a) = SumFunctionOnSet(f, DOMAIN tx.ins)
    BY MintedIs
<1>2. f[p] = n /\ f[p] \in Int /\ \A k \in DOMAIN tx.ins \ {p} : f[k] = 0
    BY MintIs
<1> HIDE DEF f
<1> QED
    BY <1>1, <1>2, SumSingle

(* Inputs and outputs that come to the same, but for what is minted. *)
LEMMA BalancedIs ==
    ASSUME NEW tx, NEW yes, NEW no, NEW yesRt, NEW noRt, NEW coll, NEW n \in Nat, NEW m \in Nat,
           Totals(tx.ins, yes, no, yesRt, noRt, coll), yesRt \in Int, noRt \in Int, coll \in Int,
           Minted(tx, "YES") = n, Minted(tx, "NO") = m,
           Totals(tx.outs, yes + n, no + m, yesRt, noRt, coll)
    PROVE  Balanced(tx)
<1> SUFFICES ASSUME NEW a \in Asset
             PROVE  OutAmount(tx, a) = InAmount(tx, a) + (IF a \in Tokens THEN Minted(tx, a) ELSE 0)
    BY DEF Balanced
<1>1. InAmount(tx, a) = Total(tx.ins, a) /\ OutAmount(tx, a) = Total(tx.outs, a)
    BY AmountsAre
<1> QED
    BY <1>1 DEF Totals, Asset, Tokens

-----------------------------------------------------------------------------
(* The covenant's answer to what the builders make. *)

(* Its price of n pairs is the builders', and fits when theirs does. *)
LEMMA CovenantPrice ==
    ASSUME NEW n \in Nat \ {0}
    PROVE  /\ collateral_for_pairs(n) = required_collateral(n)
           /\ required_collateral(n) \in Nat \ {0}
           /\ Fits(required_collateral(n)) => CollateralFits(n)
<1>1. PICK p \in Nat : CollateralPerToken = p + 1
    <2>1. CollateralPerToken - 1 \in Nat /\ CollateralPerToken = (CollateralPerToken - 1) + 1
        BY CovenantAssumption
    <2> QED BY <2>1
<1>2. PICK m \in Nat : n = m + 1
    <2>1. n - 1 \in Nat /\ n = (n - 1) + 1
        OBVIOUS
    <2> QED BY <2>1
<1> DEFINE q == 2 * (p + 1)
<1>3. (n * 2) * (p + 1) = n * q
    BY <1>2
<1>4. q \in Nat /\ q > 0
    OBVIOUS
<1>5. q = 2 * CollateralPerToken /\ collateral_for_pairs(n) = n * q /\ required_collateral(n) = n * q
    BY <1>1, <1>3 DEF collateral_for_pairs, required_collateral
<1> HIDE DEF q
<1>6. m * q \in Nat /\ n * q = m * q + q
    BY <1>2, <1>4
<1>7. U64Max \in Nat
    BY CovenantAssumption
<1> QED
    BY <1>4, <1>5, <1>6, <1>7 DEF CollateralFits, Fits

(* The fields of a witness. *)
LEMMA WitnessFields ==
    \A path, slot : Witness(path, slot).path = path /\ Witness(path, slot).slot = slot
BY DEF Witness

(* A first issuance. *)
LEMMA InitialIssuanceSpends ==
    ASSUME NEW tx, NEW n \in Nat \ {0}, Fits(required_collateral(n)),
           Len(tx.ins) = 4, RtIn(tx.ins[1], "DormantYesRt", "YES_RT", {n}),
           RtIn(tx.ins[2], "DormantNoRt", "NO_RT", {n}),
           Len(tx.outs) \in Nat, Len(tx.outs) >= 6,
           tx.outs[1] = RtOut("UnresolvedYesRt", "YES_RT"),
           tx.outs[2] = RtOut("UnresolvedNoRt", "NO_RT"),
           tx.outs[3] = CollOut("UnresolvedCollateral", required_collateral(n)),
           tx.outs[6].script = "Fee"
    PROVE  /\ main(tx, 0, Witness("InitialIssuancePrimary", "DormantYesRt"))
           /\ main(tx, 1, Witness("InitialIssuanceSecondaryNoRt", "DormantNoRt"))
<1> DEFINE w1 == Witness("InitialIssuancePrimary", "DormantYesRt")
           w2 == Witness("InitialIssuanceSecondaryNoRt", "DormantNoRt")
           v == required_collateral(n)
<1>1. /\ w1.path = "InitialIssuancePrimary" /\ w1.slot = "DormantYesRt"
      /\ w2.path = "InitialIssuanceSecondaryNoRt" /\ w2.slot = "DormantNoRt"
    BY WitnessFields
<1>2. CollateralFits(n) /\ collateral_for_pairs(n) = v
    BY CovenantPrice
<1>3. /\ input(tx, 0) = tx.ins[1] /\ input(tx, 1) = tx.ins[2]
      /\ output(tx, 0) = tx.outs[1] /\ output(tx, 1) = tx.outs[2] /\ output(tx, 2) = tx.outs[3]
      /\ output(tx, 5) = tx.outs[6]
    BY DEF input, output
<1>4. /\ tx.outs[1].script = "UnresolvedYesRt" /\ tx.outs[2].script = "UnresolvedNoRt"
      /\ tx.outs[3].script = "UnresolvedCollateral"
      /\ verify_token_commitment(tx.outs[1], "YES_RT")
      /\ verify_token_commitment(tx.outs[2], "NO_RT")
      /\ ~tx.outs[3].conf /\ tx.outs[3].asset = "COLLATERAL" /\ tx.outs[3].amount = v
    BY DEF RtOut, CollOut, verify_token_commitment
<1>5. /\ tx.ins[1].script = "DormantYesRt" /\ tx.ins[2].script = "DormantNoRt"
      /\ verify_token_commitment(tx.ins[1], "YES_RT")
      /\ verify_token_commitment(tx.ins[2], "NO_RT")
      /\ tx.ins[1].issuance = {n} /\ tx.ins[2].issuance = {n}
    BY DEF RtIn, verify_token_commitment
<1> HIDE DEF w1, w2, v
<1>6. IssuanceOutputs(tx, v)
    BY <1>3, <1>4 DEF IssuanceOutputs, verify_output_reissuance_token, ensure_output_script,
       ensure_output_asset_with_amount, ensure_fee_output, num_outputs
<1>7. initial_issuance_primary_path(tx, 0, w1)
    BY <1>1, <1>2, <1>3, <1>5, <1>6 DEF initial_issuance_primary_path, ensure_input_script,
       verify_input_reissuance_token
<1>8. initial_issuance_secondary_no_rt_path(tx, 1, w2)
    BY <1>1, <1>3, <1>4, <1>5 DEF initial_issuance_secondary_no_rt_path, ensure_input_script,
       ensure_primary_slot, verify_input_reissuance_token, verify_output_reissuance_token,
       ensure_output_script, num_outputs
<1>9. main(tx, 0, w1)
    BY <1>1, <1>3, <1>5, <1>7 DEF main, ensure_input_script
<1>10. main(tx, 1, w2)
    BY <1>1, <1>3, <1>5, <1>8 DEF main, ensure_input_script
<1> QED
    BY <1>9, <1>10 DEF w1, w2

-----------------------------------------------------------------------------
(* What NetworkAccepts asks for. *)
LEMMA Accepts ==
    ASSUME NEW tx, NEW ws, NEW us, us = utxos,
           \A k \in DOMAIN ws : /\ k \in DOMAIN tx.ins /\ tx.ins[k].script \in MarketSlot
                                /\ Prevout(tx.ins[k]) \in us,
           \A k \in DOMAIN tx.ins : k \notin DOMAIN ws => tx.ins[k].script = "Wallet",
           tx.lock <= height,
           NEW yes, NEW no, NEW yesRt, NEW noRt, NEW coll,
           Sums(tx.outs, yes, no, yesRt, noRt, coll),
           Balanced(tx), \A k \in DOMAIN ws : main(tx, k - 1, ws[k])
    PROVE  NetworkAccepts(Assembled(tx, ws))
<1> DEFINE a == Assembled(tx, ws)
<1>1. a.tx = tx /\ a.witnesses = ws
    BY DEF Assembled
<1> HIDE DEF a
<1>2. ASSUME NEW k PROVE k \in CovenantInputs(tx) <=> k \in DOMAIN ws
    BY DEF CovenantInputs, MarketSlot
<1>3. CovenantInputs(tx) = DOMAIN ws
    BY <1>2
<1>4. Unspent(tx)
    <2> SUFFICES ASSUME NEW k \in CovenantInputs(tx) PROVE \E u \in utxos : u.id = tx.ins[k].id
        BY DEF Unspent
    <2>1. Prevout(tx.ins[k]) \in utxos
        BY <1>3
    <2>2. Prevout(tx.ins[k]).id = tx.ins[k].id
        BY DEF Prevout
    <2> QED BY <2>1, <2>2
<1>5. \A k \in DOMAIN tx.outs : tx.outs[k].amount > 0
    BY DEF Sums
<1>6. attach_covenant_witnesses(a)
    BY <1>1 DEF attach_covenant_witnesses
<1> QED
    BY <1>1, <1>3, <1>4, <1>5, <1>6 DEF NetworkAccepts, a

(* The outputs of a transaction are the builder's, blinded. *)
LEMMA TokenBlinds ==
    ASSUME NEW ins, NEW outs, NEW lock, NEW p, IsPset(p, ins, outs, lock),
           NEW tx, tx = TokenBlind(p)
    PROVE  tx.ins = ins /\ tx.lock = lock /\ tx.outs = BlindOuts(outs, RtPos)
BY DEF IsPset, TokenBlind, blind_pset, Blinded, BlindOuts, RtPos

(* The same where no output is a reissuance token. *)
LEMMA PlainBlinds ==
    ASSUME NEW ins, NEW outs, NEW lock, NEW p, IsPset(p, ins, outs, lock),
           NEW tx, tx = PlainBlind(p)
    PROVE  tx.ins = ins /\ tx.lock = lock /\ tx.outs = BlindOuts(outs, {})
BY DEF IsPset, PlainBlind, blind_pset, Blinded, BlindOuts

(* Amounts of a few inputs. *)
LEMMA TotalOfThree ==
    ASSUME NEW s, DOMAIN s = 1..3, NEW a, Valued(s[1], a) \in Int, Valued(s[2], a) \in Int,
           Valued(s[3], a) \in Int
    PROVE  Total(s, a) = Valued(s[1], a) + Valued(s[2], a) + Valued(s[3], a)
<1>1. \A k \in 1..3 : Valued(s[k], a) \in Int
    <2>1. \A k \in 1..3 : k = 1 \/ k = 2 \/ k = 3
        OBVIOUS
    <2> QED BY <2>1
<1> QED
    BY <1>1, TotalOfFew

(* What four entries carry, added up. *)
LEMMA TotalOfFour ==
    ASSUME NEW s, DOMAIN s = 1..4, NEW a, Valued(s[1], a) \in Int, Valued(s[2], a) \in Int,
           Valued(s[3], a) \in Int, Valued(s[4], a) \in Int
    PROVE  Total(s, a) = Valued(s[1], a) + Valued(s[2], a) + Valued(s[3], a) + Valued(s[4], a)
<1>1. \A k \in 1..4 : Valued(s[k], a) \in Int
    <2>1. \A k \in 1..4 : k = 1 \/ k = 2 \/ k = 3 \/ k = 4
        OBVIOUS
    <2> QED BY <2>1
<1> QED
    BY <1>1, TotalOfFew

(* What five entries carry, added up. *)
LEMMA TotalOfFive ==
    ASSUME NEW s, DOMAIN s = 1..5, NEW a, Valued(s[1], a) \in Int, Valued(s[2], a) \in Int,
           Valued(s[3], a) \in Int, Valued(s[4], a) \in Int, Valued(s[5], a) \in Int
    PROVE  Total(s, a) = Valued(s[1], a) + Valued(s[2], a) + Valued(s[3], a) + Valued(s[4], a)
                         + Valued(s[5], a)
<1>1. \A k \in 1..5 : Valued(s[k], a) \in Int
    <2>1. \A k \in 1..5 : k = 1 \/ k = 2 \/ k = 3 \/ k = 4 \/ k = 5
        OBVIOUS
    <2> QED BY <2>1
<1> QED
    BY <1>1, TotalOfFew

(* What six entries carry, added up. *)
LEMMA TotalOfSix ==
    ASSUME NEW s, DOMAIN s = 1..6, NEW a, Valued(s[1], a) \in Int, Valued(s[2], a) \in Int,
           Valued(s[3], a) \in Int, Valued(s[4], a) \in Int, Valued(s[5], a) \in Int,
           Valued(s[6], a) \in Int
    PROVE  Total(s, a) = Valued(s[1], a) + Valued(s[2], a) + Valued(s[3], a) + Valued(s[4], a)
                         + Valued(s[5], a) + Valued(s[6], a)
<1>1. \A k \in 1..6 : Valued(s[k], a) \in Int
    <2>1. \A k \in 1..6 : k = 1 \/ k = 2 \/ k = 3 \/ k = 4 \/ k = 5 \/ k = 6
        OBVIOUS
    <2> QED BY <2>1
<1> QED
    BY <1>1, TotalOfFew

(* Inputs of a first issuance bring these amounts. *)
LEMMA InitialIssuanceLands ==
    ASSUME Inv, state = "Dormant", NEW n \in Nat \ {0}, Fits(required_collateral(n)),
           NEW x \in Nat, NEW y \in Nat, NEW wallet, wallet = required_collateral(n) + x,
           NEW fee, fee = FeeAmount + y
    PROVE  NetworkAccepts(assemble_issuance(state, classify_covenant_utxos, n, wallet, fee))
<1> DEFINE b == classify_covenant_utxos
           total == required_collateral(n)
           i1 == InputWithIssuance(b.yes, {n})
           i2 == InputWithIssuance(b.no, {n})
           i3 == add_pset_input(WalletUtxo("COLLATERAL", wallet))
           i4 == add_pset_input(WalletUtxo("COLLATERAL", fee))
           ins == <<i1, i2, i3, i4>>
           outs == IssuanceOuts(n, total) \o Change("COLLATERAL", x) \o Change("COLLATERAL", y)
           p == build_initial_issuance_pset(b, n, wallet, fee)
           tx == TokenBlind(p)
           w1 == Witness("InitialIssuancePrimary", "DormantYesRt")
           w2 == Witness("InitialIssuanceSecondaryNoRt", "DormantNoRt")
           ws == <<w1, w2>>
<1>0. total \in Nat \ {0} /\ FeeAmount \in Nat /\ wallet \in Nat /\ fee \in Nat /\ height \in Nat
      /\ wallet - total = x /\ fee - FeeAmount = y /\ n \in Nat
    BY CovenantPrice, FeeAssumption, MarketAssumption DEF Inv
<1>1. PICK yes, no \in Ids(txs) :
          /\ b.yes = Rt(yes, "DormantYesRt", "YES_RT") /\ b.no = Rt(no, "DormantNoRt", "NO_RT")
          /\ b.yes \in utxos /\ b.no \in utxos
    BY BundleIs DEF Inv
<1>2. /\ RtIn(i1, "DormantYesRt", "YES_RT", {n}) /\ RtIn(i2, "DormantNoRt", "NO_RT", {n})
      /\ WalletIn(i3, "COLLATERAL", wallet) /\ WalletIn(i4, "COLLATERAL", fee)
    BY <1>1, InputsMade
<1>3. Prevout(i1) \in utxos /\ Prevout(i2) \in utxos
    BY <1>1, InputKinds
<1>4. IsPset(p, ins, outs, 0)
    BY <1>0 DEF build_initial_issuance_pset, IsPset
<1>5. IssuesOuts(outs, n, total, x, y)
    BY DEF IssuesOuts
<1>6. assemble_issuance(state, b, n, wallet, fee) = Assembled(tx, ws)
    BY DEF assemble_issuance, TokenBlind
<1> HIDE DEF b, i1, i2, i3, i4, outs, p, w1, w2
<1>7. tx.ins = ins /\ tx.lock = 0 /\ tx.outs = BlindOuts(outs, RtPos)
    BY <1>4, TokenBlinds
<1>8. DOMAIN ins = 1..4 /\ Len(ins) = 4 /\ ins[1] = i1 /\ ins[2] = i2 /\ ins[3] = i3 /\ ins[4] = i4
    OBVIOUS
<1>9. DOMAIN ws = 1..2 /\ ws[1] = w1 /\ ws[2] = w2
    OBVIOUS
<1> HIDE DEF ins, tx, ws, total
<1>10. /\ Sums(tx.outs, n, n, 1, 1, total + FeeAmount + x + y) /\ Len(tx.outs) >= 6
       /\ tx.outs[1] = RtOut("UnresolvedYesRt", "YES_RT")
       /\ tx.outs[2] = RtOut("UnresolvedNoRt", "NO_RT")
       /\ tx.outs[3] = CollOut("UnresolvedCollateral", total)
       /\ tx.outs[6].script = "Fee"
    BY <1>0, <1>5, <1>7, IssuancePays
<1>11. main(tx, 0, w1) /\ main(tx, 1, w2)
    <2>1. Len(tx.outs) \in Nat
        BY <1>10 DEF Sums
    <2> QED BY <1>2, <1>7, <1>8, <1>10, <2>1, InitialIssuanceSpends DEF w1, w2, total
<1>12. Totals(tx.ins, 0, 0, 1, 1, total + FeeAmount + x + y)
    <2>1. ASSUME NEW a
          PROVE  /\ Valued(i1, a) = (IF "YES_RT" = a THEN 1 ELSE 0)
                 /\ Valued(i2, a) = (IF "NO_RT" = a THEN 1 ELSE 0)
                 /\ Valued(i3, a) = (IF "COLLATERAL" = a THEN wallet ELSE 0)
                 /\ Valued(i4, a) = (IF "COLLATERAL" = a THEN fee ELSE 0)
        BY <1>2 DEF RtIn, WalletIn, Valued
    <2>2. ASSUME NEW a
          PROVE  Total(ins, a) = Valued(i1, a) + Valued(i2, a) + Valued(i3, a) + Valued(i4, a)
        <3>1. /\ Valued(ins[1], a) \in Int /\ Valued(ins[2], a) \in Int
              /\ Valued(ins[3], a) \in Int /\ Valued(ins[4], a) \in Int
            BY <1>0, <1>8, <2>1
        <3> QED BY <1>8, <3>1, TotalOfFour
    <2> QED BY <1>0, <1>7, <2>1, <2>2 DEF Totals, total
<1>13. IsFiniteSet(DOMAIN tx.ins)
    BY <1>7, <1>8, FinitePrefix
<1>14. Minted(tx, "YES") = n /\ Minted(tx, "NO") = n
    <2>1. \A k \in 1..4 : k = 1 \/ k = 2 \/ k = 3 \/ k = 4
        OBVIOUS
    <2>2. Minted(tx, "YES") = n
        <3>1. /\ 1 \in DOMAIN tx.ins /\ tx.ins[1].asset = RtOf("YES") /\ tx.ins[1].issuance = {n}
              /\ \A k \in DOMAIN tx.ins \ {1} : tx.ins[k].asset # RtOf("YES")
            BY <1>2, <1>7, <1>8, <2>1 DEF RtIn, WalletIn, RtOf
        <3> QED BY <1>0, <1>13, <3>1, MintedOne
    <2>3. Minted(tx, "NO") = n
        <3>1. /\ 2 \in DOMAIN tx.ins /\ tx.ins[2].asset = RtOf("NO") /\ tx.ins[2].issuance = {n}
              /\ \A k \in DOMAIN tx.ins \ {2} : tx.ins[k].asset # RtOf("NO")
            BY <1>2, <1>7, <1>8, <2>1 DEF RtIn, WalletIn, RtOf
        <3> QED BY <1>0, <1>13, <3>1, MintedOne
    <2> QED BY <2>2, <2>3
<1>15. Balanced(tx)
    <2> DEFINE c == total + FeeAmount + x + y
    <2>1. c \in Int /\ 0 + n = n /\ 1 \in Int
        BY <1>0
    <2>2. Totals(tx.ins, 0, 0, 1, 1, c) /\ Totals(tx.outs, 0 + n, 0 + n, 1, 1, c)
        BY <1>10, <1>12, <2>1 DEF Sums
    <2> HIDE DEF c
    <2> QED BY <1>0, <1>14, <2>1, <2>2, BalancedIs
<1>16. \A k \in DOMAIN ws : /\ k \in DOMAIN tx.ins /\ tx.ins[k].script \in MarketSlot
                            /\ Prevout(tx.ins[k]) \in utxos /\ main(tx, k - 1, ws[k])
    <2> SUFFICES ASSUME NEW k \in 1..2
                 PROVE  /\ k \in DOMAIN tx.ins /\ tx.ins[k].script \in MarketSlot
                        /\ Prevout(tx.ins[k]) \in utxos /\ main(tx, k - 1, ws[k])
        BY <1>9
    <2>1. CASE k = 1
        BY <1>2, <1>3, <1>7, <1>8, <1>9, <1>11, <2>1 DEF RtIn, MarketSlot
    <2>2. CASE k = 2
        BY <1>2, <1>3, <1>7, <1>8, <1>9, <1>11, <2>2 DEF RtIn, MarketSlot
    <2> QED BY <2>1, <2>2
<1>17. \A k \in DOMAIN tx.ins : k \notin DOMAIN ws => tx.ins[k].script = "Wallet"
    BY <1>2, <1>7, <1>8, <1>9 DEF WalletIn
<1>18. tx.lock <= height
    BY <1>0, <1>7
<1>19. NetworkAccepts(Assembled(tx, ws))
    BY <1>10, <1>15, <1>16, <1>17, <1>18, Accepts
<1> QED
    BY <1>6, <1>19 DEF b, tx, ws
(* A further issuance: the covenant's answer. *)
LEMMA SubsequentIssuanceSpends ==
    ASSUME NEW tx, NEW n \in Nat \ {0}, NEW v \in Nat,
           Fits(required_collateral(n)), Fits(v + required_collateral(n)),
           Len(tx.ins) = 5, RtIn(tx.ins[1], "UnresolvedYesRt", "YES_RT", {n}),
           RtIn(tx.ins[2], "UnresolvedNoRt", "NO_RT", {n}),
           CollIn(tx.ins[3], "UnresolvedCollateral", v),
           Len(tx.outs) \in Nat, Len(tx.outs) >= 6,
           tx.outs[1] = RtOut("UnresolvedYesRt", "YES_RT"),
           tx.outs[2] = RtOut("UnresolvedNoRt", "NO_RT"),
           tx.outs[3] = CollOut("UnresolvedCollateral", v + required_collateral(n)),
           tx.outs[6].script = "Fee"
    PROVE  /\ main(tx, 0, Witness("SubsequentIssuancePrimary", "UnresolvedYesRt"))
           /\ main(tx, 1, Witness("SubsequentIssuanceSecondaryNoRt", "UnresolvedNoRt"))
           /\ main(tx, 2, Witness("SubsequentIssuanceSecondaryCollateral", "UnresolvedCollateral"))
<1> DEFINE w1 == Witness("SubsequentIssuancePrimary", "UnresolvedYesRt")
           w2 == Witness("SubsequentIssuanceSecondaryNoRt", "UnresolvedNoRt")
           w3 == Witness("SubsequentIssuanceSecondaryCollateral", "UnresolvedCollateral")
           total == v + required_collateral(n)
<1>1. /\ w1.path = "SubsequentIssuancePrimary" /\ w1.slot = "UnresolvedYesRt"
      /\ w2.path = "SubsequentIssuanceSecondaryNoRt" /\ w2.slot = "UnresolvedNoRt"
      /\ w3.path = "SubsequentIssuanceSecondaryCollateral" /\ w3.slot = "UnresolvedCollateral"
    BY WitnessFields
<1>2. CollateralFits(n) /\ v + collateral_for_pairs(n) = total /\ Fits(total)
    BY CovenantPrice
<1>3. /\ input(tx, 0) = tx.ins[1] /\ input(tx, 1) = tx.ins[2] /\ input(tx, 2) = tx.ins[3]
      /\ output(tx, 0) = tx.outs[1] /\ output(tx, 1) = tx.outs[2] /\ output(tx, 2) = tx.outs[3]
      /\ output(tx, 5) = tx.outs[6]
    BY DEF input, output
<1>4. /\ tx.outs[1].script = "UnresolvedYesRt" /\ tx.outs[2].script = "UnresolvedNoRt"
      /\ tx.outs[3].script = "UnresolvedCollateral"
      /\ verify_token_commitment(tx.outs[1], "YES_RT")
      /\ verify_token_commitment(tx.outs[2], "NO_RT")
      /\ ~tx.outs[3].conf /\ tx.outs[3].asset = "COLLATERAL" /\ tx.outs[3].amount = total
    BY DEF RtOut, CollOut, verify_token_commitment
<1>5. /\ tx.ins[1].script = "UnresolvedYesRt" /\ tx.ins[2].script = "UnresolvedNoRt"
      /\ tx.ins[3].script = "UnresolvedCollateral"
      /\ verify_token_commitment(tx.ins[1], "YES_RT")
      /\ verify_token_commitment(tx.ins[2], "NO_RT")
      /\ tx.ins[1].issuance = {n} /\ tx.ins[2].issuance = {n} /\ tx.ins[3].issuance = {}
      /\ ~tx.ins[3].conf /\ tx.ins[3].asset = "COLLATERAL" /\ tx.ins[3].amount = v
    BY DEF RtIn, CollIn, verify_token_commitment
<1> HIDE DEF w1, w2, w3, total
<1>6. IssuanceOutputs(tx, total)
    BY <1>3, <1>4 DEF IssuanceOutputs, verify_output_reissuance_token, ensure_output_script,
       ensure_output_asset_with_amount, ensure_fee_output, num_outputs
<1>7. subsequent_issuance_primary_path(tx, 0, w1)
    BY <1>1, <1>2, <1>3, <1>5, <1>6 DEF subsequent_issuance_primary_path, ensure_input_script,
       verify_input_reissuance_token, ensure_input_explicit
<1>8. subsequent_issuance_secondary_no_rt_path(tx, 1, w2)
    BY <1>1, <1>3, <1>4, <1>5 DEF subsequent_issuance_secondary_no_rt_path, ensure_input_script,
       ensure_primary_slot, verify_input_reissuance_token, verify_output_reissuance_token,
       ensure_output_script, num_outputs
<1>9. subsequent_issuance_secondary_collateral_path(tx, 2, w3)
    BY <1>1, <1>3, <1>4, <1>5 DEF subsequent_issuance_secondary_collateral_path,
       ensure_input_script, ensure_primary_slot, ensure_input_explicit, ensure_no_issuance,
       ensure_output_script, num_outputs
<1>10. main(tx, 0, w1)
    BY <1>1, <1>3, <1>5, <1>7 DEF main, ensure_input_script
<1>11. main(tx, 1, w2)
    BY <1>1, <1>3, <1>5, <1>8 DEF main, ensure_input_script
<1>12. main(tx, 2, w3)
    BY <1>1, <1>3, <1>5, <1>9 DEF main, ensure_input_script
<1> QED
    BY <1>10, <1>11, <1>12 DEF w1, w2, w3

(* A further issuance lands. *)
LEMMA SubsequentIssuanceLands ==
    ASSUME Inv, state = "Unresolved", NEW n \in Nat \ {0}, Fits(required_collateral(n)),
           Fits(classify_covenant_utxos.coll.amount + required_collateral(n)),
           NEW x \in Nat, NEW y \in Nat, NEW wallet, wallet = required_collateral(n) + x,
           NEW fee, fee = FeeAmount + y
    PROVE  NetworkAccepts(assemble_issuance(state, classify_covenant_utxos, n, wallet, fee))
<1> DEFINE b == classify_covenant_utxos
           price == required_collateral(n)
           total == b.coll.amount + price
           i1 == InputWithIssuance(b.yes, {n})
           i2 == InputWithIssuance(b.no, {n})
           i3 == add_pset_input(b.coll)
           i4 == add_pset_input(WalletUtxo("COLLATERAL", wallet))
           i5 == add_pset_input(WalletUtxo("COLLATERAL", fee))
           ins == <<i1, i2, i3, i4, i5>>
           outs == IssuanceOuts(n, total) \o Change("COLLATERAL", x) \o Change("COLLATERAL", y)
           p == build_subsequent_issuance_pset(b, n, wallet, fee)
           tx == TokenBlind(p)
           w1 == Witness("SubsequentIssuancePrimary", "UnresolvedYesRt")
           w2 == Witness("SubsequentIssuanceSecondaryNoRt", "UnresolvedNoRt")
           w3 == Witness("SubsequentIssuanceSecondaryCollateral", "UnresolvedCollateral")
           ws == <<w1, w2, w3>>
<1>1. PICK yes, no, k \in Ids(txs), v \in 1..U64Max :
          /\ b.yes = Rt(yes, "UnresolvedYesRt", "YES_RT")
          /\ b.no = Rt(no, "UnresolvedNoRt", "NO_RT")
          /\ b.coll = Coll(k, "UnresolvedCollateral", v)
          /\ b.yes \in utxos /\ b.no \in utxos /\ b.coll \in utxos
    BY BundleIs DEF Inv
<1>v. v \in Nat /\ v > 0 /\ b.coll.amount = v
    BY <1>1, CovenantAssumption DEF Coll
<1>0. price \in Nat \ {0} /\ FeeAmount \in Nat /\ wallet \in Nat /\ fee \in Nat /\ height \in Nat
      /\ wallet - price = x /\ fee - FeeAmount = y /\ n \in Nat
    BY CovenantPrice, FeeAssumption, MarketAssumption DEF Inv
<1>t. total = v + price /\ total \in Nat \ {0} /\ Fits(total)
    BY <1>v, <1>0
<1>2. /\ RtIn(i1, "UnresolvedYesRt", "YES_RT", {n}) /\ RtIn(i2, "UnresolvedNoRt", "NO_RT", {n})
      /\ CollIn(i3, "UnresolvedCollateral", v)
      /\ WalletIn(i4, "COLLATERAL", wallet) /\ WalletIn(i5, "COLLATERAL", fee)
    BY <1>1, InputsMade
<1>3. Prevout(i1) \in utxos /\ Prevout(i2) \in utxos /\ Prevout(i3) \in utxos
    BY <1>1, InputKinds DEF add_pset_input
<1>4. IsPset(p, ins, outs, 0)
    BY <1>0 DEF build_subsequent_issuance_pset, IsPset
<1>5. IssuesOuts(outs, n, total, x, y)
    BY DEF IssuesOuts
<1>6. assemble_issuance(state, b, n, wallet, fee) = Assembled(tx, ws)
    BY DEF assemble_issuance, TokenBlind
<1> HIDE DEF b, i1, i2, i3, i4, i5, outs, p, w1, w2, w3
<1>7. tx.ins = ins /\ tx.lock = 0 /\ tx.outs = BlindOuts(outs, RtPos)
    BY <1>4, TokenBlinds
<1>8. /\ DOMAIN ins = 1..5 /\ Len(ins) = 5 /\ ins[1] = i1 /\ ins[2] = i2 /\ ins[3] = i3
      /\ ins[4] = i4 /\ ins[5] = i5
    OBVIOUS
<1>9. DOMAIN ws = 1..3 /\ ws[1] = w1 /\ ws[2] = w2 /\ ws[3] = w3
    OBVIOUS
<1> HIDE DEF ins, tx, ws, total
<1>10. /\ Sums(tx.outs, n, n, 1, 1, total + FeeAmount + x + y) /\ Len(tx.outs) >= 6
       /\ tx.outs[1] = RtOut("UnresolvedYesRt", "YES_RT")
       /\ tx.outs[2] = RtOut("UnresolvedNoRt", "NO_RT")
       /\ tx.outs[3] = CollOut("UnresolvedCollateral", total)
       /\ tx.outs[6].script = "Fee"
    <2>1. total \in Nat \ {0}
        BY <1>t
    <2> QED BY <1>5, <1>7, <2>1, IssuancePays
<1>11. main(tx, 0, w1) /\ main(tx, 1, w2) /\ main(tx, 2, w3)
    <2>1. Len(tx.outs) \in Nat
        BY <1>10 DEF Sums
    <2> QED BY <1>t, <1>v, <1>2, <1>7, <1>8, <1>10, <2>1, SubsequentIssuanceSpends DEF w1, w2, w3
<1> HIDE DEF price
<1>12. Totals(tx.ins, 0, 0, 1, 1, total + FeeAmount + x + y)
    <2>1. ASSUME NEW a
          PROVE  /\ Valued(i1, a) = (IF "YES_RT" = a THEN 1 ELSE 0)
                 /\ Valued(i2, a) = (IF "NO_RT" = a THEN 1 ELSE 0)
                 /\ Valued(i3, a) = (IF "COLLATERAL" = a THEN v ELSE 0)
                 /\ Valued(i4, a) = (IF "COLLATERAL" = a THEN wallet ELSE 0)
                 /\ Valued(i5, a) = (IF "COLLATERAL" = a THEN fee ELSE 0)
        BY <1>2 DEF RtIn, CollIn, WalletIn, Valued
    <2>2. ASSUME NEW a
          PROVE  Total(ins, a) = Valued(i1, a) + Valued(i2, a) + Valued(i3, a) + Valued(i4, a)
                                 + Valued(i5, a)
        <3>1. /\ Valued(ins[1], a) \in Int /\ Valued(ins[2], a) \in Int
              /\ Valued(ins[3], a) \in Int /\ Valued(ins[4], a) \in Int /\ Valued(ins[5], a) \in Int
            BY <1>0, <1>v, <1>8, <2>1
        <3> QED BY <1>8, <3>1, TotalOfFive
    <2>3. v + wallet + fee = total + FeeAmount + x + y
        BY <1>0, <1>t, <1>v DEF price
    <2> QED BY <1>0, <1>v, <1>7, <2>1, <2>2, <2>3 DEF Totals
<1>13. IsFiniteSet(DOMAIN tx.ins)
    BY <1>7, <1>8, FinitePrefix
<1>14. Minted(tx, "YES") = n /\ Minted(tx, "NO") = n
    <2>1. \A j \in 1..5 : j = 1 \/ j = 2 \/ j = 3 \/ j = 4 \/ j = 5
        OBVIOUS
    <2>2. Minted(tx, "YES") = n
        <3>1. /\ 1 \in DOMAIN tx.ins /\ tx.ins[1].asset = RtOf("YES") /\ tx.ins[1].issuance = {n}
              /\ \A j \in DOMAIN tx.ins \ {1} : tx.ins[j].asset # RtOf("YES")
            BY <1>2, <1>7, <1>8, <2>1 DEF RtIn, CollIn, WalletIn, RtOf
        <3> QED BY <1>0, <1>13, <3>1, MintedOne
    <2>3. Minted(tx, "NO") = n
        <3>1. /\ 2 \in DOMAIN tx.ins /\ tx.ins[2].asset = RtOf("NO") /\ tx.ins[2].issuance = {n}
              /\ \A j \in DOMAIN tx.ins \ {2} : tx.ins[j].asset # RtOf("NO")
            BY <1>2, <1>7, <1>8, <2>1 DEF RtIn, CollIn, WalletIn, RtOf
        <3> QED BY <1>0, <1>13, <3>1, MintedOne
    <2> QED BY <2>2, <2>3
<1>15. Balanced(tx)
    <2> DEFINE c == total + FeeAmount + x + y
    <2>1. c \in Int /\ 0 + n = n /\ 1 \in Int
        BY <1>0, <1>t
    <2>2. Totals(tx.ins, 0, 0, 1, 1, c) /\ Totals(tx.outs, 0 + n, 0 + n, 1, 1, c)
        BY <1>10, <1>12, <2>1 DEF Sums
    <2> HIDE DEF c
    <2> QED BY <1>0, <1>14, <2>1, <2>2, BalancedIs
<1>16. \A j \in DOMAIN ws : /\ j \in DOMAIN tx.ins /\ tx.ins[j].script \in MarketSlot
                            /\ Prevout(tx.ins[j]) \in utxos /\ main(tx, j - 1, ws[j])
    <2> SUFFICES ASSUME NEW j \in 1..3
                 PROVE  /\ j \in DOMAIN tx.ins /\ tx.ins[j].script \in MarketSlot
                        /\ Prevout(tx.ins[j]) \in utxos /\ main(tx, j - 1, ws[j])
        BY <1>9
    <2>1. CASE j = 1
        BY <1>2, <1>3, <1>7, <1>8, <1>9, <1>11, <2>1 DEF RtIn, MarketSlot
    <2>2. CASE j = 2
        BY <1>2, <1>3, <1>7, <1>8, <1>9, <1>11, <2>2 DEF RtIn, MarketSlot
    <2>3. CASE j = 3
        BY <1>2, <1>3, <1>7, <1>8, <1>9, <1>11, <2>3 DEF CollIn, MarketSlot
    <2> QED BY <2>1, <2>2, <2>3
<1>17. \A j \in DOMAIN tx.ins : j \notin DOMAIN ws => tx.ins[j].script = "Wallet"
    BY <1>2, <1>7, <1>8, <1>9 DEF WalletIn
<1>18. tx.lock <= height
    BY <1>0, <1>7
<1>19. NetworkAccepts(Assembled(tx, ws))
    BY <1>10, <1>15, <1>16, <1>17, <1>18, Accepts
<1> QED
    BY <1>6, <1>19 DEF b, tx, ws

(* Outputs that end with the fee. *)
LEMMA FeeAtEnd ==
    ASSUME NEW r \in Seq(OutRec), NEW s, s = r \o <<fee_txout>>, NEW t,
           Len(t) = Len(s), \A k \in 1..Len(s) : t[k].script = s[k].script
    PROVE  t[Len(t)].script = "Fee" /\ Len(t) \in Nat /\ Len(t) >= 1
<1>1. Len(s) = Len(r) + 1 /\ s[Len(r) + 1] = fee_txout /\ Len(r) \in Nat
    OBVIOUS
<1>2. fee_txout.script = "Fee"
    BY DEF fee_txout, explicit_txout
<1>3. Len(t) \in 1..Len(s)
    BY <1>1
<1> QED
    BY <1>1, <1>2, <1>3

(* The outputs of a resolution or an expiry. *)
LEMMA TerminalPays ==
    ASSUME NEW v \in Nat \ {0}, NEW target \in MarketSlot, NEW y \in Nat, NEW outs,
           TerminalOuts(outs, v, target, y), NEW t, t = BlindOuts(outs, RtPos)
    PROVE  /\ Sums(t, 0, 0, 1, 1, v + y + FeeAmount)
           /\ Len(t) \in Nat /\ Len(t) >= 3 /\ t[Len(t)].script = "Fee"
           /\ t[1] = RtOut("Burn", "YES_RT") /\ t[2] = RtOut("Burn", "NO_RT")
           /\ t[3] = CollOut(target, v)
<1> DEFINE o1 == burn_txout("YES_RT", 1)
           o2 == burn_txout("NO_RT", 1)
           o3 == explicit_txout("COLLATERAL", v, target)
           base == <<o1, o2, o3>>
           pos == RtPos
           r == BlindOuts(base, pos)
           s == base \o Change("COLLATERAL", y)
<1>0. target # "Wallet" /\ v > 0 /\ FeeAmount \in Nat
    BY FeeAssumption DEF MarketSlot
<1>1. o1 \in OutRec /\ o2 \in OutRec /\ o3 \in OutRec
    BY DEF OutRec, Script, Asset, explicit_txout, burn_txout
<1>2. 3 \notin pos /\ \A k \in pos : k = 1 \/ k = 2
    BY DEF RtPos
<1>3. /\ Blinded(o1, 1, pos) = RtOut("Burn", "YES_RT")
      /\ Blinded(o2, 2, pos) = RtOut("Burn", "NO_RT")
    BY DEF RtPos, Blinded, burn_txout, explicit_txout, RtOut
<1>4. Blinded(o3, 3, pos) = CollOut(target, v)
    BY <1>0, <1>2, BlindedColl
<1>5. outs = s \o <<fee_txout>> /\ t = BlindOuts(outs, pos)
    BY DEF TerminalOuts
<1> HIDE DEF o1, o2, o3, pos
<1>6. /\ base \in Seq(OutRec) /\ Len(base) = 3 /\ DOMAIN base = 1..3
      /\ base[1] = o1 /\ base[2] = o2 /\ base[3] = o3
    BY <1>1
<1> HIDE DEF base
<1>7. /\ DOMAIN r = 1..3
      /\ r[1] = RtOut("Burn", "YES_RT") /\ r[2] = RtOut("Burn", "NO_RT")
      /\ r[3] = CollOut(target, v)
    BY <1>3, <1>4, <1>6 DEF BlindOuts
<1>8. \A k \in 1..3 : k = 1 \/ k = 2 \/ k = 3
    OBVIOUS
<1> HIDE DEF r
<1>9. ComesTo(base, base, pos, 0, 0, 1, 1, v)
    <2>1. \A k \in 1..Len(base) : r[k].amount > 0
        BY <1>0, <1>6, <1>7, <1>8 DEF RtOut, CollOut
    <2>2. \A k \in pos : k \in 1..Len(base)
        BY <1>2, <1>6
    <2>3. ASSUME NEW a
          PROVE  /\ Valued(r[1], a) = (IF a = "YES_RT" THEN 1 ELSE 0)
                 /\ Valued(r[2], a) = (IF a = "NO_RT" THEN 1 ELSE 0)
                 /\ Valued(r[3], a) = (IF a = "COLLATERAL" THEN v ELSE 0)
        BY <1>7 DEF Valued, RtOut, CollOut
    <2>4. ASSUME NEW a
          PROVE  Total(r, a) = Valued(r[1], a) + Valued(r[2], a) + Valued(r[3], a)
        BY <1>7, <2>3, TotalOfThree
    <2>5. Totals(r, 0, 0, 1, 1, v)
        BY <2>3, <2>4 DEF Totals
    <2> QED BY <1>6, <2>1, <2>2, <2>5, BaseComesTo DEF r
<1>10. ComesTo(s, base, pos, 0, 0, 1, 1, v + y)
    BY <1>9, ComesToChange
<1> HIDE DEF s
<1>11. ComesTo(outs, base, pos, 0, 0, 1, 1, v + y + FeeAmount)
    <2>1. v + y \in Nat
        OBVIOUS
    <2> QED BY <1>5, <1>10, <2>1, ComesToChange
<1>12. /\ Sums(t, 0, 0, 1, 1, v + y + FeeAmount)
       /\ Len(t) = Len(outs)
       /\ \A k \in 1..Len(base) : k \in 1..Len(t) /\ t[k] = Blinded(base[k], k, pos)
       /\ \A k \in 1..Len(outs) : t[k].script = outs[k].script
    <2> DEFINE c == v + y + FeeAmount
    <2>1. ComesTo(outs, base, pos, 0, 0, 1, 1, c)
        BY <1>11
    <2> HIDE DEF c
    <2>2. /\ Sums(t, 0, 0, 1, 1, c)
          /\ Len(t) = Len(outs)
          /\ \A k \in 1..Len(base) : k \in 1..Len(t) /\ t[k] = Blinded(base[k], k, pos)
          /\ \A k \in 1..Len(outs) : t[k].script = outs[k].script
        <3>1. t = BlindOuts(outs, pos)
            BY <1>5
        <3> QED BY ONLY <2>1, <3>1, BlindedOutputs
    <2> QED BY <2>2 DEF c
<1>13. s \in Seq(OutRec)
    BY <1>10 DEF ComesTo
<1>14. t[Len(t)].script = "Fee" /\ Len(t) \in Nat
    BY <1>5, <1>12, <1>13, FeeAtEnd
<1>15. /\ 3 \in 1..Len(t) /\ t[1] = Blinded(o1, 1, pos) /\ t[2] = Blinded(o2, 2, pos)
       /\ t[3] = Blinded(o3, 3, pos)
    BY <1>6, <1>12
<1> QED
    BY <1>3, <1>4, <1>12, <1>14, <1>15

(* What the covenant asks of the inputs and outputs of a resolution or an  *)
(* expiry.                                                                 *)
TerminalShape(tx, v, target) ==
    /\ Len(tx.ins) = 4
    /\ RtIn(tx.ins[1], "UnresolvedYesRt", "YES_RT", {})
    /\ RtIn(tx.ins[2], "UnresolvedNoRt", "NO_RT", {})
    /\ CollIn(tx.ins[3], "UnresolvedCollateral", v)
    /\ Len(tx.outs) \in Nat /\ Len(tx.outs) >= 3 /\ tx.outs[Len(tx.outs)].script = "Fee"
    /\ tx.outs[1] = RtOut("Burn", "YES_RT") /\ tx.outs[2] = RtOut("Burn", "NO_RT")
    /\ tx.outs[3] = CollOut(target, v)

(* Such a transaction passes the checks resolution and expiry share. *)
LEMMA TerminalPaths ==
    ASSUME NEW tx, NEW v \in Nat, NEW target, TerminalShape(tx, v, target),
           NEW w1, w1.slot = "UnresolvedYesRt", NEW w2, w2.slot = "UnresolvedNoRt",
           NEW w3, w3.slot = "UnresolvedCollateral"
    PROVE  /\ TerminalPrimary(tx, 0, w1, target)
           /\ oracle_resolve_secondary_no_rt_path(tx, 1, w2)
           /\ oracle_resolve_secondary_collateral_path(tx, 2, w3)
           /\ ensure_input_script(tx, 0, w1.slot) /\ ensure_input_script(tx, 1, w2.slot)
           /\ ensure_input_script(tx, 2, w3.slot)
<1>0. Len(tx.ins) = 4 /\ Len(tx.outs) \in Nat /\ Len(tx.outs) >= 3
      /\ tx.outs[Len(tx.outs)].script = "Fee"
    BY DEF TerminalShape
<1>1. /\ input(tx, 0) = tx.ins[1] /\ input(tx, 1) = tx.ins[2] /\ input(tx, 2) = tx.ins[3]
      /\ output(tx, 0) = tx.outs[1] /\ output(tx, 1) = tx.outs[2] /\ output(tx, 2) = tx.outs[3]
    BY DEF input, output
<1>2. output(tx, Len(tx.outs) - 1) = tx.outs[Len(tx.outs)]
    <2>1. (Len(tx.outs) - 1) + 1 = Len(tx.outs)
        BY <1>0
    <2> QED BY <2>1 DEF output
<1>3. /\ tx.outs[1].script = "Burn" /\ tx.outs[2].script = "Burn" /\ tx.outs[3].script = target
      /\ verify_token_commitment(tx.outs[1], "YES_RT")
      /\ verify_token_commitment(tx.outs[2], "NO_RT")
      /\ ~tx.outs[3].conf /\ tx.outs[3].asset = "COLLATERAL" /\ tx.outs[3].amount = v
    BY DEF TerminalShape, RtOut, CollOut, verify_token_commitment
<1>4. /\ tx.ins[1].script = "UnresolvedYesRt" /\ tx.ins[2].script = "UnresolvedNoRt"
      /\ tx.ins[3].script = "UnresolvedCollateral"
      /\ verify_token_commitment(tx.ins[1], "YES_RT")
      /\ verify_token_commitment(tx.ins[2], "NO_RT")
      /\ tx.ins[1].issuance = {} /\ tx.ins[2].issuance = {} /\ tx.ins[3].issuance = {}
      /\ ~tx.ins[3].conf /\ tx.ins[3].asset = "COLLATERAL" /\ tx.ins[3].amount = v
    BY DEF TerminalShape, RtIn, CollIn, verify_token_commitment
<1>5. /\ ensure_input_script(tx, 0, "UnresolvedYesRt")
      /\ ensure_input_script(tx, 1, "UnresolvedNoRt")
      /\ ensure_input_script(tx, 2, "UnresolvedCollateral")
      /\ verify_input_reissuance_token(tx, 0, "YES_RT")
      /\ verify_input_reissuance_token(tx, 1, "NO_RT")
      /\ ensure_no_issuance(tx, 0) /\ ensure_no_issuance(tx, 1) /\ ensure_no_issuance(tx, 2)
      /\ ensure_input_explicit(tx, 2, "COLLATERAL")
    BY <1>0, <1>1, <1>4 DEF ensure_input_script, verify_input_reissuance_token, ensure_no_issuance,
       ensure_input_explicit
<1>6. /\ verify_output_reissuance_token(tx, 0, "YES_RT", "Burn")
      /\ verify_output_reissuance_token(tx, 1, "NO_RT", "Burn")
      /\ ensure_output_asset_with_amount(tx, 2, "COLLATERAL", v)
      /\ ensure_output_script(tx, 2, target)
    BY <1>0, <1>1, <1>3 DEF verify_output_reissuance_token, ensure_output_asset_with_amount,
       ensure_output_script, num_outputs
<1>7. ensure_fee_output_at_end(tx)
    BY <1>0, <1>2 DEF ensure_fee_output_at_end, ensure_fee_output, ensure_output_script, num_outputs
<1>8. input(tx, 2).amount = v
    BY <1>1, <1>4
<1> QED
    BY <1>5, <1>6, <1>7, <1>8 DEF TerminalPrimary, oracle_resolve_secondary_no_rt_path,
       oracle_resolve_secondary_collateral_path, ensure_primary_slot

(* A resolution with the oracle's signature. *)
LEMMA ResolveSpends ==
    ASSUME NEW tx, NEW v \in Nat, NEW sig \in BOOLEAN,
           TerminalShape(tx, v, IF sig THEN "ResolvedYesCollateral" ELSE "ResolvedNoCollateral")
    PROVE  /\ main(tx, 0, [Witness("OracleResolvePrimary", "UnresolvedYesRt")
                              EXCEPT !.outcome_yes = sig, !.sig = sig])
           /\ main(tx, 1, Witness("OracleResolveSecondaryNoRt", "UnresolvedNoRt"))
           /\ main(tx, 2, Witness("OracleResolveSecondaryCollateral", "UnresolvedCollateral"))
<1> DEFINE w1 == [Witness("OracleResolvePrimary", "UnresolvedYesRt")
                     EXCEPT !.outcome_yes = sig, !.sig = sig]
           w2 == Witness("OracleResolveSecondaryNoRt", "UnresolvedNoRt")
           w3 == Witness("OracleResolveSecondaryCollateral", "UnresolvedCollateral")
           target == IF sig THEN "ResolvedYesCollateral" ELSE "ResolvedNoCollateral"
<1>1. /\ w1.path = "OracleResolvePrimary" /\ w1.slot = "UnresolvedYesRt"
      /\ w1.outcome_yes = sig /\ w1.sig = sig
      /\ w2.path = "OracleResolveSecondaryNoRt" /\ w2.slot = "UnresolvedNoRt"
      /\ w3.path = "OracleResolveSecondaryCollateral" /\ w3.slot = "UnresolvedCollateral"
    BY DEF Witness
<1>t. TerminalShape(tx, v, target)
    OBVIOUS
<1> HIDE DEF w1, w2, w3
<1>u. (IF w1.outcome_yes THEN "ResolvedYesCollateral" ELSE "ResolvedNoCollateral") = target
    BY <1>1
<1> HIDE DEF target
<1>2. /\ TerminalPrimary(tx, 0, w1, target)
      /\ oracle_resolve_secondary_no_rt_path(tx, 1, w2)
      /\ oracle_resolve_secondary_collateral_path(tx, 2, w3)
      /\ ensure_input_script(tx, 0, w1.slot) /\ ensure_input_script(tx, 1, w2.slot)
      /\ ensure_input_script(tx, 2, w3.slot)
    BY <1>1, <1>t, TerminalPaths
<1>3. oracle_resolve_primary_path(tx, 0, w1)
    BY <1>1, <1>2, <1>u DEF oracle_resolve_primary_path, verify_oracle_signature
<1>4. main(tx, 0, w1)
    BY <1>1, <1>2, <1>3 DEF main
<1>5. main(tx, 1, w2)
    BY <1>1, <1>2 DEF main
<1>6. main(tx, 2, w3)
    BY <1>1, <1>2 DEF main
<1> QED
    BY <1>4, <1>5, <1>6 DEF w1, w2, w3

(* An expiry with its lock time. *)
LEMMA ExpireSpends ==
    ASSUME NEW tx, NEW v \in Nat, TerminalShape(tx, v, "ExpiredCollateral"), tx.lock = ExpiryTime
    PROVE  /\ main(tx, 0, Witness("ExpireTransitionPrimary", "UnresolvedYesRt"))
           /\ main(tx, 1, Witness("ExpireTransitionSecondaryNoRt", "UnresolvedNoRt"))
           /\ main(tx, 2, Witness("ExpireTransitionSecondaryCollateral", "UnresolvedCollateral"))
<1> DEFINE w1 == Witness("ExpireTransitionPrimary", "UnresolvedYesRt")
           w2 == Witness("ExpireTransitionSecondaryNoRt", "UnresolvedNoRt")
           w3 == Witness("ExpireTransitionSecondaryCollateral", "UnresolvedCollateral")
<1>1. /\ w1.path = "ExpireTransitionPrimary" /\ w1.slot = "UnresolvedYesRt"
      /\ w2.path = "ExpireTransitionSecondaryNoRt" /\ w2.slot = "UnresolvedNoRt"
      /\ w3.path = "ExpireTransitionSecondaryCollateral" /\ w3.slot = "UnresolvedCollateral"
    BY WitnessFields
<1> HIDE DEF w1, w2, w3
<1>2. /\ TerminalPrimary(tx, 0, w1, "ExpiredCollateral")
      /\ oracle_resolve_secondary_no_rt_path(tx, 1, w2)
      /\ oracle_resolve_secondary_collateral_path(tx, 2, w3)
      /\ ensure_input_script(tx, 0, w1.slot) /\ ensure_input_script(tx, 1, w2.slot)
      /\ ensure_input_script(tx, 2, w3.slot)
    BY <1>1, TerminalPaths
<1>3. check_lock_height(tx)
    BY CovenantAssumption DEF check_lock_height
<1>4. main(tx, 0, w1)
    BY <1>1, <1>2, <1>3 DEF main, expire_transition_primary_path
<1>5. main(tx, 1, w2)
    BY <1>1, <1>2, <1>3 DEF main, expire_transition_secondary_no_rt_path
<1>6. main(tx, 2, w3)
    BY <1>1, <1>2, <1>3 DEF main, expire_transition_secondary_collateral_path
<1> QED
    BY <1>4, <1>5, <1>6 DEF w1, w2, w3

(* A resolution or an expiry balances, and spends what is live. *)
LEMMA TerminalBalances ==
    ASSUME Inv, state = "Unresolved", NEW target \in MarketSlot, NEW lock,
           NEW y \in Nat, NEW fee, fee = FeeAmount + y, NEW p, NEW tx, tx = TokenBlind(p),
           p = TerminalPset(classify_covenant_utxos, target, fee, lock)
    PROVE  \E v \in Nat \ {0} :
              /\ TerminalShape(tx, v, target) /\ tx.lock = lock
              /\ Sums(tx.outs, 0, 0, 1, 1, v + y + FeeAmount)
              /\ Balanced(tx)
              /\ DOMAIN tx.ins = 1..4 /\ tx.ins[4].script = "Wallet"
              /\ \A j \in 1..3 : /\ tx.ins[j].script \in MarketSlot
                                 /\ Prevout(tx.ins[j]) \in utxos
<1> DEFINE b == classify_covenant_utxos
           i1 == add_pset_input(b.yes)
           i2 == add_pset_input(b.no)
           i3 == add_pset_input(b.coll)
           i4 == add_pset_input(WalletUtxo("COLLATERAL", fee))
           ins == <<i1, i2, i3, i4>>
           amount == b.coll.amount
           outs == << burn_txout("YES_RT", 1), burn_txout("NO_RT", 1),
                      explicit_txout("COLLATERAL", amount, target) >>
                   \o Change("COLLATERAL", y) \o << fee_txout >>
<1>1. PICK yes, no, k \in Ids(txs), v \in 1..U64Max :
          /\ b.yes = Rt(yes, "UnresolvedYesRt", "YES_RT")
          /\ b.no = Rt(no, "UnresolvedNoRt", "NO_RT")
          /\ b.coll = Coll(k, "UnresolvedCollateral", v)
          /\ b.yes \in utxos /\ b.no \in utxos /\ b.coll \in utxos
    BY BundleIs DEF Inv
<1>v. v \in Nat \ {0} /\ amount = v
    BY <1>1, CovenantAssumption DEF Coll
<1>0. FeeAmount \in Nat /\ fee \in Nat /\ fee - FeeAmount = y
    BY FeeAssumption
<1>2. /\ RtIn(i1, "UnresolvedYesRt", "YES_RT", {}) /\ RtIn(i2, "UnresolvedNoRt", "NO_RT", {})
      /\ CollIn(i3, "UnresolvedCollateral", v) /\ WalletIn(i4, "COLLATERAL", fee)
    BY <1>1, InputsMade
<1>3. Prevout(i1) \in utxos /\ Prevout(i2) \in utxos /\ Prevout(i3) \in utxos
    BY <1>1, InputKinds DEF add_pset_input
<1>4. IsPset(p, ins, outs, lock)
    BY <1>0 DEF TerminalPset, IsPset
<1>5. TerminalOuts(outs, v, target, y)
    BY <1>v DEF TerminalOuts
<1> HIDE DEF b, i1, i2, i3, i4, outs, amount
<1>7. tx.ins = ins /\ tx.lock = lock /\ tx.outs = BlindOuts(outs, RtPos)
    BY <1>4, TokenBlinds
<1>8. DOMAIN ins = 1..4 /\ Len(ins) = 4 /\ ins[1] = i1 /\ ins[2] = i2 /\ ins[3] = i3 /\ ins[4] = i4
    OBVIOUS
<1> HIDE DEF ins
<1>10. /\ Sums(tx.outs, 0, 0, 1, 1, v + y + FeeAmount)
       /\ Len(tx.outs) \in Nat /\ Len(tx.outs) >= 3 /\ tx.outs[Len(tx.outs)].script = "Fee"
       /\ tx.outs[1] = RtOut("Burn", "YES_RT") /\ tx.outs[2] = RtOut("Burn", "NO_RT")
       /\ tx.outs[3] = CollOut(target, v)
    BY <1>v, <1>5, <1>7, TerminalPays
<1>11. TerminalShape(tx, v, target)
    BY <1>2, <1>7, <1>8, <1>10 DEF TerminalShape
<1>12. Totals(tx.ins, 0, 0, 1, 1, v + fee)
    <2>1. ASSUME NEW a
          PROVE  /\ Valued(i1, a) = (IF "YES_RT" = a THEN 1 ELSE 0)
                 /\ Valued(i2, a) = (IF "NO_RT" = a THEN 1 ELSE 0)
                 /\ Valued(i3, a) = (IF "COLLATERAL" = a THEN v ELSE 0)
                 /\ Valued(i4, a) = (IF "COLLATERAL" = a THEN fee ELSE 0)
        BY <1>2 DEF RtIn, CollIn, WalletIn, Valued
    <2>2. ASSUME NEW a
          PROVE  Total(ins, a) = Valued(i1, a) + Valued(i2, a) + Valued(i3, a) + Valued(i4, a)
        <3>1. /\ Valued(ins[1], a) \in Int /\ Valued(ins[2], a) \in Int
              /\ Valued(ins[3], a) \in Int /\ Valued(ins[4], a) \in Int
            BY <1>0, <1>v, <1>8, <2>1
        <3> QED BY <1>8, <3>1, TotalOfFour
    <2> QED BY <1>0, <1>v, <1>7, <2>1, <2>2 DEF Totals
<1>13. IsFiniteSet(DOMAIN tx.ins)
    BY <1>7, <1>8, FinitePrefix
<1>14. Minted(tx, "YES") = 0 /\ Minted(tx, "NO") = 0
    <2>1. \A j \in 1..4 : j = 1 \/ j = 2 \/ j = 3 \/ j = 4
        OBVIOUS
    <2>2. \A j \in DOMAIN tx.ins : tx.ins[j].issuance = {}
        BY <1>2, <1>7, <1>8, <2>1 DEF RtIn, CollIn, WalletIn
    <2> QED BY <1>13, <2>2, MintedNone
<1>15. Balanced(tx)
    <2> DEFINE c == v + fee
    <2>1. c \in Int /\ 0 + 0 = 0 /\ 1 \in Int /\ 0 \in Nat /\ v + y + FeeAmount = c
        BY <1>0, <1>v
    <2>2. Totals(tx.ins, 0, 0, 1, 1, c) /\ Totals(tx.outs, 0 + 0, 0 + 0, 1, 1, c)
        BY <1>10, <1>12, <2>1 DEF Sums
    <2> HIDE DEF c
    <2> QED BY <1>14, <2>1, <2>2, BalancedIs
<1>16. \A j \in 1..3 : tx.ins[j].script \in MarketSlot /\ Prevout(tx.ins[j]) \in utxos
    <2>1. \A j \in 1..3 : j = 1 \/ j = 2 \/ j = 3
        OBVIOUS
    <2> QED BY <1>2, <1>3, <1>7, <1>8, <2>1 DEF RtIn, CollIn, MarketSlot
<1>17. DOMAIN tx.ins = 1..4 /\ tx.ins[4].script = "Wallet"
    BY <1>2, <1>7, <1>8 DEF WalletIn
<1> QED
    BY <1>v, <1>7, <1>10, <1>11, <1>15, <1>16, <1>17

(* Three witnesses, for the first three inputs. *)
LEMMA ThreeOfSome ==
    ASSUME NEW tx, NEW w1, NEW w2, NEW w3, NEW m \in Nat, m >= 3,
           NEW yes, NEW no, NEW yesRt, NEW noRt, NEW coll,
           Sums(tx.outs, yes, no, yesRt, noRt, coll), Balanced(tx), tx.lock <= height,
           DOMAIN tx.ins = 1..m, \A j \in 4..m : tx.ins[j].script = "Wallet",
           \A j \in 1..3 : tx.ins[j].script \in MarketSlot /\ Prevout(tx.ins[j]) \in utxos,
           main(tx, 0, w1), main(tx, 1, w2), main(tx, 2, w3)
    PROVE  NetworkAccepts(Assembled(tx, <<w1, w2, w3>>))
<1> DEFINE ws == <<w1, w2, w3>>
<1>1. DOMAIN ws = 1..3 /\ ws[1] = w1 /\ ws[2] = w2 /\ ws[3] = w3
    OBVIOUS
<1> HIDE DEF ws
<1>2. \A j \in DOMAIN ws : /\ j \in DOMAIN tx.ins /\ tx.ins[j].script \in MarketSlot
                           /\ Prevout(tx.ins[j]) \in utxos
    BY <1>1
<1>3. \A j \in DOMAIN tx.ins : j \notin DOMAIN ws => tx.ins[j].script = "Wallet"
    <2>1. \A j \in 1..m : j \notin 1..3 => j \in 4..m
        OBVIOUS
    <2> QED BY <1>1, <2>1
<1>4. \A j \in DOMAIN ws : main(tx, j - 1, ws[j])
    <2>1. main(tx, 1 - 1, ws[1]) /\ main(tx, 2 - 1, ws[2]) /\ main(tx, 3 - 1, ws[3])
        <3>1. 1 - 1 = 0 /\ 2 - 1 = 1 /\ 3 - 1 = 2
            OBVIOUS
        <3> QED BY <1>1, <3>1
    <2>2. \A j \in 1..3 : j = 1 \/ j = 2 \/ j = 3
        OBVIOUS
    <2> QED BY <1>1, <2>1, <2>2
<1>5. NetworkAccepts(Assembled(tx, ws))
    BY <1>2, <1>3, <1>4, Accepts
<1> QED
    BY <1>5 DEF ws

(* A resolution with a signature of the oracle lands. *)
LEMMA ResolveLands ==
    ASSUME Inv, state = "Unresolved", NEW sig \in BOOLEAN, NEW y \in Nat,
           NEW fee, fee = FeeAmount + y
    PROVE  NetworkAccepts(assemble_oracle_resolve(classify_covenant_utxos, sig, sig, fee))
<1> DEFINE b == classify_covenant_utxos
           target == IF sig THEN "ResolvedYesCollateral" ELSE "ResolvedNoCollateral"
           p == TerminalPset(b, target, fee, 0)
           tx == TokenBlind(p)
           w1 == [Witness("OracleResolvePrimary", "UnresolvedYesRt")
                     EXCEPT !.outcome_yes = sig, !.sig = sig]
           w2 == Witness("OracleResolveSecondaryNoRt", "UnresolvedNoRt")
           w3 == Witness("OracleResolveSecondaryCollateral", "UnresolvedCollateral")
<1>1. assemble_oracle_resolve(b, sig, sig, fee) = Assembled(tx, <<w1, w2, w3>>)
    BY DEF assemble_oracle_resolve, build_oracle_resolve_pset, TokenBlind
<1>2. target \in MarketSlot
    BY DEF MarketSlot
<1>3. ASSUME NEW v \in Nat, TerminalShape(tx, v, target)
      PROVE  main(tx, 0, w1) /\ main(tx, 1, w2) /\ main(tx, 2, w3)
    BY <1>3, ResolveSpends
<1> HIDE DEF target, w1, w2, w3, tx
<1>4. PICK v \in Nat \ {0} :
              /\ TerminalShape(tx, v, target) /\ tx.lock = 0
              /\ Sums(tx.outs, 0, 0, 1, 1, v + y + FeeAmount)
              /\ Balanced(tx)
              /\ DOMAIN tx.ins = 1..4 /\ tx.ins[4].script = "Wallet"
              /\ \A j \in 1..3 : /\ tx.ins[j].script \in MarketSlot
                                 /\ Prevout(tx.ins[j]) \in utxos
    BY <1>2, TerminalBalances DEF tx
<1>5. main(tx, 0, w1) /\ main(tx, 1, w2) /\ main(tx, 2, w3)
    BY <1>3, <1>4
<1>6. tx.lock <= height
    BY <1>4, MarketAssumption DEF Inv
<1>7. NetworkAccepts(Assembled(tx, <<w1, w2, w3>>))
    <2>1. 4 \in Nat /\ 4 >= 3 /\ DOMAIN tx.ins = 1..4
          /\ \A j \in 4..4 : tx.ins[j].script = "Wallet"
        BY <1>4
    <2>2. PICK o : Sums(tx.outs, 0, 0, 1, 1, o)
        BY <1>4
    <2>3. /\ Balanced(tx)
          /\ \A j \in 1..3 : tx.ins[j].script \in MarketSlot /\ Prevout(tx.ins[j]) \in utxos
        BY <1>4
    <2> QED BY ONLY <1>5, <1>6, <2>1, <2>2, <2>3, ThreeOfSome
<1> QED
    BY <1>1, <1>7

(* A market past its expiry can be finalised. *)
LEMMA ExpireLands ==
    ASSUME Inv, state = "Unresolved", height >= ExpiryTime, NEW y \in Nat,
           NEW fee, fee = FeeAmount + y
    PROVE  NetworkAccepts(assemble_expire_transition(classify_covenant_utxos, fee))
<1> DEFINE b == classify_covenant_utxos
           p == TerminalPset(b, "ExpiredCollateral", fee, ExpiryTime)
           tx == TokenBlind(p)
           w1 == Witness("ExpireTransitionPrimary", "UnresolvedYesRt")
           w2 == Witness("ExpireTransitionSecondaryNoRt", "UnresolvedNoRt")
           w3 == Witness("ExpireTransitionSecondaryCollateral", "UnresolvedCollateral")
<1>1. assemble_expire_transition(b, fee) = Assembled(tx, <<w1, w2, w3>>)
    BY DEF assemble_expire_transition, build_expire_transition_pset, TokenBlind
<1>2. "ExpiredCollateral" \in MarketSlot
    BY DEF MarketSlot
<1>3. ASSUME NEW v \in Nat, TerminalShape(tx, v, "ExpiredCollateral"), tx.lock = ExpiryTime
      PROVE  main(tx, 0, w1) /\ main(tx, 1, w2) /\ main(tx, 2, w3)
    BY <1>3, ExpireSpends
<1> HIDE DEF w1, w2, w3, tx
<1>4. PICK v \in Nat \ {0} :
              /\ TerminalShape(tx, v, "ExpiredCollateral") /\ tx.lock = ExpiryTime
              /\ Sums(tx.outs, 0, 0, 1, 1, v + y + FeeAmount)
              /\ Balanced(tx)
              /\ DOMAIN tx.ins = 1..4 /\ tx.ins[4].script = "Wallet"
              /\ \A j \in 1..3 : /\ tx.ins[j].script \in MarketSlot
                                 /\ Prevout(tx.ins[j]) \in utxos
    BY <1>2, TerminalBalances DEF tx
<1>5. main(tx, 0, w1) /\ main(tx, 1, w2) /\ main(tx, 2, w3)
    BY <1>3, <1>4
<1>6. tx.lock <= height
    BY <1>4, CovenantAssumption, MarketAssumption DEF Inv
<1>7. NetworkAccepts(Assembled(tx, <<w1, w2, w3>>))
    <2>1. 4 \in Nat /\ 4 >= 3 /\ DOMAIN tx.ins = 1..4
          /\ \A j \in 4..4 : tx.ins[j].script = "Wallet"
        BY <1>4
    <2>2. PICK o : Sums(tx.outs, 0, 0, 1, 1, o)
        BY <1>4
    <2>3. /\ Balanced(tx)
          /\ \A j \in 1..3 : tx.ins[j].script \in MarketSlot /\ Prevout(tx.ins[j]) \in utxos
        BY <1>4
    <2> QED BY ONLY <1>5, <1>6, <2>1, <2>2, <2>3, ThreeOfSome
<1> QED
    BY <1>1, <1>7

-----------------------------------------------------------------------------
(* Cancellations. *)

BurnOut(asset, n) == [script |-> "Burn", asset |-> asset, amount |-> n, conf |-> FALSE]

WalletOut(asset, n) == [script |-> "Wallet", asset |-> asset, amount |-> n, conf |-> TRUE]

(* Outputs that are no reissuance tokens, after blinding. *)
LEMMA BlindedPlain ==
    ASSUME NEW k, NEW pos, k \notin pos, NEW a, NEW v
    PROVE  /\ Blinded(burn_txout(a, v), k, pos) = BurnOut(a, v)
           /\ Blinded(explicit_txout(a, v, "Wallet"), k, pos) = WalletOut(a, v)
<1>1. ("Burn" = "Wallet") = FALSE /\ ("Wallet" = "Wallet") = TRUE
    OBVIOUS
<1>2. Blinded(burn_txout(a, v), k, pos) = BurnOut(a, v)
    BY <1>1 DEF Blinded, burn_txout, explicit_txout, BurnOut
<1>3. Blinded(explicit_txout(a, v, "Wallet"), k, pos) = WalletOut(a, v)
    BY <1>1 DEF Blinded, explicit_txout, WalletOut
<1> QED
    BY <1>2, <1>3

(* The values of such outputs. *)
LEMMA PlainValue ==
    \A a, b, v, s : /\ Valued(BurnOut(a, v), b) = (IF a = b THEN v ELSE 0)
                    /\ Valued(WalletOut(a, v), b) = (IF a = b THEN v ELSE 0)
                    /\ Valued(CollOut(s, v), b) = (IF b = "COLLATERAL" THEN v ELSE 0)
                    /\ BurnOut(a, v).amount = v /\ WalletOut(a, v).amount = v
                    /\ CollOut(s, v).amount = v
BY DEF Valued, BurnOut, WalletOut, CollOut

(* The outputs of a partial cancellation. *)
LEMMA PartialPays ==
    ASSUME NEW n \in Nat \ {0}, NEW v \in Nat \ {0}, NEW refund \in Nat \ {0},
           NEW yes \in Nat, NEW no \in Nat, NEW y \in Nat,
           NEW s, PartialOuts(s, n, v, refund, yes, no, y),
           NEW outs, WithFee(outs, s), NEW t, t = BlindOuts(outs, {})
    PROVE  /\ Sums(t, n + yes, n + no, 0, 0, v + refund + y + FeeAmount)
           /\ Len(t) \in Nat /\ Len(t) >= 4 /\ t[Len(t)].script = "Fee"
           /\ t[1] = CollOut("UnresolvedCollateral", v)
           /\ t[2] = BurnOut("YES", n) /\ t[3] = BurnOut("NO", n)
           /\ s \in Seq(OutRec)
<1> DEFINE o1 == explicit_txout("COLLATERAL", v, "UnresolvedCollateral")
           o2 == burn_txout("YES", n)
           o3 == burn_txout("NO", n)
           o4 == explicit_txout("COLLATERAL", refund, "Wallet")
           base == <<o1, o2, o3, o4>>
           pos == {}
           r == BlindOuts(base, pos)
           c == v + refund
<1>1. o1 \in OutRec /\ o2 \in OutRec /\ o3 \in OutRec /\ o4 \in OutRec
    BY DEF OutRec, Script, MarketSlot, Asset, explicit_txout, burn_txout
<1>2. 1 \notin pos /\ 2 \notin pos /\ 3 \notin pos /\ 4 \notin pos /\ \A k \in pos : FALSE
    OBVIOUS
<1>3. /\ Blinded(o1, 1, pos) = CollOut("UnresolvedCollateral", v)
      /\ Blinded(o2, 2, pos) = BurnOut("YES", n) /\ Blinded(o3, 3, pos) = BurnOut("NO", n)
      /\ Blinded(o4, 4, pos) = WalletOut("COLLATERAL", refund)
    BY <1>2, BlindedColl, BlindedPlain
<1>4. /\ s = ((base \o Change("YES", yes)) \o Change("NO", no)) \o Change("COLLATERAL", y)
      /\ outs = s \o <<fee_txout>>
    BY DEF PartialOuts, WithFee
<1>5. t = BlindOuts(outs, pos)
    OBVIOUS
<1> HIDE DEF o1, o2, o3, o4, pos
<1>6. /\ base \in Seq(OutRec) /\ Len(base) = 4 /\ DOMAIN base = 1..4
      /\ base[1] = o1 /\ base[2] = o2 /\ base[3] = o3 /\ base[4] = o4
    BY <1>1
<1> HIDE DEF base
<1>7. /\ DOMAIN r = 1..4
      /\ r[1] = CollOut("UnresolvedCollateral", v) /\ r[2] = BurnOut("YES", n)
      /\ r[3] = BurnOut("NO", n) /\ r[4] = WalletOut("COLLATERAL", refund)
    BY <1>3, <1>6 DEF BlindOuts
<1>8. \A k \in 1..4 : k = 1 \/ k = 2 \/ k = 3 \/ k = 4
    OBVIOUS
<1>c. c \in Nat /\ v > 0 /\ n > 0 /\ refund > 0 /\ FeeAmount \in Nat /\ n \in Nat /\ v \in Int /\ refund \in Int
    BY FeeAssumption
<1> HIDE DEF r
<1>9. ComesTo(base, base, pos, n, n, 0, 0, c)
    <2>1. \A k \in 1..Len(base) : r[k].amount > 0
        BY <1>c, <1>6, <1>7, <1>8, PlainValue
    <2>2. \A k \in pos : k \in 1..Len(base)
        BY <1>2
    <2>3. ASSUME NEW a
          PROVE  /\ Valued(r[1], a) = (IF a = "COLLATERAL" THEN v ELSE 0)
                 /\ Valued(r[2], a) = (IF "YES" = a THEN n ELSE 0)
                 /\ Valued(r[3], a) = (IF "NO" = a THEN n ELSE 0)
                 /\ Valued(r[4], a) = (IF "COLLATERAL" = a THEN refund ELSE 0)
        BY <1>7, PlainValue
    <2>4. ASSUME NEW a
          PROVE  Total(r, a) = Valued(r[1], a) + Valued(r[2], a) + Valued(r[3], a) + Valued(r[4], a)
        <3>1. /\ Valued(r[1], a) \in Int /\ Valued(r[2], a) \in Int
              /\ Valued(r[3], a) \in Int /\ Valued(r[4], a) \in Int
            BY <1>c, <2>3
        <3> QED BY <1>7, <3>1, TotalOfFour
    <2>5. Totals(r, n, n, 0, 0, c)
        BY <1>c, <2>3, <2>4 DEF Totals
    <2> QED BY <1>6, <2>1, <2>2, <2>5, BaseComesTo DEF r
<1> DEFINE d == c + y
           e == d + FeeAmount
           ny == n + yes
           nn == n + no
<1>10. ComesTo(s, base, pos, ny, nn, 0, 0, d)
    <2> DEFINE s1 == base \o Change("YES", yes)
               s2 == s1 \o Change("NO", no)
    <2>1. ny \in Nat /\ nn \in Nat
        BY <1>c
    <2>2. ComesTo(s1, base, pos, ny, n, 0, 0, c)
        BY <1>c, <1>9, ComesToChange
    <2> HIDE DEF s1, c
    <2>3. ComesTo(s2, base, pos, ny, nn, 0, 0, c)
        <3> HIDE DEF ny
        <3> QED BY <1>c, <2>1, <2>2, ComesToChange
    <2> HIDE DEF s2, ny, nn
    <2>4. ComesTo(s2 \o Change("COLLATERAL", y), base, pos, ny, nn, 0, 0, d)
        BY <1>c, <2>1, <2>3, ComesToChange
    <2> QED BY <1>4, <2>4 DEF s2, s1
<1>11. d \in Nat /\ ny \in Nat /\ nn \in Nat
    BY <1>c
<1> HIDE DEF d, ny, nn
<1>12. ComesTo(s \o <<fee_txout>>, base, pos, ny, nn, 0, 0, e)
    BY <1>10, <1>11, ComesToChange
<1> HIDE DEF e
<1>13. ComesTo(outs, base, pos, ny, nn, 0, 0, e)
    BY <1>4, <1>12
<1>14. /\ Sums(t, ny, nn, 0, 0, e)
       /\ Len(t) = Len(outs)
       /\ \A k \in 1..Len(base) : k \in 1..Len(t) /\ t[k] = Blinded(base[k], k, pos)
       /\ \A k \in 1..Len(outs) : t[k].script = outs[k].script
    BY ONLY <1>5, <1>13, BlindedOutputs
<1>15. s \in Seq(OutRec)
    BY <1>10 DEF ComesTo
<1>16. t[Len(t)].script = "Fee" /\ Len(t) \in Nat
    <2>1. outs = s \o <<fee_txout>>
        BY <1>4
    <2>2. Len(t) = Len(outs) /\ \A k \in 1..Len(outs) : t[k].script = outs[k].script
        BY <1>14
    <2> QED BY ONLY <1>15, <2>1, <2>2, FeeAtEnd
<1>17. /\ 4 \in 1..Len(t) /\ t[1] = Blinded(o1, 1, pos) /\ t[2] = Blinded(o2, 2, pos)
       /\ t[3] = Blinded(o3, 3, pos)
    BY <1>6, <1>14
<1>18. Sums(t, n + yes, n + no, 0, 0, v + refund + y + FeeAmount)
    BY <1>14 DEF c, d, e, ny, nn
<1>19. Len(t) >= 4
    BY <1>16, <1>17
<1> QED
    BY <1>3, <1>15, <1>16, <1>17, <1>18, <1>19

(* A partial cancellation: the covenant's answer. *)
LEMMA PartialSpends ==
    ASSUME NEW tx, NEW n \in Nat \ {0}, NEW v \in Nat \ {0}, Fits(required_collateral(n)), Fits(v),
           Len(tx.ins) = 4,
           CollIn(tx.ins[1], "UnresolvedCollateral", v + required_collateral(n)),
           Len(tx.outs) \in Nat, Len(tx.outs) >= 4, tx.outs[Len(tx.outs)].script = "Fee",
           tx.outs[1] = CollOut("UnresolvedCollateral", v),
           tx.outs[2] = BurnOut("YES", n), tx.outs[3] = BurnOut("NO", n)
    PROVE  main(tx, 0, [Witness("CancellationPartial", "UnresolvedCollateral")
                           EXCEPT !.pairs_burned = n])
<1> DEFINE w == [Witness("CancellationPartial", "UnresolvedCollateral") EXCEPT !.pairs_burned = n]
           refund == required_collateral(n)
<1>1. w.path = "CancellationPartial" /\ w.slot = "UnresolvedCollateral" /\ w.pairs_burned = n
    BY DEF Witness
<1>2. CollateralFits(n) /\ collateral_for_pairs(n) = refund /\ refund \in Nat
    BY CovenantPrice
<1>3. /\ input(tx, 0) = tx.ins[1] /\ output(tx, 0) = tx.outs[1] /\ output(tx, 1) = tx.outs[2]
      /\ output(tx, 2) = tx.outs[3]
    BY DEF input, output
<1>4. output(tx, Len(tx.outs) - 1) = tx.outs[Len(tx.outs)]
    <2>1. (Len(tx.outs) - 1) + 1 = Len(tx.outs)
        OBVIOUS
    <2> QED BY <2>1 DEF output
<1>5. /\ tx.outs[1].script = "UnresolvedCollateral" /\ ~tx.outs[1].conf
      /\ tx.outs[1].asset = "COLLATERAL" /\ tx.outs[1].amount = v
      /\ tx.outs[2].script = "Burn" /\ ~tx.outs[2].conf /\ tx.outs[2].asset = "YES" /\ tx.outs[2].amount = n
      /\ tx.outs[3].script = "Burn" /\ ~tx.outs[3].conf /\ tx.outs[3].asset = "NO" /\ tx.outs[3].amount = n
    BY DEF CollOut, BurnOut
<1>6. /\ tx.ins[1].script = "UnresolvedCollateral" /\ tx.ins[1].issuance = {} /\ ~tx.ins[1].conf
      /\ tx.ins[1].asset = "COLLATERAL" /\ tx.ins[1].amount - refund = v
    BY <1>2 DEF CollIn
<1> HIDE DEF w, refund
<1>7. /\ ensure_no_issuance(tx, 0) /\ ensure_input_explicit(tx, 0, "COLLATERAL")
      /\ ensure_input_script(tx, 0, "UnresolvedCollateral")
    BY <1>3, <1>6 DEF ensure_no_issuance, ensure_input_explicit, ensure_input_script
<1>8. /\ ensure_output_asset_with_amount(tx, 0, "COLLATERAL", v)
      /\ ensure_output_script(tx, 0, "UnresolvedCollateral")
      /\ ensure_burn_output(tx, 1, "YES", n) /\ ensure_burn_output(tx, 2, "NO", n)
    BY <1>3, <1>5 DEF ensure_output_asset_with_amount, ensure_output_script, ensure_burn_output,
       num_outputs
<1>9. ensure_fee_output_at_end(tx)
    BY <1>4 DEF ensure_fee_output_at_end, ensure_fee_output, ensure_output_script, num_outputs
<1>10. input(tx, 0).amount - collateral_for_pairs(w.pairs_burned) = v
    BY <1>1, <1>2, <1>3, <1>6
<1>11. cancellation_partial_path(tx, 0, w)
    BY <1>1, <1>2, <1>7, <1>8, <1>9, <1>10 DEF cancellation_partial_path
<1>12. main(tx, 0, w)
    BY <1>1, <1>7, <1>11 DEF main
<1> QED
    BY <1>12 DEF w

(* One witness, for the first input. *)
LEMMA OneOfSome ==
    ASSUME NEW tx, NEW w, NEW m \in Nat, m >= 1, NEW yes, NEW no, NEW yesRt, NEW noRt, NEW coll,
           Sums(tx.outs, yes, no, yesRt, noRt, coll), Balanced(tx), tx.lock <= height,
           DOMAIN tx.ins = 1..m, \A j \in 2..m : tx.ins[j].script = "Wallet",
           tx.ins[1].script \in MarketSlot, Prevout(tx.ins[1]) \in utxos, main(tx, 0, w)
    PROVE  NetworkAccepts(Assembled(tx, <<w>>))
<1> DEFINE ws == <<w>>
<1>1. DOMAIN ws = {1} /\ ws[1] = w
    OBVIOUS
<1> HIDE DEF ws
<1>2. \A j \in DOMAIN ws : /\ j \in DOMAIN tx.ins /\ tx.ins[j].script \in MarketSlot
                           /\ Prevout(tx.ins[j]) \in utxos
    BY <1>1
<1>3. \A j \in DOMAIN tx.ins : j \notin DOMAIN ws => tx.ins[j].script = "Wallet"
    <2>1. \A j \in 1..m : j \notin {1} => j \in 2..m
        OBVIOUS
    <2> QED BY <1>1, <2>1
<1>4. \A j \in DOMAIN ws : main(tx, j - 1, ws[j])
    <2>1. 1 - 1 = 0
        OBVIOUS
    <2> QED BY <1>1, <2>1
<1>5. NetworkAccepts(Assembled(tx, ws))
    BY <1>2, <1>3, <1>4, Accepts
<1> QED
    BY <1>5 DEF ws

(* A partial cancellation lands. *)
LEMMA PartialLands ==
    ASSUME Inv, state = "Unresolved", NEW n \in Nat \ {0},
           classify_covenant_utxos.coll.amount > required_collateral(n),
           NEW yesTotal \in Nat, yesTotal >= n, NEW noTotal \in Nat, noTotal >= n,
           NEW y \in Nat, NEW fee, fee = FeeAmount + y
    PROVE  NetworkAccepts(assemble_cancellation(classify_covenant_utxos, n, yesTotal, noTotal, fee))
<1> DEFINE b == classify_covenant_utxos
           refund == required_collateral(n)
           left == b.coll.amount - refund
           cy == yesTotal - n
           cn == noTotal - n
           i1 == add_pset_input(b.coll)
           i2 == add_pset_input(WalletUtxo("YES", yesTotal))
           i3 == add_pset_input(WalletUtxo("NO", noTotal))
           i4 == add_pset_input(WalletUtxo("COLLATERAL", fee))
           ins == <<i1, i2, i3, i4>>
           s == << explicit_txout("COLLATERAL", left, "UnresolvedCollateral"),
                   burn_txout("YES", n), burn_txout("NO", n),
                   explicit_txout("COLLATERAL", refund, "Wallet") >>
                \o Change("YES", cy) \o Change("NO", cn) \o Change("COLLATERAL", y)
           outs == s \o <<fee_txout>>
           p == build_cancellation_pset(b, n, yesTotal, noTotal, fee)
           q == ensure_fee_output_last(p)
           tx == PlainBlind(q)
           w == [Witness("CancellationPartial", "UnresolvedCollateral") EXCEPT !.pairs_burned = n]
<1>1. PICK yes, no, k \in Ids(txs), v \in 1..U64Max :
          /\ b.yes = Rt(yes, "UnresolvedYesRt", "YES_RT")
          /\ b.no = Rt(no, "UnresolvedNoRt", "NO_RT")
          /\ b.coll = Coll(k, "UnresolvedCollateral", v)
          /\ b.yes \in utxos /\ b.no \in utxos /\ b.coll \in utxos
    BY BundleIs DEF Inv
<1>v. v \in Nat \ {0} /\ b.coll.amount = v /\ v <= U64Max /\ U64Max \in Nat
    BY <1>1, CovenantAssumption DEF Coll
<1>r. refund \in Nat \ {0}
    BY CovenantPrice
<1>0. /\ FeeAmount \in Nat /\ fee \in Nat /\ fee - FeeAmount = y /\ height \in Nat
      /\ left \in Nat \ {0} /\ v = left + refund /\ cy \in Nat /\ cn \in Nat
      /\ Fits(left) /\ Fits(refund) /\ v # refund
    BY <1>v, <1>r, FeeAssumption, MarketAssumption DEF Inv, Fits
<1>2. /\ CollIn(i1, "UnresolvedCollateral", v) /\ WalletIn(i2, "YES", yesTotal)
      /\ WalletIn(i3, "NO", noTotal) /\ WalletIn(i4, "COLLATERAL", fee)
    BY <1>1, InputsMade
<1>3. Prevout(i1) \in utxos
    BY <1>1, InputKinds DEF add_pset_input
<1>4. IsPset(p, ins, outs, 0)
    <2>1. left > 0
        BY <1>0
    <2> QED BY <1>0, <2>1 DEF build_cancellation_pset, IsPset
<1>5. PartialOuts(s, n, left, refund, cy, cn, y) /\ WithFee(outs, s)
    BY DEF PartialOuts, WithFee
<1>6. assemble_cancellation(b, n, yesTotal, noTotal, fee) = Assembled(tx, <<w>>)
    BY <1>v, <1>0 DEF assemble_cancellation, PlainBlind
<1>c. yesTotal = n + cy /\ noTotal = n + cn
    BY <1>0
<1>w. outs = s \o <<fee_txout>>
    OBVIOUS
<1> HIDE DEF b, i1, i2, i3, i4, s, outs, p, left, cy, cn
<1>q. s \in Seq(OutRec) /\ Len(s) \in Nat
    <2>1. s \in Seq(OutRec)
        BY <1>0, <1>r, <1>5, PartialPays
    <2> QED BY <2>1
<1>p. q = p
    BY <1>4, <1>q, <1>w, FeeIsLast
<1> HIDE DEF q
<1>7. tx.ins = ins /\ tx.lock = 0 /\ tx.outs = BlindOuts(outs, {})
    BY <1>4, <1>p, PlainBlinds
<1>8. DOMAIN ins = 1..4 /\ Len(ins) = 4 /\ ins[1] = i1 /\ ins[2] = i2 /\ ins[3] = i3 /\ ins[4] = i4
    OBVIOUS
<1> HIDE DEF ins, tx
<1>10. /\ Sums(tx.outs, n + cy, n + cn, 0, 0, left + refund + y + FeeAmount)
       /\ Len(tx.outs) \in Nat /\ Len(tx.outs) >= 4 /\ tx.outs[Len(tx.outs)].script = "Fee"
       /\ tx.outs[1] = CollOut("UnresolvedCollateral", left)
       /\ tx.outs[2] = BurnOut("YES", n) /\ tx.outs[3] = BurnOut("NO", n)
    <2> HIDE DEF refund
    <2>1. left \in Nat \ {0} /\ cy \in Nat /\ cn \in Nat /\ y \in Nat /\ n \in Nat \ {0}
        BY <1>0
    <2>2. tx.outs = BlindOuts(outs, {})
        BY <1>7
    <2>3. PartialOuts(s, n, left, refund, cy, cn, y) /\ WithFee(outs, s) /\ refund \in Nat \ {0}
        BY <1>5, <1>r
    <2> QED BY ONLY <2>1, <2>2, <2>3, PartialPays
<1>11. main(tx, 0, w)
    BY <1>0, <1>2, <1>7, <1>8, <1>10, PartialSpends
<1> HIDE DEF w, refund
<1>12. Totals(tx.ins, yesTotal, noTotal, 0, 0, v + fee)
    <2>1. ASSUME NEW a
          PROVE  /\ Valued(i1, a) = (IF "COLLATERAL" = a THEN v ELSE 0)
                 /\ Valued(i2, a) = (IF "YES" = a THEN yesTotal ELSE 0)
                 /\ Valued(i3, a) = (IF "NO" = a THEN noTotal ELSE 0)
                 /\ Valued(i4, a) = (IF "COLLATERAL" = a THEN fee ELSE 0)
        BY <1>2 DEF CollIn, WalletIn, Valued
    <2>2. ASSUME NEW a
          PROVE  Total(ins, a) = Valued(i1, a) + Valued(i2, a) + Valued(i3, a) + Valued(i4, a)
        <3>1. /\ Valued(ins[1], a) \in Int /\ Valued(ins[2], a) \in Int
              /\ Valued(ins[3], a) \in Int /\ Valued(ins[4], a) \in Int
            BY <1>0, <1>v, <1>8, <2>1
        <3> QED BY <1>8, <3>1, TotalOfFour
    <2> QED BY <1>0, <1>v, <1>7, <2>1, <2>2 DEF Totals
<1>13. IsFiniteSet(DOMAIN tx.ins)
    BY <1>7, <1>8, FinitePrefix
<1>m. \A j \in 1..4 : j = 1 \/ j = 2 \/ j = 3 \/ j = 4
    OBVIOUS
<1>14. Minted(tx, "YES") = 0 /\ Minted(tx, "NO") = 0
    <2>2. \A j \in DOMAIN tx.ins : tx.ins[j].issuance = {}
        BY <1>2, <1>7, <1>8, <1>m DEF CollIn, WalletIn
    <2> QED BY <1>13, <2>2, MintedNone
<1>15. Balanced(tx)
    <2> DEFINE c == v + fee
    <2>1. /\ c \in Int /\ 0 \in Int /\ 0 \in Nat /\ left + refund + y + FeeAmount = c
          /\ n + cy = yesTotal + 0 /\ n + cn = noTotal + 0
        BY <1>0, <1>v, <1>r, <1>c DEF refund
    <2>2. Totals(tx.ins, yesTotal, noTotal, 0, 0, c)
          /\ Totals(tx.outs, yesTotal + 0, noTotal + 0, 0, 0, c)
        BY <1>10, <1>12, <2>1 DEF Sums
    <2> HIDE DEF c
    <2> QED BY <1>14, <2>1, <2>2, BalancedIs
<1>16. /\ DOMAIN tx.ins = 1..4 /\ tx.ins[1].script \in MarketSlot /\ Prevout(tx.ins[1]) \in utxos
       /\ \A j \in 2..4 : tx.ins[j].script = "Wallet"
    <2>1. \A j \in 2..4 : j = 2 \/ j = 3 \/ j = 4
        OBVIOUS
    <2> QED BY <1>2, <1>3, <1>7, <1>8, <2>1 DEF CollIn, WalletIn, MarketSlot
<1>18. tx.lock <= height
    BY <1>0, <1>7
<1>19. NetworkAccepts(Assembled(tx, <<w>>))
    <2>1. 4 \in Nat /\ 4 >= 1
        OBVIOUS
    <2>2. PICK o1, o2, o3 : Sums(tx.outs, o1, o2, 0, 0, o3)
        BY <1>10
    <2> QED BY ONLY <1>11, <1>15, <1>16, <1>18, <2>1, <2>2, OneOfSome
<1> QED
    BY <1>6, <1>19 DEF b

(* A wallet holds no more than there is. *)
LEMMA Holdings ==
    ASSUME Inv, NEW c \in Clients, NEW asset \in Tokens
    PROVE  /\ holdings[c][asset] \in Nat /\ Supply(asset) \in Nat
           /\ holdings[c][asset] <= Supply(asset)
<1>1. holdings \in [Clients -> [Tokens -> Nat]] /\ Supply(asset) = SupplyOf(holdings, asset)
    BY SupplyIs DEF Inv
<1>2. SupplyOf(holdings, asset) \in Nat /\ holdings[c][asset] <= SupplyOf(holdings, asset)
    BY <1>1, HoldsNoMore
<1> QED
    BY <1>1, <1>2

(* The collateral a scan finds is the collateral of the lifecycle. *)
LEMMA CollateralSeen ==
    ASSUME NEW k \in Ids(txs), NEW s, NEW v, classify_covenant_utxos.coll = Coll(k, s, v)
    PROVE  Collateral = v
<1>1. UtxoOf("COLLATERAL") = Coll(k, s, v)
    BY DEF classify_covenant_utxos
<1>2. Coll(k, s, v) # NoUtxo
    <2> SUFFICES ASSUME Coll(k, s, v) = NoUtxo PROVE FALSE
        OBVIOUS
    <2>1. k = <<>>
        BY DEF Coll, NoUtxo
    <2> QED BY <2>1 DEF Ids
<1>3. Coll(k, s, v).amount = v
    BY DEF Coll
<1> QED
    BY <1>1, <1>2, <1>3 DEF Collateral

(* All the collateral backs all the pairs: whoever can cancel them all     *)
(* holds all the tokens, and has none left over.                           *)
LEMMA HoldsAll ==
    ASSUME Inv, state = "Unresolved", NEW n \in Nat, Collateral = required_collateral(n),
           NEW c \in Clients, NEW asset \in Tokens, NEW total \in n..holdings[c][asset]
    PROVE  total = n
<1>1. Collateral = Lifecycle!CollateralForPairs(Supply("YES")) /\ Supply("YES") = Supply("NO")
    BY DEF Inv, LP!Inv, LP!FullyBacked, LP!Claims, LP!TokensPaired,
           LP!CollateralForPairs, Lifecycle!CollateralForPairs
<1>2. /\ holdings[c][asset] \in Nat /\ Supply(asset) \in Nat
      /\ holdings[c][asset] <= Supply(asset)
    BY Holdings
<1>3. Supply(asset) = Supply("YES")
    BY <1>1 DEF Tokens
<1>4. Lifecycle!CollateralForPairs(n) = Lifecycle!CollateralForPairs(Supply("YES"))
    BY <1>1, PairPrice
<1>5. n = Supply("YES")
    BY <1>2, <1>3, <1>4, PriceInjective
<1> QED
    BY <1>2, <1>3, <1>5

(* The outputs of a full cancellation. *)
LEMMA FullPays ==
    ASSUME NEW n \in Nat \ {0}, NEW refund \in Nat \ {0}, NEW y \in Nat,
           NEW s, FullOuts(s, n, refund, y),
           NEW outs, WithFee(outs, s), NEW t, t = BlindOuts(outs, RtPos)
    PROVE  /\ Sums(t, n, n, 1, 1, refund + y + FeeAmount)
           /\ Len(t) \in Nat /\ Len(t) >= 5 /\ t[Len(t)].script = "Fee"
           /\ t[1] = RtOut("DormantYesRt", "YES_RT") /\ t[2] = RtOut("DormantNoRt", "NO_RT")
           /\ t[3] = BurnOut("YES", n) /\ t[4] = BurnOut("NO", n)
           /\ s \in Seq(OutRec)
<1> DEFINE o1 == reissuance_token_output("DormantYesRt")
           o2 == reissuance_token_output("DormantNoRt")
           o3 == burn_txout("YES", n)
           o4 == burn_txout("NO", n)
           o5 == explicit_txout("COLLATERAL", refund, "Wallet")
           base == <<o1, o2, o3, o4, o5>>
           pos == RtPos
           r == BlindOuts(base, pos)
<1>1. o1 \in OutRec /\ o2 \in OutRec /\ o3 \in OutRec /\ o4 \in OutRec /\ o5 \in OutRec
    BY DEF OutRec, Script, MarketSlot, Asset, explicit_txout, burn_txout, reissuance_token_output
<1>2. 3 \notin pos /\ 4 \notin pos /\ 5 \notin pos /\ \A k \in pos : k = 1 \/ k = 2
    BY DEF RtPos
<1>b. /\ Blinded(o1, 1, pos) = RtOut("DormantYesRt", "YES_RT")
      /\ Blinded(o2, 2, pos) = RtOut("DormantNoRt", "NO_RT")
    BY BlindedIs DEF RtPos
<1>3. /\ Blinded(o3, 3, pos) = BurnOut("YES", n) /\ Blinded(o4, 4, pos) = BurnOut("NO", n)
      /\ Blinded(o5, 5, pos) = WalletOut("COLLATERAL", refund)
    BY <1>2, BlindedPlain
<1>4. s = base \o Change("COLLATERAL", y) /\ outs = s \o <<fee_txout>>
    BY DEF FullOuts, WithFee
<1>5. t = BlindOuts(outs, pos)
    OBVIOUS
<1> HIDE DEF o1, o2, o3, o4, o5, pos
<1>6. /\ base \in Seq(OutRec) /\ Len(base) = 5 /\ DOMAIN base = 1..5
      /\ base[1] = o1 /\ base[2] = o2 /\ base[3] = o3 /\ base[4] = o4 /\ base[5] = o5
    BY <1>1
<1> HIDE DEF base
<1>7. /\ DOMAIN r = 1..5
      /\ r[1] = RtOut("DormantYesRt", "YES_RT") /\ r[2] = RtOut("DormantNoRt", "NO_RT")
      /\ r[3] = BurnOut("YES", n) /\ r[4] = BurnOut("NO", n)
      /\ r[5] = WalletOut("COLLATERAL", refund)
    BY <1>b, <1>3, <1>6 DEF BlindOuts
<1>8. \A k \in 1..5 : k = 1 \/ k = 2 \/ k = 3 \/ k = 4 \/ k = 5
    OBVIOUS
<1>c. n > 0 /\ refund > 0 /\ FeeAmount \in Nat /\ n \in Nat /\ refund \in Nat
    BY FeeAssumption
<1> HIDE DEF r
<1>9. ComesTo(base, base, pos, n, n, 1, 1, refund)
    <2>1. \A k \in 1..Len(base) : r[k].amount > 0
        BY <1>c, <1>6, <1>7, <1>8, PlainValue, BlindedValue
    <2>2. \A k \in pos : k \in 1..Len(base)
        BY <1>2, <1>6
    <2>3. ASSUME NEW a
          PROVE  /\ Valued(r[1], a) = (IF a = "YES_RT" THEN 1 ELSE 0)
                 /\ Valued(r[2], a) = (IF a = "NO_RT" THEN 1 ELSE 0)
                 /\ Valued(r[3], a) = (IF "YES" = a THEN n ELSE 0)
                 /\ Valued(r[4], a) = (IF "NO" = a THEN n ELSE 0)
                 /\ Valued(r[5], a) = (IF "COLLATERAL" = a THEN refund ELSE 0)
        BY <1>7, PlainValue, BlindedValue
    <2>4. ASSUME NEW a
          PROVE  Total(r, a) = Valued(r[1], a) + Valued(r[2], a) + Valued(r[3], a) + Valued(r[4], a)
                               + Valued(r[5], a)
        <3>1. /\ Valued(r[1], a) \in Int /\ Valued(r[2], a) \in Int
              /\ Valued(r[3], a) \in Int /\ Valued(r[4], a) \in Int /\ Valued(r[5], a) \in Int
            BY <1>c, <2>3
        <3> QED BY <1>7, <3>1, TotalOfFive
    <2>5. Totals(r, n, n, 1, 1, refund)
        BY <1>c, <2>3, <2>4 DEF Totals
    <2> QED BY <1>6, <2>1, <2>2, <2>5, BaseComesTo DEF r
<1> DEFINE d == refund + y
           e == d + FeeAmount
<1>10. ComesTo(s, base, pos, n, n, 1, 1, d)
    BY <1>c, <1>4, <1>9, ComesToChange
<1>11. d \in Nat
    BY <1>c
<1> HIDE DEF d
<1>12. ComesTo(s \o <<fee_txout>>, base, pos, n, n, 1, 1, e)
    BY <1>c, <1>10, <1>11, ComesToChange
<1> HIDE DEF e
<1>13. ComesTo(outs, base, pos, n, n, 1, 1, e)
    BY <1>4, <1>12
<1>14. /\ Sums(t, n, n, 1, 1, e)
       /\ Len(t) = Len(outs)
       /\ \A k \in 1..Len(base) : k \in 1..Len(t) /\ t[k] = Blinded(base[k], k, pos)
       /\ \A k \in 1..Len(outs) : t[k].script = outs[k].script
    BY ONLY <1>5, <1>13, BlindedOutputs
<1>15. s \in Seq(OutRec)
    BY <1>10 DEF ComesTo
<1>16. t[Len(t)].script = "Fee" /\ Len(t) \in Nat
    <2>1. outs = s \o <<fee_txout>>
        BY <1>4
    <2>2. Len(t) = Len(outs) /\ \A k \in 1..Len(outs) : t[k].script = outs[k].script
        BY <1>14
    <2> QED BY ONLY <1>15, <2>1, <2>2, FeeAtEnd
<1>17. /\ 5 \in 1..Len(t) /\ t[1] = Blinded(o1, 1, pos) /\ t[2] = Blinded(o2, 2, pos)
       /\ t[3] = Blinded(o3, 3, pos) /\ t[4] = Blinded(o4, 4, pos)
    BY <1>6, <1>14
<1> QED
    BY <1>b, <1>3, <1>14, <1>15, <1>16, <1>17 DEF d, e

(* A full cancellation: the covenant's answer. *)
LEMMA FullSpends ==
    ASSUME NEW tx, NEW n \in Nat \ {0}, Fits(required_collateral(n)),
           Len(tx.ins) = 6,
           CollIn(tx.ins[1], "UnresolvedCollateral", required_collateral(n)),
           RtIn(tx.ins[2], "UnresolvedYesRt", "YES_RT", {}),
           RtIn(tx.ins[3], "UnresolvedNoRt", "NO_RT", {}),
           Len(tx.outs) \in Nat, Len(tx.outs) >= 5, tx.outs[Len(tx.outs)].script = "Fee",
           tx.outs[1] = RtOut("DormantYesRt", "YES_RT"), tx.outs[2] = RtOut("DormantNoRt", "NO_RT"),
           tx.outs[3] = BurnOut("YES", n), tx.outs[4] = BurnOut("NO", n)
    PROVE  /\ main(tx, 0, [Witness("CancellationFullPrimary", "UnresolvedCollateral")
                              EXCEPT !.pairs_burned = n])
           /\ main(tx, 1, Witness("CancellationFullSecondaryYesRt", "UnresolvedYesRt"))
           /\ main(tx, 2, Witness("CancellationFullSecondaryNoRt", "UnresolvedNoRt"))
<1> DEFINE w1 == [Witness("CancellationFullPrimary", "UnresolvedCollateral") EXCEPT !.pairs_burned = n]
           w2 == Witness("CancellationFullSecondaryYesRt", "UnresolvedYesRt")
           w3 == Witness("CancellationFullSecondaryNoRt", "UnresolvedNoRt")
           refund == required_collateral(n)
<1>1. /\ w1.path = "CancellationFullPrimary" /\ w1.slot = "UnresolvedCollateral"
      /\ w1.pairs_burned = n
      /\ w2.path = "CancellationFullSecondaryYesRt" /\ w2.slot = "UnresolvedYesRt"
      /\ w3.path = "CancellationFullSecondaryNoRt" /\ w3.slot = "UnresolvedNoRt"
    BY DEF Witness
<1>2. CollateralFits(n) /\ collateral_for_pairs(n) = refund
    BY CovenantPrice
<1>3. /\ input(tx, 0) = tx.ins[1] /\ input(tx, 1) = tx.ins[2] /\ input(tx, 2) = tx.ins[3]
      /\ output(tx, 0) = tx.outs[1] /\ output(tx, 1) = tx.outs[2]
      /\ output(tx, 2) = tx.outs[3] /\ output(tx, 3) = tx.outs[4]
    BY DEF input, output
<1>4. output(tx, Len(tx.outs) - 1) = tx.outs[Len(tx.outs)]
    <2>1. (Len(tx.outs) - 1) + 1 = Len(tx.outs)
        OBVIOUS
    <2> QED BY <2>1 DEF output
<1>5. /\ tx.outs[1].script = "DormantYesRt" /\ tx.outs[2].script = "DormantNoRt"
      /\ verify_token_commitment(tx.outs[1], "YES_RT")
      /\ verify_token_commitment(tx.outs[2], "NO_RT")
      /\ tx.outs[3].script = "Burn" /\ ~tx.outs[3].conf /\ tx.outs[3].asset = "YES" /\ tx.outs[3].amount = n
      /\ tx.outs[4].script = "Burn" /\ ~tx.outs[4].conf /\ tx.outs[4].asset = "NO" /\ tx.outs[4].amount = n
    BY DEF RtOut, BurnOut, verify_token_commitment
<1>6. /\ tx.ins[1].script = "UnresolvedCollateral" /\ tx.ins[1].issuance = {} /\ ~tx.ins[1].conf
      /\ tx.ins[1].asset = "COLLATERAL" /\ tx.ins[1].amount = refund
      /\ tx.ins[2].script = "UnresolvedYesRt" /\ tx.ins[3].script = "UnresolvedNoRt"
      /\ verify_token_commitment(tx.ins[2], "YES_RT")
      /\ verify_token_commitment(tx.ins[3], "NO_RT")
      /\ tx.ins[2].issuance = {} /\ tx.ins[3].issuance = {}
    BY DEF CollIn, RtIn, verify_token_commitment
<1> HIDE DEF w1, w2, w3, refund
<1>7. /\ ensure_no_issuance(tx, 0) /\ ensure_no_issuance(tx, 1) /\ ensure_no_issuance(tx, 2)
      /\ ensure_input_explicit(tx, 0, "COLLATERAL")
      /\ ensure_input_script(tx, 0, "UnresolvedCollateral")
      /\ ensure_input_script(tx, 1, "UnresolvedYesRt")
      /\ ensure_input_script(tx, 2, "UnresolvedNoRt")
      /\ verify_input_reissuance_token(tx, 1, "YES_RT")
      /\ verify_input_reissuance_token(tx, 2, "NO_RT")
    BY <1>3, <1>6 DEF ensure_no_issuance, ensure_input_explicit, ensure_input_script,
       verify_input_reissuance_token
<1>8. /\ verify_output_reissuance_token(tx, 0, "YES_RT", "DormantYesRt")
      /\ verify_output_reissuance_token(tx, 1, "NO_RT", "DormantNoRt")
      /\ ensure_burn_output(tx, 2, "YES", n) /\ ensure_burn_output(tx, 3, "NO", n)
    BY <1>3, <1>5 DEF ensure_output_asset_with_amount, ensure_output_script, ensure_burn_output,
       verify_output_reissuance_token, num_outputs
<1>9. ensure_fee_output_at_end(tx)
    BY <1>4 DEF ensure_fee_output_at_end, ensure_fee_output, ensure_output_script, num_outputs
<1>10. input(tx, 0).amount = collateral_for_pairs(w1.pairs_burned) /\ CollateralFits(w1.pairs_burned)
    BY <1>1, <1>2, <1>3, <1>6
<1>11. cancellation_full_primary_path(tx, 0, w1)
    BY <1>1, <1>7, <1>8, <1>9, <1>10 DEF cancellation_full_primary_path
<1>12. cancellation_full_secondary_yes_rt_path(tx, 1, w2)
    BY <1>1, <1>7, <1>8 DEF cancellation_full_secondary_yes_rt_path, ensure_primary_slot
<1>13. cancellation_full_secondary_no_rt_path(tx, 2, w3)
    BY <1>1, <1>7, <1>8 DEF cancellation_full_secondary_no_rt_path, ensure_primary_slot
<1>14. main(tx, 0, w1)
    BY <1>1, <1>7, <1>11 DEF main
<1>15. main(tx, 1, w2)
    BY <1>1, <1>7, <1>12 DEF main
<1>16. main(tx, 2, w3)
    BY <1>1, <1>7, <1>13 DEF main
<1> QED
    BY <1>14, <1>15, <1>16 DEF w1, w2, w3

(* A full cancellation lands. *)
LEMMA FullLands ==
    ASSUME Inv, state = "Unresolved", NEW n \in Nat \ {0},
           classify_covenant_utxos.coll.amount = required_collateral(n),
           NEW y \in Nat, NEW fee, fee = FeeAmount + y
    PROVE  NetworkAccepts(assemble_cancellation(classify_covenant_utxos, n, n, n, fee))
<1> DEFINE b == classify_covenant_utxos
           refund == required_collateral(n)
           i1 == add_pset_input(b.coll)
           i2 == add_pset_input(b.yes)
           i3 == add_pset_input(b.no)
           i4 == add_pset_input(WalletUtxo("YES", n))
           i5 == add_pset_input(WalletUtxo("NO", n))
           i6 == add_pset_input(WalletUtxo("COLLATERAL", fee))
           ins == <<i1, i2, i3, i4, i5, i6>>
           s == << reissuance_token_output("DormantYesRt"), reissuance_token_output("DormantNoRt"),
                   burn_txout("YES", n), burn_txout("NO", n),
                   explicit_txout("COLLATERAL", refund, "Wallet") >>
                \o Change("COLLATERAL", y)
           outs == s \o <<fee_txout>>
           p == build_cancellation_pset(b, n, n, n, fee)
           q == ensure_fee_output_last(p)
           tx == TokenBlind(q)
           w1 == [Witness("CancellationFullPrimary", "UnresolvedCollateral") EXCEPT !.pairs_burned = n]
           w2 == Witness("CancellationFullSecondaryYesRt", "UnresolvedYesRt")
           w3 == Witness("CancellationFullSecondaryNoRt", "UnresolvedNoRt")
<1>1. PICK yes, no, k \in Ids(txs), v \in 1..U64Max :
          /\ b.yes = Rt(yes, "UnresolvedYesRt", "YES_RT")
          /\ b.no = Rt(no, "UnresolvedNoRt", "NO_RT")
          /\ b.coll = Coll(k, "UnresolvedCollateral", v)
          /\ b.yes \in utxos /\ b.no \in utxos /\ b.coll \in utxos
    BY BundleIs DEF Inv
<1>v. v \in Nat /\ v = refund /\ v <= U64Max /\ U64Max \in Nat
    BY <1>1, CovenantAssumption DEF Coll
<1>r. refund \in Nat \ {0}
    BY CovenantPrice
<1>0. /\ FeeAmount \in Nat /\ fee \in Nat /\ fee - FeeAmount = y /\ height \in Nat
      /\ Fits(refund) /\ b.coll.amount = refund
    BY <1>v, <1>r, FeeAssumption, MarketAssumption DEF Inv, Fits
<1>2. /\ CollIn(i1, "UnresolvedCollateral", refund)
      /\ RtIn(i2, "UnresolvedYesRt", "YES_RT", {}) /\ RtIn(i3, "UnresolvedNoRt", "NO_RT", {})
      /\ WalletIn(i4, "YES", n) /\ WalletIn(i5, "NO", n) /\ WalletIn(i6, "COLLATERAL", fee)
    BY <1>1, <1>v, InputsMade
<1>3. Prevout(i1) \in utxos /\ Prevout(i2) \in utxos /\ Prevout(i3) \in utxos
    BY <1>1, InputKinds DEF add_pset_input
<1>4. IsPset(p, ins, outs, 0)
    <2>1. ~ (b.coll.amount - refund > 0)
        BY <1>0, <1>r
    <2> QED BY <1>0, <2>1 DEF build_cancellation_pset, IsPset
<1>5. FullOuts(s, n, refund, y) /\ WithFee(outs, s)
    BY DEF FullOuts, WithFee
<1>6. assemble_cancellation(b, n, n, n, fee) = Assembled(tx, <<w1, w2, w3>>)
    BY <1>0 DEF assemble_cancellation, TokenBlind
<1>w. outs = s \o <<fee_txout>>
    OBVIOUS
<1> HIDE DEF b, i1, i2, i3, i4, i5, i6, s, outs, p
<1>q. s \in Seq(OutRec)
    BY <1>r, <1>5, FullPays
<1>p. q = p
    BY <1>4, <1>q, <1>w, FeeIsLast
<1> HIDE DEF q
<1>7. tx.ins = ins /\ tx.lock = 0 /\ tx.outs = BlindOuts(outs, RtPos)
    BY <1>4, <1>p, TokenBlinds
<1>8. /\ DOMAIN ins = 1..6 /\ Len(ins) = 6 /\ ins[1] = i1 /\ ins[2] = i2 /\ ins[3] = i3
      /\ ins[4] = i4 /\ ins[5] = i5 /\ ins[6] = i6
    OBVIOUS
<1> HIDE DEF ins, tx
<1>10. /\ Sums(tx.outs, n, n, 1, 1, refund + y + FeeAmount)
       /\ Len(tx.outs) \in Nat /\ Len(tx.outs) >= 5 /\ tx.outs[Len(tx.outs)].script = "Fee"
       /\ tx.outs[1] = RtOut("DormantYesRt", "YES_RT") /\ tx.outs[2] = RtOut("DormantNoRt", "NO_RT")
       /\ tx.outs[3] = BurnOut("YES", n) /\ tx.outs[4] = BurnOut("NO", n)
    <2> HIDE DEF refund
    <2>2. tx.outs = BlindOuts(outs, RtPos)
        BY <1>7
    <2> QED BY <1>r, <1>5, <2>2, FullPays
<1>11. main(tx, 0, w1) /\ main(tx, 1, w2) /\ main(tx, 2, w3)
    BY <1>0, <1>2, <1>7, <1>8, <1>10, FullSpends
<1> HIDE DEF w1, w2, w3, refund
<1>12. Totals(tx.ins, n, n, 1, 1, refund + fee)
    <2>1. ASSUME NEW a
          PROVE  /\ Valued(i1, a) = (IF "COLLATERAL" = a THEN refund ELSE 0)
                 /\ Valued(i2, a) = (IF "YES_RT" = a THEN 1 ELSE 0)
                 /\ Valued(i3, a) = (IF "NO_RT" = a THEN 1 ELSE 0)
                 /\ Valued(i4, a) = (IF "YES" = a THEN n ELSE 0)
                 /\ Valued(i5, a) = (IF "NO" = a THEN n ELSE 0)
                 /\ Valued(i6, a) = (IF "COLLATERAL" = a THEN fee ELSE 0)
        BY <1>2 DEF RtIn, CollIn, WalletIn, Valued
    <2>2. ASSUME NEW a
          PROVE  Total(ins, a) = Valued(i1, a) + Valued(i2, a) + Valued(i3, a) + Valued(i4, a)
                                 + Valued(i5, a) + Valued(i6, a)
        <3>1. /\ Valued(ins[1], a) \in Int /\ Valued(ins[2], a) \in Int
              /\ Valued(ins[3], a) \in Int /\ Valued(ins[4], a) \in Int
              /\ Valued(ins[5], a) \in Int /\ Valued(ins[6], a) \in Int
            BY <1>0, <1>r, <1>8, <2>1
        <3> QED BY <1>8, <3>1, TotalOfSix
    <2> QED BY <1>0, <1>r, <1>7, <2>1, <2>2 DEF Totals
<1>13. IsFiniteSet(DOMAIN tx.ins)
    BY <1>7, <1>8, FinitePrefix
<1>14. Minted(tx, "YES") = 0 /\ Minted(tx, "NO") = 0
    <2>1. \A j \in 1..6 : j = 1 \/ j = 2 \/ j = 3 \/ j = 4 \/ j = 5 \/ j = 6
        OBVIOUS
    <2>2. \A j \in DOMAIN tx.ins : tx.ins[j].issuance = {}
        BY <1>2, <1>7, <1>8, <2>1 DEF CollIn, RtIn, WalletIn
    <2> QED BY <1>13, <2>2, MintedNone
<1>15. Balanced(tx)
    <2> DEFINE c == refund + fee
    <2>1. /\ c \in Int /\ 0 \in Nat /\ 1 \in Int /\ refund + y + FeeAmount = c /\ n = n + 0
        BY <1>0, <1>r
    <2>2. Totals(tx.ins, n, n, 1, 1, c) /\ Totals(tx.outs, n + 0, n + 0, 1, 1, c)
        BY <1>10, <1>12, <2>1 DEF Sums
    <2> HIDE DEF c
    <2> QED BY <1>14, <2>1, <2>2, BalancedIs
<1>16. /\ DOMAIN tx.ins = 1..6
       /\ \A j \in 1..3 : tx.ins[j].script \in MarketSlot /\ Prevout(tx.ins[j]) \in utxos
       /\ \A j \in 4..6 : tx.ins[j].script = "Wallet"
    <2>1. \A j \in 1..3 : j = 1 \/ j = 2 \/ j = 3
        OBVIOUS
    <2>2. \A j \in 4..6 : j = 4 \/ j = 5 \/ j = 6
        OBVIOUS
    <2> QED BY <1>2, <1>3, <1>7, <1>8, <2>1, <2>2 DEF CollIn, RtIn, WalletIn, MarketSlot
<1>18. tx.lock <= height
    BY <1>0, <1>7
<1>19. NetworkAccepts(Assembled(tx, <<w1, w2, w3>>))
    <2>1. 6 \in Nat /\ 6 >= 3
        OBVIOUS
    <2>2. PICK o : Sums(tx.outs, n, n, 1, 1, o)
        BY <1>10
    <2> QED BY ONLY <1>11, <1>15, <1>16, <1>18, <2>1, <2>2, ThreeOfSome
<1> QED
    BY <1>6, <1>19 DEF b

-----------------------------------------------------------------------------
(* Redemptions. *)

(* What two entries carry, added up. *)
LEMMA TotalOfTwo ==
    ASSUME NEW s, DOMAIN s = 1..2, NEW a, Valued(s[1], a) \in Int, Valued(s[2], a) \in Int
    PROVE  Total(s, a) = Valued(s[1], a) + Valued(s[2], a)
<1>1. \A k \in 1..2 : Valued(s[k], a) \in Int
    <2>1. \A k \in 1..2 : k = 1 \/ k = 2
        OBVIOUS
    <2> QED BY <2>1
<1> QED
    BY <1>1, TotalOfFew

(* n of an asset, when it is the one asked for. *)
Of(asset, a, n) == IF asset = a THEN n ELSE 0

(* The first outputs of a redemption. *)
LEMMA RedemptionBasePays ==
    ASSUME NEW slot \in MarketSlot, NEW asset \in Tokens, NEW n \in Nat \ {0}, NEW rest \in Nat,
           NEW payout \in Nat \ {0}, NEW base, base = RedemptionBase(slot, asset, n, rest, payout)
    PROVE  /\ ComesTo(base, base, {}, Of(asset, "YES", n), Of(asset, "NO", n), 0, 0, rest + payout)
           /\ Len(base) >= 2
           /\ rest > 0 => /\ Blinded(base[1], 1, {}) = CollOut(slot, rest)
                          /\ Blinded(base[2], 2, {}) = BurnOut(asset, n)
           /\ rest = 0 => Blinded(base[1], 1, {}) = BurnOut(asset, n)
<1> DEFINE o1 == explicit_txout("COLLATERAL", rest, slot)
           o2 == burn_txout(asset, n)
           o3 == explicit_txout("COLLATERAL", payout, "Wallet")
           pos == {}
           r == BlindOuts(base, pos)
           c == rest + payout
           yes == Of(asset, "YES", n)
           no == Of(asset, "NO", n)
<1>0. slot # "Wallet" /\ n > 0 /\ payout > 0 /\ n \in Int /\ payout \in Int
    BY DEF MarketSlot
<1>1. o1 \in OutRec /\ o2 \in OutRec /\ o3 \in OutRec
    BY DEF OutRec, Script, Asset, Tokens, explicit_txout, burn_txout
<1>2. 1 \notin pos /\ 2 \notin pos /\ 3 \notin pos /\ \A k \in pos : FALSE
    OBVIOUS
<1>3. /\ Blinded(o1, 1, pos) = CollOut(slot, rest)
      /\ Blinded(o2, 1, pos) = BurnOut(asset, n) /\ Blinded(o2, 2, pos) = BurnOut(asset, n)
      /\ Blinded(o3, 2, pos) = WalletOut("COLLATERAL", payout)
      /\ Blinded(o3, 3, pos) = WalletOut("COLLATERAL", payout)
    BY <1>0, <1>2, BlindedColl, BlindedPlain
<1>4. CASE rest > 0
    <2>1. base = <<o1, o2, o3>>
        BY <1>4 DEF RedemptionBase
    <2> HIDE DEF o1, o2, o3, pos
    <2>2. /\ base \in Seq(OutRec) /\ Len(base) = 3 /\ DOMAIN base = 1..3
          /\ base[1] = o1 /\ base[2] = o2 /\ base[3] = o3
        BY <1>1, <2>1
    <2>3. /\ DOMAIN r = 1..3 /\ r[1] = CollOut(slot, rest) /\ r[2] = BurnOut(asset, n)
          /\ r[3] = WalletOut("COLLATERAL", payout)
        BY <1>3, <2>2 DEF BlindOuts
    <2>4. \A k \in 1..3 : k = 1 \/ k = 2 \/ k = 3
        OBVIOUS
    <2> HIDE DEF r
    <2>5. \A k \in 1..Len(base) : r[k].amount > 0
        BY <1>0, <1>4, <2>2, <2>3, <2>4, PlainValue
    <2>6. ASSUME NEW a
          PROVE  /\ Valued(r[1], a) = (IF a = "COLLATERAL" THEN rest ELSE 0)
                 /\ Valued(r[2], a) = Of(asset, a, n)
                 /\ Valued(r[3], a) = (IF "COLLATERAL" = a THEN payout ELSE 0)
        BY <2>3, PlainValue DEF Of
    <2>7. ASSUME NEW a
          PROVE  Total(r, a) = Valued(r[1], a) + Valued(r[2], a) + Valued(r[3], a)
        <3>1. Valued(r[1], a) \in Int /\ Valued(r[2], a) \in Int /\ Valued(r[3], a) \in Int
            BY <1>0, <2>6 DEF Of
        <3> QED BY <2>3, <3>1, TotalOfThree
    <2>8. Totals(r, yes, no, 0, 0, c)
        <3>1. /\ Of(asset, "COLLATERAL", n) = 0 /\ Of(asset, "YES_RT", n) = 0
              /\ Of(asset, "NO_RT", n) = 0 /\ yes \in Int /\ no \in Int
            BY <1>0 DEF Of, Tokens
        <3> QED BY <1>0, <2>6, <2>7, <3>1 DEF Totals
    <2>9. ComesTo(base, base, pos, yes, no, 0, 0, c)
        BY <1>2, <2>2, <2>5, <2>8, BaseComesTo DEF r
    <2> QED BY <1>3, <1>4, <2>2, <2>9 DEF pos
<1>5. CASE rest = 0
    <2>1. base = <<o2, o3>>
        BY <1>5 DEF RedemptionBase
    <2> HIDE DEF o1, o2, o3, pos
    <2>2. /\ base \in Seq(OutRec) /\ Len(base) = 2 /\ DOMAIN base = 1..2
          /\ base[1] = o2 /\ base[2] = o3
        BY <1>1, <2>1
    <2>3. /\ DOMAIN r = 1..2 /\ r[1] = BurnOut(asset, n) /\ r[2] = WalletOut("COLLATERAL", payout)
        BY <1>3, <2>2 DEF BlindOuts
    <2>4. \A k \in 1..2 : k = 1 \/ k = 2
        OBVIOUS
    <2> HIDE DEF r
    <2>5. \A k \in 1..Len(base) : r[k].amount > 0
        BY <1>0, <2>2, <2>3, <2>4, PlainValue
    <2>6. ASSUME NEW a
          PROVE  /\ Valued(r[1], a) = Of(asset, a, n)
                 /\ Valued(r[2], a) = (IF "COLLATERAL" = a THEN payout ELSE 0)
        BY <2>3, PlainValue DEF Of
    <2>7. ASSUME NEW a
          PROVE  Total(r, a) = Valued(r[1], a) + Valued(r[2], a)
        <3>1. Valued(r[1], a) \in Int /\ Valued(r[2], a) \in Int
            BY <1>0, <2>6 DEF Of
        <3> QED BY <2>3, <3>1, TotalOfTwo
    <2>8. Totals(r, yes, no, 0, 0, c)
        <3>1. /\ Of(asset, "COLLATERAL", n) = 0 /\ Of(asset, "YES_RT", n) = 0
              /\ Of(asset, "NO_RT", n) = 0 /\ yes \in Int /\ no \in Int /\ c = payout
            BY <1>0, <1>5 DEF Of, Tokens
        <3> QED BY <1>0, <2>6, <2>7, <3>1 DEF Totals
    <2>9. ComesTo(base, base, pos, yes, no, 0, 0, c)
        BY <1>2, <2>2, <2>5, <2>8, BaseComesTo DEF r
    <2> QED BY <1>3, <1>5, <2>2, <2>9 DEF pos
<1> QED
    BY <1>4, <1>5

(* The outputs of a redemption of all the tokens brought. *)
LEMMA RedemptionPays ==
    ASSUME NEW slot \in MarketSlot, NEW asset \in Tokens, NEW n \in Nat \ {0}, NEW rest \in Nat,
           NEW payout \in Nat \ {0}, NEW y \in Nat,
           NEW base, base = RedemptionBase(slot, asset, n, rest, payout),
           NEW s, RedemptionOuts(s, base, asset, 0, y),
           NEW outs, WithFee(outs, s), NEW t, t = BlindOuts(outs, {})
    PROVE  /\ Sums(t, Of(asset, "YES", n), Of(asset, "NO", n), 0, 0, rest + payout + y + FeeAmount)
           /\ Len(t) \in Nat /\ Len(t) >= 2 /\ t[Len(t)].script = "Fee"
           /\ rest > 0 => t[1] = CollOut(slot, rest) /\ t[2] = BurnOut(asset, n)
           /\ rest = 0 => t[1] = BurnOut(asset, n)
           /\ s \in Seq(OutRec)
<1> DEFINE yes == Of(asset, "YES", n)
           no == Of(asset, "NO", n)
           pos == {}
           c == rest + payout
           d == c + y
           e == d + FeeAmount
<1>1. /\ ComesTo(base, base, pos, yes, no, 0, 0, c)
      /\ Len(base) >= 2
      /\ rest > 0 => /\ Blinded(base[1], 1, pos) = CollOut(slot, rest)
                     /\ Blinded(base[2], 2, pos) = BurnOut(asset, n)
      /\ rest = 0 => Blinded(base[1], 1, pos) = BurnOut(asset, n)
    BY RedemptionBasePays
<1>2. yes \in Nat /\ no \in Nat /\ c \in Nat /\ FeeAmount \in Nat
    BY FeeAssumption DEF Of
<1>3. base \in Seq(OutRec) /\ Len(base) \in Nat
    BY <1>1 DEF ComesTo
<1>4. s = base \o Change("COLLATERAL", y) /\ outs = s \o <<fee_txout>>
    <2>1. base \o Change(asset, 0) = base
        BY <1>3 DEF Change
    <2> QED BY <2>1 DEF RedemptionOuts, WithFee
<1>5. t = BlindOuts(outs, pos)
    OBVIOUS
<1> HIDE DEF yes, no, pos, c
<1>6. ComesTo(base \o Change("COLLATERAL", y), base, pos, yes, no, 0, 0, d)
    BY <1>1, <1>2, ComesToChange
<1>7. ComesTo(s, base, pos, yes, no, 0, 0, d) /\ d \in Nat
    BY <1>2, <1>4, <1>6
<1> HIDE DEF d
<1>8. ComesTo(s \o <<fee_txout>>, base, pos, yes, no, 0, 0, e)
    BY <1>2, <1>7, ComesToChange
<1> HIDE DEF e
<1>9. ComesTo(outs, base, pos, yes, no, 0, 0, e)
    BY <1>4, <1>8
<1>10. /\ Sums(t, yes, no, 0, 0, e)
       /\ Len(t) = Len(outs)
       /\ \A k \in 1..Len(base) : k \in 1..Len(t) /\ t[k] = Blinded(base[k], k, pos)
       /\ \A k \in 1..Len(outs) : t[k].script = outs[k].script
    BY ONLY <1>5, <1>9, BlindedOutputs
<1>11. s \in Seq(OutRec)
    BY <1>7 DEF ComesTo
<1>12. t[Len(t)].script = "Fee" /\ Len(t) \in Nat
    <2>1. outs = s \o <<fee_txout>>
        BY <1>4
    <2>2. Len(t) = Len(outs) /\ \A k \in 1..Len(outs) : t[k].script = outs[k].script
        BY <1>10
    <2> QED BY ONLY <1>11, <2>1, <2>2, FeeAtEnd
<1>13. /\ 2 \in 1..Len(t) /\ t[1] = Blinded(base[1], 1, pos) /\ t[2] = Blinded(base[2], 2, pos)
    <2>1. 1 \in 1..Len(base) /\ 2 \in 1..Len(base)
        BY <1>1, <1>3
    <2> QED BY <1>10, <2>1
<1> QED
    BY <1>1, <1>10, <1>11, <1>12, <1>13 DEF yes, no, c, d, e

(* A redemption: what its two covenant paths share. *)
LEMMA RedemptionSpends ==
    ASSUME NEW tx, NEW w, NEW slot, NEW asset, NEW n, NEW rest \in Nat, NEW payout \in Nat,
           w.slot = slot, w.tokens_burned = n, Fits(payout), Fits(rest),
           Len(tx.ins) = 3, CollIn(tx.ins[1], slot, rest + payout),
           Len(tx.outs) \in Nat, Len(tx.outs) >= 2, tx.outs[Len(tx.outs)].script = "Fee",
           rest > 0 => tx.outs[1] = CollOut(slot, rest) /\ tx.outs[2] = BurnOut(asset, n),
           rest = 0 => tx.outs[1] = BurnOut(asset, n)
    PROVE  Redemption(tx, 0, w, asset, payout) /\ ensure_input_script(tx, 0, w.slot)
<1>1. input(tx, 0) = tx.ins[1] /\ output(tx, 0) = tx.outs[1] /\ output(tx, 1) = tx.outs[2]
    BY DEF input, output
<1>2. output(tx, Len(tx.outs) - 1) = tx.outs[Len(tx.outs)]
    <2>1. (Len(tx.outs) - 1) + 1 = Len(tx.outs)
        OBVIOUS
    <2> QED BY <2>1 DEF output
<1>3. /\ tx.ins[1].script = slot /\ tx.ins[1].issuance = {} /\ ~tx.ins[1].conf
      /\ tx.ins[1].asset = "COLLATERAL" /\ tx.ins[1].amount - payout = rest
    BY DEF CollIn
<1>4. /\ ensure_no_issuance(tx, 0) /\ ensure_input_explicit(tx, 0, "COLLATERAL")
      /\ ensure_input_script(tx, 0, w.slot)
    BY <1>1, <1>3 DEF ensure_no_issuance, ensure_input_explicit, ensure_input_script
<1>5. ensure_fee_output_at_end(tx)
    BY <1>2 DEF ensure_fee_output_at_end, ensure_fee_output, ensure_output_script, num_outputs
<1>6. input(tx, 0).amount - payout = rest
    BY <1>1, <1>3
<1>7. CASE rest > 0
    <2>1. /\ tx.outs[1].script = slot /\ ~tx.outs[1].conf /\ tx.outs[1].asset = "COLLATERAL"
          /\ tx.outs[1].amount = rest
          /\ tx.outs[2].script = "Burn" /\ ~tx.outs[2].conf /\ tx.outs[2].asset = asset
          /\ tx.outs[2].amount = n
        BY <1>7 DEF CollOut, BurnOut
    <2>2. /\ ensure_output_asset_with_amount(tx, 0, "COLLATERAL", rest)
          /\ ensure_output_script(tx, 0, w.slot) /\ ensure_burn_output(tx, 1, asset, w.tokens_burned)
        BY <1>1, <2>1 DEF ensure_output_asset_with_amount, ensure_output_script, ensure_burn_output,
           num_outputs
    <2>3. rest # 0
        BY <1>7
    <2> QED BY <1>4, <1>5, <1>6, <2>2, <2>3 DEF Redemption
<1>8. CASE rest = 0
    <2>1. /\ tx.outs[1].script = "Burn" /\ ~tx.outs[1].conf /\ tx.outs[1].asset = asset
          /\ tx.outs[1].amount = n
        BY <1>8 DEF BurnOut
    <2>2. ensure_burn_output(tx, 0, asset, w.tokens_burned)
        BY <1>1, <2>1 DEF ensure_output_asset_with_amount, ensure_output_script, ensure_burn_output,
           num_outputs
    <2> QED BY <1>4, <1>5, <1>6, <1>8, <2>2 DEF Redemption
<1> QED
    BY <1>7, <1>8

(* A redemption of all the tokens brought lands, when the covenant path it *)
(* takes adds nothing to what the two redemption paths share.              *)
LEMMA RedemptionLands ==
    ASSUME Inv, state \in Terminal, utxos # {}, NEW asset \in Tokens, NEW n \in Nat \ {0},
           NEW payout \in Nat \ {0}, payout <= classify_covenant_utxos.coll.amount,
           NEW y \in Nat, NEW fee, fee = FeeAmount + y, NEW lock \in Nat, lock <= height,
           NEW q, q = RedemptionPset(classify_covenant_utxos, asset, n, payout, n, fee, lock),
           NEW p, p = ensure_fee_output_last(q), NEW tx, tx = PlainBlind(p),
           NEW w, w.slot = TerminalSlot(state), w.tokens_burned = n,
           /\ tx.lock = lock /\ ensure_input_script(tx, 0, w.slot)
           /\ Redemption(tx, 0, w, asset, payout)
           => main(tx, 0, w)
    PROVE  NetworkAccepts(Assembled(tx, <<w>>))
<1> DEFINE b == classify_covenant_utxos
           slot == TerminalSlot(state)
           rest == b.coll.amount - payout
           base == RedemptionBase(slot, asset, n, rest, payout)
           i1 == add_pset_input(b.coll)
           i2 == add_pset_input(WalletUtxo(asset, n))
           i3 == add_pset_input(WalletUtxo("COLLATERAL", fee))
           ins == <<i1, i2, i3>>
           s == base \o Change(asset, n - n) \o Change("COLLATERAL", fee - FeeAmount)
           outs == s \o <<fee_txout>>
<1>1. PICK k \in Ids(txs), v \in 1..U64Max : b.coll = Coll(k, slot, v) /\ b.coll \in utxos
    BY BundleIs DEF Inv
<1>v. v \in Nat \ {0} /\ b.coll.amount = v /\ v <= U64Max /\ U64Max \in Nat /\ b.coll.script = slot
    BY <1>1, CovenantAssumption DEF Coll
<1>0. /\ FeeAmount \in Nat /\ fee \in Nat /\ fee - FeeAmount = y /\ n - n = 0
      /\ rest \in Nat /\ v = rest + payout /\ Fits(rest) /\ Fits(payout)
    BY <1>v, FeeAssumption DEF Fits
<1>2. /\ CollIn(i1, slot, v) /\ WalletIn(i2, asset, n) /\ WalletIn(i3, "COLLATERAL", fee)
    BY <1>1, InputsMade
<1>3. Prevout(i1) \in utxos
    BY <1>1, InputKinds DEF add_pset_input
<1>b. q = [ins |-> ins, outs |-> outs, lock |-> lock]
    BY <1>v DEF RedemptionPset, RedemptionBase
<1>4. IsPset(q, ins, outs, lock)
    BY <1>b DEF IsPset
<1>5. RedemptionOuts(s, base, asset, 0, y) /\ WithFee(outs, s)
    BY <1>0 DEF RedemptionOuts, WithFee
<1>6. slot \in MarketSlot /\ w.slot = slot
    BY DEF MarketSlot, TerminalSlot, Terminal
<1>w. outs = s \o <<fee_txout>>
    OBVIOUS
<1>e. base = RedemptionBase(slot, asset, n, rest, payout)
    OBVIOUS
<1> HIDE DEF b, i1, i2, i3, s, outs, base, rest, slot
<1>q. s \in Seq(OutRec)
    <2>1. rest \in Nat /\ BlindOuts(outs, {}) = BlindOuts(outs, {})
        BY <1>0
    <2> QED BY <1>5, <1>6, <1>e, <2>1, RedemptionPays
<1>p. p = q
    BY <1>4, <1>q, <1>w, FeeIsLast
<1>7. tx.ins = ins /\ tx.lock = lock /\ tx.outs = BlindOuts(outs, {})
    BY <1>4, <1>p, PlainBlinds
<1>8. DOMAIN ins = 1..3 /\ Len(ins) = 3 /\ ins[1] = i1 /\ ins[2] = i2 /\ ins[3] = i3
    OBVIOUS
<1> HIDE DEF ins
<1>10. /\ Sums(tx.outs, Of(asset, "YES", n), Of(asset, "NO", n), 0, 0, rest + payout + y + FeeAmount)
       /\ Len(tx.outs) \in Nat /\ Len(tx.outs) >= 2 /\ tx.outs[Len(tx.outs)].script = "Fee"
       /\ rest > 0 => tx.outs[1] = CollOut(slot, rest) /\ tx.outs[2] = BurnOut(asset, n)
       /\ rest = 0 => tx.outs[1] = BurnOut(asset, n)
    <2>1. tx.outs = BlindOuts(outs, {}) /\ rest \in Nat
        BY <1>0, <1>7
    <2> QED BY <1>5, <1>6, <1>e, <2>1, RedemptionPays
<1>11. main(tx, 0, w)
    <2>1. Len(tx.ins) = 3 /\ CollIn(tx.ins[1], slot, rest + payout)
        BY <1>0, <1>2, <1>7, <1>8
    <2>2. rest \in Nat /\ payout \in Nat /\ Fits(payout) /\ Fits(rest) /\ w.tokens_burned = n
        BY <1>0
    <2>3. /\ Len(tx.outs) \in Nat /\ Len(tx.outs) >= 2 /\ tx.outs[Len(tx.outs)].script = "Fee"
          /\ rest > 0 => tx.outs[1] = CollOut(slot, rest) /\ tx.outs[2] = BurnOut(asset, n)
          /\ rest = 0 => tx.outs[1] = BurnOut(asset, n)
        BY <1>10
    <2>4. Redemption(tx, 0, w, asset, payout) /\ ensure_input_script(tx, 0, w.slot)
        BY ONLY <1>6, <2>1, <2>2, <2>3, RedemptionSpends
    <2> QED BY <1>7, <2>4
<1>12. Totals(tx.ins, Of(asset, "YES", n), Of(asset, "NO", n), 0, 0, v + fee)
    <2>1. ASSUME NEW a
          PROVE  /\ Valued(i1, a) = (IF "COLLATERAL" = a THEN v ELSE 0)
                 /\ Valued(i2, a) = Of(asset, a, n)
                 /\ Valued(i3, a) = (IF "COLLATERAL" = a THEN fee ELSE 0)
        BY <1>2 DEF CollIn, WalletIn, Valued, Of
    <2>2. ASSUME NEW a
          PROVE  Total(ins, a) = Valued(i1, a) + Valued(i2, a) + Valued(i3, a)
        <3>1. Valued(ins[1], a) \in Int /\ Valued(ins[2], a) \in Int /\ Valued(ins[3], a) \in Int
            BY <1>0, <1>v, <1>8, <2>1 DEF Of
        <3> QED BY <1>8, <3>1, TotalOfThree
    <2>3. /\ Of(asset, "COLLATERAL", n) = 0 /\ Of(asset, "YES_RT", n) = 0
          /\ Of(asset, "NO_RT", n) = 0 /\ Of(asset, "YES", n) \in Int /\ Of(asset, "NO", n) \in Int
        BY DEF Of, Tokens
    <2> QED BY <1>0, <1>v, <1>7, <2>1, <2>2, <2>3 DEF Totals
<1>13. IsFiniteSet(DOMAIN tx.ins)
    BY <1>7, <1>8, FinitePrefix
<1>m. \A j \in 1..3 : j = 1 \/ j = 2 \/ j = 3
    OBVIOUS
<1>14. Minted(tx, "YES") = 0 /\ Minted(tx, "NO") = 0
    <2>2. \A j \in DOMAIN tx.ins : tx.ins[j].issuance = {}
        BY <1>2, <1>7, <1>8, <1>m DEF CollIn, WalletIn
    <2> QED BY <1>13, <2>2, MintedNone
<1>15. Balanced(tx)
    <2> DEFINE c == v + fee
               yes == Of(asset, "YES", n)
               no == Of(asset, "NO", n)
    <2>1. /\ c \in Int /\ 0 \in Int /\ 0 \in Nat /\ rest + payout + y + FeeAmount = c
          /\ yes \in Int /\ no \in Int
        BY <1>0, <1>v DEF Of
    <2>2. Totals(tx.ins, yes, no, 0, 0, c) /\ Totals(tx.outs, yes, no, 0, 0, c)
        BY <1>10, <1>12, <2>1 DEF Sums
    <2> HIDE DEF c, yes, no
    <2>3. yes = yes + 0 /\ no = no + 0
        BY <2>1
    <2>4. Totals(tx.outs, yes + 0, no + 0, 0, 0, c)
        BY <2>2, <2>3
    <2> QED BY <1>14, <2>1, <2>2, <2>4, BalancedIs
<1>16. /\ DOMAIN tx.ins = 1..3 /\ tx.ins[1].script \in MarketSlot /\ Prevout(tx.ins[1]) \in utxos
       /\ \A j \in 2..3 : tx.ins[j].script = "Wallet"
    <2>1. \A j \in 2..3 : j = 2 \/ j = 3
        OBVIOUS
    <2> QED BY <1>2, <1>3, <1>6, <1>7, <1>8, <2>1 DEF CollIn, WalletIn
<1>18. tx.lock <= height
    BY <1>7
<1> QED
    <2>1. 3 \in Nat /\ 3 >= 1
        OBVIOUS
    <2>2. PICK o1, o2, o3 : Sums(tx.outs, o1, o2, 0, 0, o3)
        BY <1>10
    <2> QED BY ONLY <1>11, <1>15, <1>16, <1>18, <2>1, <2>2, OneOfSome

(* A terminal market with a redeemable token outstanding holds collateral, *)
(* and enough to redeem a holder's whole balance.                          *)
LEMMA CollateralLeft ==
    ASSUME Inv, state \in Terminal, NEW c \in Clients, NEW asset \in Tokens,
           NEW n \in Nat \ {0}, n = holdings[c][asset], state = "ResolvedYes" => asset = "YES",
           state = "ResolvedNo" => asset = "NO", NEW payout,
           payout = (IF state = "Expired" THEN n * CollateralPerToken ELSE required_collateral(n))
    PROVE  /\ utxos # {} /\ payout \in Nat \ {0}
           /\ payout <= classify_covenant_utxos.coll.amount
<1> DEFINE cpt == CollateralPerToken
           sy == Supply("YES")
           sn == Supply("NO")
           sup == Supply(asset)
<1>1. /\ n <= sup /\ sy \in Nat /\ sn \in Nat /\ sup \in Nat /\ cpt \in Nat \ {0}
    BY Holdings, CovenantAssumption DEF Tokens
<1>2. /\ required_collateral(n) = 2 * n * cpt
      /\ payout = (IF state = "Expired" THEN n * cpt ELSE 2 * n * cpt)
    BY DEF required_collateral
<1> HIDE DEF cpt, sy, sn, sup
<1>3. payout <= (IF state = "Expired" THEN sup * cpt ELSE 2 * sup * cpt) /\ payout \in Nat \ {0}
    <2>1. PICK d \in Nat : sup = n + d
        <3>1. sup - n \in Nat /\ sup = n + (sup - n)
            BY <1>1
        <3> QED BY <3>1
    <2>2. n * cpt \in Nat \ {0} /\ d * cpt \in Nat
        BY <1>1
    <2>3. sup * cpt = n * cpt + d * cpt
        BY <1>1, <2>1
    <2>4. 2 * n * cpt = 2 * (n * cpt) /\ 2 * sup * cpt = 2 * (sup * cpt)
        BY <1>1
    <2> QED BY <1>2, <2>2, <2>3, <2>4
<1>4. payout <= Collateral /\ Collateral \in Nat
    BY <1>1, <1>3 DEF Inv, LP!Inv, LP!FullyBacked, LP!Claims, LP!CollateralForPairs, LP!TypeOK,
       sy, sn, sup, cpt, Tokens, Terminal
<1>5. utxos # {}
    <2> SUFFICES ASSUME utxos = {} PROVE FALSE
        OBVIOUS
    <2>1. Collateral = 0
        BY CollateralIs, CollateralCases DEF Inv
    <2> QED BY <1>3, <1>4, <2>1
<1>6. PICK k \in Ids(txs), v \in 1..U64Max :
          classify_covenant_utxos.coll = Coll(k, TerminalSlot(state), v)
    BY <1>5, BundleIs DEF Inv
<1>7. Collateral = v /\ classify_covenant_utxos.coll.amount = v
    BY <1>6, CollateralSeen DEF Coll
<1> QED
    BY <1>3, <1>4, <1>5, <1>7
(* The holder of the winning token redeems the whole balance. *)
LEMMA ResolvedRedemptionLands ==
    ASSUME Inv, NEW c \in Clients, NEW asset \in Tokens, NEW n \in Nat \ {0},
           n = holdings[c][asset],
           \/ state = "ResolvedYes" /\ asset = "YES"
           \/ state = "ResolvedNo" /\ asset = "NO",
           NEW y \in Nat, NEW fee, fee = FeeAmount + y
    PROVE  /\ utxos # {}
           /\ NetworkAccepts(assemble_post_resolution_redemption(classify_covenant_utxos, n, n, fee))
<1> DEFINE b == classify_covenant_utxos
           payout == required_collateral(n)
           q == build_post_resolution_redemption_pset(b, n, n, fee)
           p == ensure_fee_output_last(q)
           tx == PlainBlind(p)
           w == [Witness("PostResolutionRedemption", b.coll.script) EXCEPT !.tokens_burned = n]
<1>1. /\ state \in Terminal /\ state # "Expired"
      /\ state = "ResolvedYes" => asset = "YES"
      /\ state = "ResolvedNo" => asset = "NO"
    BY DEF Terminal
<1>2. utxos # {} /\ payout \in Nat \ {0} /\ payout <= b.coll.amount
    BY <1>1, CollateralLeft
<1>3. PICK k \in Ids(txs), v \in 1..U64Max : b.coll = Coll(k, TerminalSlot(state), v)
    BY <1>1, <1>2, BundleIs DEF Inv
<1>4. /\ b.coll.script = TerminalSlot(state) /\ b.coll.amount = v
      /\ TerminalSlot(state) = (IF asset = "YES" THEN "ResolvedYesCollateral" ELSE "ResolvedNoCollateral")
    BY <1>3 DEF Coll, TerminalSlot
<1>5. Fits(payout) /\ CollateralFits(n) /\ collateral_for_pairs(n) = payout
    <2>1. Fits(payout)
        BY <1>2, <1>4, CovenantAssumption DEF Fits
    <2> QED BY <2>1, CovenantPrice
<1>6. q = RedemptionPset(b, asset, n, payout, n, fee, 0)
    <2>1. winning_token_asset(b) = asset
        BY <1>1, <1>4 DEF winning_token_asset, Tokens
    <2> QED BY <2>1 DEF build_post_resolution_redemption_pset
<1>7. /\ w.path = "PostResolutionRedemption" /\ w.slot = b.coll.script /\ w.tokens_burned = n
    BY DEF Witness
<1>8. assemble_post_resolution_redemption(b, n, n, fee) = Assembled(tx, <<w>>)
    BY DEF assemble_post_resolution_redemption, PlainBlind
<1>9. height \in Nat /\ 0 \in Nat /\ 0 <= height
    BY MarketAssumption DEF Inv
<1> HIDE DEF b, payout, q, w
<1>10. p = ensure_fee_output_last(q) /\ tx = PlainBlind(p)
    OBVIOUS
<1> HIDE DEF p, tx
<1>11. ASSUME ensure_input_script(tx, 0, w.slot), Redemption(tx, 0, w, asset, payout)
       PROVE  main(tx, 0, w)
    <2>1. /\ w.slot \in {"ResolvedYesCollateral", "ResolvedNoCollateral"}
          /\ asset = IF w.slot = "ResolvedYesCollateral" THEN "YES" ELSE "NO"
        BY <1>4, <1>7 DEF Tokens
    <2>2. post_resolution_redemption_path(tx, 0, w)
        BY <1>5, <1>7, <1>11, <2>1 DEF post_resolution_redemption_path
    <2> QED BY <1>7, <1>11, <2>2 DEF main
<1>12. NetworkAccepts(Assembled(tx, <<w>>))
    <2>1. w.slot = TerminalSlot(state) /\ w.tokens_burned = n
        BY <1>4, <1>7
    <2>2. /\ q = RedemptionPset(classify_covenant_utxos, asset, n, payout, n, fee, 0)
          /\ payout <= classify_covenant_utxos.coll.amount
        BY <1>2, <1>6 DEF b
    <2> QED BY <1>1, <1>2, <1>9, <1>10, <1>11, <2>1, <2>2, RedemptionLands
<1> QED
    BY <1>2, <1>8, <1>12 DEF b

(* After expiry the holder of either token redeems the whole balance. *)
LEMMA ExpiredRedemptionLands ==
    ASSUME Inv, state = "Expired", NEW c \in Clients, NEW asset \in Tokens, NEW n \in Nat \ {0},
           n = holdings[c][asset], NEW y \in Nat, NEW fee, fee = FeeAmount + y
    PROVE  /\ utxos # {}
           /\ NetworkAccepts(assemble_expiry_redemption(classify_covenant_utxos, asset, n, n, fee))
<1> DEFINE b == classify_covenant_utxos
           payout == n * CollateralPerToken
           q == build_expiry_redemption_pset(b, asset, n, n, fee)
           p == ensure_fee_output_last(q)
           tx == PlainBlind(p)
           w == [Witness("ExpiryRedemption", "ExpiredCollateral")
                    EXCEPT !.tokens_burned = n, !.burn_asset = asset]
<1>1. state \in Terminal /\ TerminalSlot(state) = "ExpiredCollateral"
    BY DEF Terminal, TerminalSlot
<1>2. utxos # {} /\ payout \in Nat \ {0} /\ payout <= b.coll.amount
    BY <1>1, CollateralLeft
<1>6. q = RedemptionPset(b, asset, n, payout, n, fee, ExpiryTime)
    BY DEF build_expiry_redemption_pset
<1>7. /\ w.path = "ExpiryRedemption" /\ w.slot = "ExpiredCollateral" /\ w.tokens_burned = n
      /\ w.burn_asset = asset /\ w.tokens_burned * CollateralPerToken = payout
    BY DEF Witness
<1>8. assemble_expiry_redemption(b, asset, n, n, fee) = Assembled(tx, <<w>>)
    BY DEF assemble_expiry_redemption, PlainBlind
<1>9. ExpiryTime \in Nat /\ ExpiryTime <= height
    BY CovenantAssumption, MarketAssumption DEF Inv, Justified
<1> HIDE DEF b, payout, q, w
<1>10. p = ensure_fee_output_last(q) /\ tx = PlainBlind(p)
    OBVIOUS
<1> HIDE DEF p, tx
<1>11. ASSUME tx.lock = ExpiryTime, ensure_input_script(tx, 0, w.slot),
              Redemption(tx, 0, w, asset, payout)
       PROVE  main(tx, 0, w)
    <2>1. check_lock_height(tx) /\ w.burn_asset \in {"YES", "NO"}
        BY <1>7, <1>9, <1>11 DEF check_lock_height, Tokens
    <2>2. expiry_redemption_path(tx, 0, w)
        BY <1>7, <1>11, <2>1 DEF expiry_redemption_path
    <2> QED BY <1>7, <1>11, <2>2 DEF main
<1>12. NetworkAccepts(Assembled(tx, <<w>>))
    <2>1. w.slot = TerminalSlot(state) /\ w.tokens_burned = n
        BY <1>1, <1>7
    <2>2. /\ q = RedemptionPset(classify_covenant_utxos, asset, n, payout, n, fee, ExpiryTime)
          /\ payout <= classify_covenant_utxos.coll.amount
        BY <1>2, <1>6 DEF b
    <2> QED BY <1>1, <1>2, <1>9, <1>10, <1>11, <2>1, <2>2, RedemptionLands
<1> QED
    BY <1>2, <1>8, <1>12 DEF b

-----------------------------------------------------------------------------
(* From the invariant to the two properties. *)

(* What a wallet selects for the fee, or for collateral, is what is needed *)
(* and a surplus.                                                          *)
LEMMA Selected ==
    /\ \A fee \in FeeInputs : \E y \in Nat : fee = FeeAmount + y
    /\ \A n : \A wallet \in CollateralInputs(n) : \E x \in Nat : wallet = required_collateral(n) + x
    /\ Amounts \ {0} \subseteq Nat \ {0}
<1>1. \A x \in Surplus : x \in Nat
    BY MarketAssumption
<1>2. \A fee \in FeeInputs : \E y \in Nat : fee = FeeAmount + y
    BY <1>1, Zenon DEF FeeInputs
<1>3. \A n : \A wallet \in CollateralInputs(n) : \E x \in Nat : wallet = required_collateral(n) + x
    BY <1>1, Zenon DEF CollateralInputs
<1>4. Amounts \ {0} \subseteq Nat \ {0}
    BY MarketAssumption DEF Amounts
<1> QED
    BY <1>2, <1>3, <1>4, Zenon

(* A cancellation lands, of some of the pairs or of all of them. *)
LEMMA CancellationLands ==
    ASSUME Inv, state = "Unresolved", NEW c \in Clients, NEW n \in Nat \ {0},
           classify_covenant_utxos.coll.amount >= required_collateral(n),
           NEW yesTotal \in TokenInputs(c, "YES", n), NEW noTotal \in TokenInputs(c, "NO", n),
           NEW y \in Nat, NEW fee, fee = FeeAmount + y
    PROVE  NetworkAccepts(assemble_cancellation(classify_covenant_utxos, n, yesTotal, noTotal, fee))
<1> DEFINE b == classify_covenant_utxos
           refund == required_collateral(n)
<1>1. PICK k \in Ids(txs), v \in 1..U64Max : b.coll = Coll(k, "UnresolvedCollateral", v)
    BY BundleIs DEF Inv
<1>2. b.coll.amount = v /\ v \in Nat /\ refund \in Nat /\ Collateral = v
    <2>1. v \in Nat /\ refund \in Nat
        BY CovenantPrice, CovenantAssumption
    <2>2. b.coll.amount = v
        BY <1>1 DEF Coll
    <2> QED BY <1>1, <2>1, <2>2, CollateralSeen
<1>3. "YES" \in Tokens /\ "NO" \in Tokens /\ n \in Nat
    BY DEF Tokens
<1>4. yesTotal \in n..holdings[c]["YES"] /\ noTotal \in n..holdings[c]["NO"]
    BY DEF TokenInputs
<1>5. CASE b.coll.amount > refund
    <2>1. holdings[c]["YES"] \in Nat /\ holdings[c]["NO"] \in Nat
        BY <1>3, Holdings
    <2>2. yesTotal \in Nat /\ yesTotal >= n /\ noTotal \in Nat /\ noTotal >= n
        BY <1>4, <2>1
    <2> QED BY <1>5, <2>2, PartialLands
<1>6. CASE b.coll.amount = refund
    <2>1. Collateral = required_collateral(n)
        BY <1>2, <1>6
    <2>2. yesTotal = n /\ noTotal = n
        BY <1>3, <1>4, <2>1, HoldsAll
    <2>3. NetworkAccepts(assemble_cancellation(b, n, n, n, fee))
        BY <1>6, FullLands
    <2> QED BY <2>2, <2>3
<1> QED
    BY <1>2, <1>5, <1>6

(* A request the SDK assembles from the market as it is, and that passes   *)
(* its own checks, is one the covenant, the balance of every asset and the *)
(* lock time let onto the chain: every builder agrees with every path of   *)
(* the covenant, whatever surplus the wallet brings and whatever stale     *)
(* transactions landed before.                                             *)
THEOREM RequestsLand == Spec => []FreshRequestsLand
<1>1. Inv => FreshRequestsLand
    <2> SUFFICES ASSUME Inv, NEW c \in Clients, NEW fee \in FeeInputs, NEW n \in Amounts \ {0}
                 PROVE  LET b == classify_covenant_utxos IN
          /\ (/\ state \in {"Dormant", "Unresolved"}
              /\ Fits(required_collateral(n))
              /\ state = "Unresolved" => Fits(b.coll.amount + required_collateral(n)))
             => \A wallet \in CollateralInputs(n) :
                   NetworkAccepts(assemble_issuance(state, b, n, wallet, fee))
          /\ (state = "Unresolved" /\ b.coll.amount >= required_collateral(n))
             => \A yesTotal \in TokenInputs(c, "YES", n),
                   noTotal \in TokenInputs(c, "NO", n) :
                   NetworkAccepts(assemble_cancellation(b, n, yesTotal, noTotal, fee))
          /\ state = "Unresolved"
             => \A sig \in signed :
                   NetworkAccepts(assemble_oracle_resolve(b, sig, sig, fee))
        BY DEF FreshRequestsLand
    <2> DEFINE b == classify_covenant_utxos
    <2>1. n \in Nat \ {0} /\ \E y \in Nat : fee = FeeAmount + y
        BY Selected
    <2>2. PICK y \in Nat : fee = FeeAmount + y
        BY <2>1
    <2>3. ASSUME state \in {"Dormant", "Unresolved"}, Fits(required_collateral(n)),
                 state = "Unresolved" => Fits(b.coll.amount + required_collateral(n)),
                 NEW wallet \in CollateralInputs(n)
          PROVE  NetworkAccepts(assemble_issuance(state, b, n, wallet, fee))
        <3>1. PICK x \in Nat : wallet = required_collateral(n) + x
            BY Selected
        <3>2. CASE state = "Dormant"
            BY <2>1, <2>2, <2>3, <3>1, <3>2, InitialIssuanceLands
        <3>3. CASE state = "Unresolved"
            BY <2>1, <2>2, <2>3, <3>1, <3>3, SubsequentIssuanceLands
        <3> QED BY <2>3, <3>2, <3>3
    <2>4. ASSUME state = "Unresolved", b.coll.amount >= required_collateral(n),
                 NEW yesTotal \in TokenInputs(c, "YES", n), NEW noTotal \in TokenInputs(c, "NO", n)
          PROVE  NetworkAccepts(assemble_cancellation(b, n, yesTotal, noTotal, fee))
        BY <2>1, <2>2, <2>4, CancellationLands
    <2>5. ASSUME state = "Unresolved", NEW sig \in signed
          PROVE  NetworkAccepts(assemble_oracle_resolve(b, sig, sig, fee))
        <3>1. sig \in BOOLEAN
            BY DEF Inv
        <3> QED BY <2>2, <2>5, <3>1, ResolveLands
    <2> QED BY <2>3, <2>4, <2>5
<1> QED
    BY <1>1, MarketInvariant, PTL

(* No scannable market strands its holders: redeem_tokens and              *)
(* redeem_expired of a whole balance are accepted however much others      *)
(* redeemed before, and past its height an unresolved market is finalised. *)
THEOREM HoldersExit == Spec => []HoldersCanExit
<1>1. Inv => HoldersCanExit
    <2> SUFFICES ASSUME Inv, NEW c \in Clients, NEW fee \in FeeInputs, NEW asset \in Tokens
                 PROVE  LET b == classify_covenant_utxos
                            n == holdings[c][asset] IN
              /\ (/\ n > 0
                  /\ \/ state = "ResolvedYes" /\ asset = "YES"
                     \/ state = "ResolvedNo" /\ asset = "NO")
                 => /\ utxos # {}
                    /\ NetworkAccepts(assemble_post_resolution_redemption(b, n, n, fee))
              /\ (n > 0 /\ state = "Expired")
                 => /\ utxos # {}
                    /\ NetworkAccepts(assemble_expiry_redemption(b, asset, n, n, fee))
              /\ (state = "Unresolved" /\ height >= ExpiryTime)
                 => NetworkAccepts(assemble_expire_transition(b, fee))
        BY DEF HoldersCanExit
    <2> DEFINE b == classify_covenant_utxos
               n == holdings[c][asset]
    <2>1. PICK y \in Nat : fee = FeeAmount + y
        BY Selected
    <2>2. n \in Nat
        BY Holdings
    <2>3. ASSUME n > 0, \/ state = "ResolvedYes" /\ asset = "YES"
                        \/ state = "ResolvedNo" /\ asset = "NO"
          PROVE  utxos # {} /\ NetworkAccepts(assemble_post_resolution_redemption(b, n, n, fee))
        <3>1. n \in Nat \ {0}
            BY <2>2, <2>3
        <3> QED BY <2>1, <2>3, <3>1, ResolvedRedemptionLands
    <2>4. ASSUME n > 0, state = "Expired"
          PROVE  utxos # {} /\ NetworkAccepts(assemble_expiry_redemption(b, asset, n, n, fee))
        <3>1. n \in Nat \ {0}
            BY <2>2, <2>4
        <3> QED BY <2>1, <2>4, <3>1, ExpiredRedemptionLands
    <2>5. ASSUME state = "Unresolved", height >= ExpiryTime
          PROVE  NetworkAccepts(assemble_expire_transition(b, fee))
        BY <2>1, <2>5, ExpireLands
    <2> QED BY <2>3, <2>4, <2>5
<1> QED
    BY <1>1, MarketInvariant, PTL
=============================================================================
