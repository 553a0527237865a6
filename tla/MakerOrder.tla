----------------------------- MODULE MakerOrder -----------------------------
(***************************************************************************)
(* One maker limit order: the covenant (contract/maker_order.simf), the    *)
(* PSET builders (maker_order/pset) and DeadcatSdk's create_limit_order,   *)
(* fill_limit_order and cancel_limit_order, used by a maker and takers at  *)
(* once.                                                                   *)
(*                                                                         *)
(* An order lives at an address of its own (random nonce), as one UTXO     *)
(* that each partial fill replaces.  A transaction is [txid, ins, outs]:   *)
(* the order UTXO it spends, the amounts that come in and its outputs, of  *)
(* which the covenant reads those at its own index and the next.  Indices  *)
(* count from 0, as in the code.                                           *)
(***************************************************************************)
EXTENDS Integers, Sequences, Functions

CONSTANTS
    Takers,     \* SDK instances that fill
    ForeignTakers,  \* takers who also build fills of their own
    Maker,      \* the SDK instance that created the order
    Prices,     \* quote units per lot
    MinFill,    \* min_fill_lots
    MinRemainder,  \* min_remainder_lots
    FeeAmount,  \* fee_amount of every request
    U64Max,     \* largest amount a u64 holds
    Surplus,    \* how much a wallet input may exceed what it pays for
    MaxAmount,  \* bound: largest amount of an order or an output
    MaxTxs      \* bound: transactions that reach the chain

ASSUME OrderAssumption ==
    /\ Prices \subseteq Nat
    /\ MinFill \in Nat
    /\ MinRemainder \in Nat
    /\ FeeAmount \in Nat \ {0}
    /\ U64Max \in Nat
    /\ Surplus \subseteq Nat
    /\ MaxAmount \in 0..U64Max
    /\ MaxTxs \in Nat \ {0}

VARIABLES
    params,    \* direction and price, fixed when the order is created
    order,     \* the live order UTXO: its txid and value, 0 when there is none
    offered,   \* order_amount of create_limit_order
    received,  \* what the maker's receive address got, in the wanted asset
    refunded,  \* what cancellation returned to the maker
    txs,       \* transactions landed so far, the source of fresh txids
    request    \* request[c]: the transaction client c is about to broadcast

vars == <<params, order, offered, received, refunded, txs, request>>

Direction == {"SellBase", "SellQuote"}

Clients == Takers \cup ForeignTakers \cup {Maker}

Idle == [stage |-> "idle"]

OfferedAsset(p) == IF p.direction = "SellBase" THEN "BASE" ELSE "QUOTE"
WantedAsset(p)  == IF p.direction = "SellBase" THEN "QUOTE" ELSE "BASE"

Fits(n) == n \in 0..U64Max

TxOut(script, asset, amount) ==
    [script |-> script, asset |-> asset, amount |-> amount, conf |-> FALSE]

TxIn(asset, amount) == [asset |-> asset, amount |-> amount]

-----------------------------------------------------------------------------
(* The covenant. *)

output(tx, i) == tx.outs[i + 1]

(* get_output_explicit_asset_amount succeeds and finds this asset. *)
ExplicitAsset(tx, i, asset) ==
    i < Len(tx.outs) /\ ~output(tx, i).conf /\ output(tx, i).asset = asset

(* The remainder is locked by the script of the input it comes from. *)
RemainderLocked(tx, i_rem, asset) ==
    ExplicitAsset(tx, i_rem, asset) /\ output(tx, i_rem).script = "Order"

(* Faulty partial fill: the payment is compared with the whole input only. *)
SellBasePartialUnpriced(p, value, tx, i) ==
    /\ ExplicitAsset(tx, i, "QUOTE")
    /\ RemainderLocked(tx, i + 1, "BASE") \/ output(tx, i).amount = value * p.price

validate_sell_base_fill(p, value, tx, i) ==
    LET maker == output(tx, i).amount
        rem   == output(tx, i + 1).amount
    IN  /\ ExplicitAsset(tx, i, "QUOTE")
        /\ Fits(value * p.price)
        /\ \/ maker = value * p.price /\ MinFill <= value
           \/ /\ maker # value * p.price
              /\ RemainderLocked(tx, i + 1, "BASE")
              /\ rem <= value
              /\ maker = (value - rem) * p.price
              /\ MinFill <= value - rem
              /\ MinRemainder <= rem

validate_sell_quote_fill(p, value, tx, i) ==
    LET maker == output(tx, i).amount
        rem   == output(tx, i + 1).amount
    IN  /\ ExplicitAsset(tx, i, "BASE")
        /\ Fits(maker * p.price)
        /\ MinFill <= maker
        /\ \/ maker * p.price = value
           \/ /\ maker * p.price # value
              /\ RemainderLocked(tx, i + 1, "QUOTE")
              /\ Fits(maker * p.price + rem)
              /\ maker * p.price + rem = value
              /\ Fits(MinRemainder * p.price)
              /\ MinRemainder * p.price <= rem

(* BIP-340 over the outpoint with the maker's key. *)
check_cancel(p, tx, w) == w.signer = Maker /\ w.txid = tx.txid

(* The covenant accepts witness w for the order input at index i.  Orders  *)
(* are created without a cosigner (NUMS), so check_cosigner passes.        *)
main(p, value, tx, i, w) ==
    IF w.path = "Cancel" THEN check_cancel(p, tx, w)
    ELSE /\ i < Len(tx.outs)
         /\ output(tx, i).script = "MakerReceive"
         /\ IF p.direction = "SellBase" THEN validate_sell_base_fill(p, value, tx, i)
                                        ELSE validate_sell_quote_fill(p, value, tx, i)

-----------------------------------------------------------------------------
(* The builders. *)

(* What fill_limit_order computes from the lots and the order's value. *)
FillAmounts(p, value, lots) ==
    LET consumed == IF p.direction = "SellBase" THEN lots ELSE lots * p.price
    IN  [ pays       |-> IF p.direction = "SellBase" THEN lots * p.price ELSE lots,
          receives   |-> consumed,
          is_partial |-> consumed < value,
          remainder  |-> IF consumed < value THEN value - consumed ELSE 0 ]

(* maker_receive_amount is what the taker pays. *)
validate_order_fill(p, value, f) ==
    IF p.direction = "SellBase"
    THEN LET consumed == value - f.remainder
         IN  /\ Fits(consumed * p.price)
             /\ f.pays = consumed * p.price
             /\ MinFill <= consumed
             /\ f.is_partial => MinRemainder <= f.remainder
    ELSE /\ Fits(f.pays * p.price)
         /\ f.pays * p.price + f.remainder = value
         /\ MinFill <= f.pays
         /\ f.is_partial => /\ Fits(MinRemainder * p.price)
                            /\ MinRemainder * p.price <= f.remainder

Change(asset, amount) ==
    IF amount > 0 THEN <<TxOut("Wallet", asset, amount)>> ELSE <<>>

(* build_fill_order_pset for one taker and one order, takers first: the    *)
(* order is input 1.  funding and fee are the values of the wallet UTXOs.  *)
build_fill_order_pset(p, f, value, txid, funding, fee) ==
    [ txid |-> txid,
      ins  |-> << TxIn(WantedAsset(p), funding), TxIn(OfferedAsset(p), value),
                  TxIn("QUOTE", fee) >>,
      outs |-> << TxOut("Wallet", OfferedAsset(p), f.receives),
                  TxOut("MakerReceive", WantedAsset(p), f.pays) >>
               \o (IF f.is_partial
                   THEN <<TxOut("Order", OfferedAsset(p), f.remainder)>> ELSE <<>>)
               \o Change(WantedAsset(p), funding - f.pays)
               \o <<TxOut("Fee", "QUOTE", FeeAmount)>>
               \o Change("QUOTE", fee - FeeAmount) ]

build_cancel_order_pset(p, value, txid, fee) ==
    [ txid |-> txid,
      ins  |-> << TxIn(OfferedAsset(p), value), TxIn("QUOTE", fee) >>,
      outs |-> << TxOut("Wallet", OfferedAsset(p), value),
                  TxOut("Fee", "QUOTE", FeeAmount) >>
               \o Change("QUOTE", fee - FeeAmount) ]

(* Faulty blinding: the remainder is taken for a wallet output. *)
BlindsRemainder(tx, is_partial) ==
    [tx EXCEPT !.outs = [k \in DOMAIN tx.outs |->
        [tx.outs[k] EXCEPT !.conf = tx.outs[k].script # "Fee" /\ k - 1 # 1]]]

(* blind_order_pset with the indices fill_limit_order collects: every      *)
(* output but the fee, the maker's and, in a partial fill, the remainder.  *)
blind_fill(tx, is_partial) ==
    [tx EXCEPT !.outs = [k \in DOMAIN tx.outs |->
        [tx.outs[k] EXCEPT !.conf =
            /\ tx.outs[k].script # "Fee"
            /\ k - 1 # 1
            /\ ~(is_partial /\ k - 1 = 2)]]]

FillTx(p, value, txid, lots, extra, feeExtra) ==
    LET f == FillAmounts(p, value, lots)
    IN  blind_fill(build_fill_order_pset(p, f, value, txid, f.pays + extra,
                                         FeeAmount + feeExtra), f.is_partial)

(* The refund and the fee change are blinded; the covenant reads neither. *)
CancelTx(p, value, txid, feeExtra) ==
    build_cancel_order_pset(p, value, txid, FeeAmount + feeExtra)

FillWitness == [path |-> "Fill"]

(* Faulty signature: it is over the outpoint that created the order. *)
CancelSignsCreation(c, txid) == [path |-> "Cancel", signer |-> c, txid |-> 1]

CancelWitness(c, txid) == [path |-> "Cancel", signer |-> c, txid |-> txid]

-----------------------------------------------------------------------------
(* What the network accepts. *)

Sum(seq, asset) ==
    SumFunction([k \in DOMAIN seq |-> IF seq[k].asset = asset THEN seq[k].amount ELSE 0])

Balanced(tx) == \A asset \in {"BASE", "QUOTE"} : Sum(tx.ins, asset) = Sum(tx.outs, asset)

(* w is the witness of the order input, which has index i. *)
NetworkAccepts(tx, i, w) ==
    /\ order.value > 0 /\ tx.txid = order.txid
    /\ \A k \in DOMAIN tx.outs : tx.outs[k].amount > 0
    /\ Balanced(tx)
    /\ main(params, order.value, tx, i, w)

(* What the maker's receive address gets, and what stays in the order. *)
MakerReceives(tx) ==
    IF Len(tx.outs) >= 2 /\ tx.outs[2].script = "MakerReceive"
    THEN tx.outs[2].amount ELSE 0

Remainder(tx) ==
    IF Len(tx.outs) >= 3 /\ tx.outs[3].script = "Order" THEN tx.outs[3].amount ELSE 0

-----------------------------------------------------------------------------
NoOrder == [direction |-> "None", price |-> 0]

Init ==
    /\ params = NoOrder
    /\ order = [txid |-> 0, value |-> 0]
    /\ offered = 0
    /\ received = 0
    /\ refunded = 0
    /\ txs = 0
    /\ request = [c \in Clients |-> Idle]

(* create_limit_order.  Its transaction spends only the maker's own UTXOs. *)
CreateLimitOrder(direction, price, amount) ==
    /\ params = NoOrder
    /\ price > 0
    /\ amount > 0
    /\ params' = [direction |-> direction, price |-> price]
    /\ order' = [txid |-> txs + 1, value |-> amount]
    /\ offered' = amount
    /\ txs' = txs + 1
    /\ UNCHANGED <<received, refunded, request>>

(* The order was found at its address; the covenant is run on the witness  *)
(* before anything is broadcast.                                           *)
Prepare(c, tx, i, w) ==
    /\ request[c] = Idle
    /\ order.value > 0
    /\ main(params, order.value, tx, i, w)
    /\ request' = [request EXCEPT ![c] =
                      [stage |-> "broadcast", tx |-> tx, i |-> i, w |-> w]]
    /\ UNCHANGED <<params, order, offered, received, refunded, txs>>

FillLimitOrder(c, lots, extra, feeExtra) ==
    /\ Fits(lots * params.price)
    /\ validate_order_fill(params, order.value,
                           FillAmounts(params, order.value, lots))
    /\ Prepare(c, FillTx(params, order.value, order.txid, lots, extra, feeExtra),
               1, FillWitness)

(* A taker who does not use the SDK pays and leaves what he likes, in the  *)
(* same layout; only the covenant judges it.                               *)
ForeignFill(c, pays, rem) ==
    LET f == [pays |-> pays, receives |-> order.value - rem,
              is_partial |-> rem > 0, remainder |-> rem]
    IN  /\ rem < order.value
        /\ Prepare(c, blind_fill(build_fill_order_pset(params, f, order.value,
                                     order.txid, pays, FeeAmount), f.is_partial),
                   1, FillWitness)

CancelLimitOrder(c, feeExtra) ==
    Prepare(c, CancelTx(params, order.value, order.txid, feeExtra),
            0, CancelWitness(c, order.txid))

BroadcastAccepted(c) ==
    /\ request[c].stage = "broadcast"
    /\ txs < MaxTxs
    /\ NetworkAccepts(request[c].tx, request[c].i, request[c].w)
    /\ order' = [txid |-> txs + 1, value |-> Remainder(request[c].tx)]
    /\ received' = received + MakerReceives(request[c].tx)
    /\ refunded' = IF request[c].w.path = "Cancel" THEN refunded + order.value
                                                   ELSE refunded
    /\ txs' = txs + 1
    /\ request' = [request EXCEPT ![c] = Idle]
    /\ UNCHANGED <<params, offered>>

BroadcastRejected(c) ==
    /\ request[c].stage = "broadcast"
    /\ ~NetworkAccepts(request[c].tx, request[c].i, request[c].w)
    /\ request' = [request EXCEPT ![c] = Idle]
    /\ UNCHANGED <<params, order, offered, received, refunded, txs>>

Create ==
    \E direction \in Direction, price \in Prices, amount \in 1..MaxAmount :
        CreateLimitOrder(direction, price, amount)

Fill ==
    \/ \E c \in Takers, lots \in 0..MaxAmount, extra, feeExtra \in Surplus :
          FillLimitOrder(c, lots, extra, feeExtra)
    \/ \E c \in ForeignTakers, pays \in 1..U64Max, rem \in 0..MaxAmount :
          ForeignFill(c, pays, rem)

Cancel == \E feeExtra \in Surplus : CancelLimitOrder(Maker, feeExtra)

Broadcast == \E c \in Clients : BroadcastAccepted(c) \/ BroadcastRejected(c)

Next == Create \/ Fill \/ Cancel \/ Broadcast

Spec == Init /\ [][Next]_vars

-----------------------------------------------------------------------------
(* Properties. *)

(* Type invariant; an order on the chain has a price, so lots have a cost. *)
TypeOK ==
    /\ params = NoOrder \/ (params.direction \in Direction /\ params.price \in Nat \ {0})
    /\ order.txid \in 0..txs /\ order.value \in Nat
    /\ offered \in Nat /\ received \in Nat /\ refunded \in Nat
    /\ txs \in 0..MaxTxs
    /\ DOMAIN request = Clients
    /\ \A c \in Clients : request[c].stage \in {"idle", "broadcast"}

(* What left the order for a taker. *)
Consumed == offered - order.value - refunded

(* The maker is paid the price of every lot that left the order, whatever  *)
(* partial fills, foreign fills, stale fills and cancellations raced each  *)
(* other, and never loses sight of the rest: it is in the order, or came   *)
(* back by cancellation.                                                   *)
MakerPaid ==
    /\ order.value + refunded <= offered
    /\ params.direction = "SellBase" => received >= Consumed * params.price
    /\ params.direction = "SellQuote" => received * params.price >= Consumed

(* A fill that passes the builder's checks on the order as it stands is    *)
(* accepted by the covenant and the network, full or partial, with and     *)
(* without change.  (The covenant prices a sell-base order as a whole, so  *)
(* an order worth more than a u64 holds cannot be filled at all.)          *)
FreshFillsLand ==
    \A lots \in 1..MaxAmount, extra, feeExtra \in Surplus :
        (/\ order.value > 0
         /\ Fits(lots * params.price)
         /\ params.direction = "SellBase" => Fits(order.value * params.price)
         /\ validate_order_fill(params, order.value,
                                FillAmounts(params, order.value, lots)))
        => NetworkAccepts(FillTx(params, order.value, order.txid, lots,
                                 extra, feeExtra), 1, FillWitness)

(* However small a remainder fills have left, the maker can take it back,  *)
(* as long as nobody else pays to the order's address.                     *)
MakerCanCancel ==
    order.value > 0 =>
        \A feeExtra \in Surplus :
            NetworkAccepts(CancelTx(params, order.value, order.txid, feeExtra),
                           0, CancelWitness(Maker, order.txid))
=============================================================================
