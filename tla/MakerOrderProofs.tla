-------------------------- MODULE MakerOrderProofs --------------------------
(***************************************************************************)
(* Proofs about MakerOrder and OrderStore, for every price, amount width   *)
(* and number of takers: no race of fills and cancellation costs the maker *)
(* anything, and the store's status of the order says no more than what    *)
(* happened, however its syncs interleave with the chain.                  *)
(***************************************************************************)
EXTENDS OrderStore, SequenceTheorems, SumTheorems

-----------------------------------------------------------------------------
(* Arithmetic the provers need in isolation. *)

(* Multiplying by the price distributes over adding lots. *)
LEMMA Product ==
    ASSUME NEW m \in Nat, NEW n \in Nat, NEW k \in Nat
    PROVE  m * k \in Nat /\ (m + n) * k = m * k + n * k
OBVIOUS

(* Fewer lots cost no more. *)
LEMMA ProductOfDifference ==
    ASSUME NEW m \in Nat, NEW n \in Nat, NEW k \in Nat, n <= m
    PROVE  (m - n) * k <= m * k
<1>1. PICK d \in Nat : m = d + n
    OBVIOUS
<1>2. m * k = d * k + n * k /\ n * k \in Nat /\ d * k \in Nat
    BY <1>1, Product
<1> QED
    BY <1>1, <1>2

-----------------------------------------------------------------------------
(* What the covenant's fill path guarantees of any transaction, whoever    *)
(* built it: what leaves the order is paid for.                            *)

(* The parts of a transaction the bookkeeping of an order reads. *)
Readable(tx) ==
    /\ Len(tx.outs) \in Nat
    /\ DOMAIN tx.outs = 1..Len(tx.outs)
    /\ MakerReceives(tx) \in Nat
    /\ Remainder(tx) \in Nat

(* A sell-base fill the covenant accepts pays the price of what it takes. *)
LEMMA SellBaseFillPays ==
    ASSUME NEW p, p.price \in Nat, NEW value \in Nat, NEW tx, Readable(tx),
           Remainder(tx) <= value,
           1 < Len(tx.outs), output(tx, 1).script = "MakerReceive",
           validate_sell_base_fill(p, value, tx, 1)
    PROVE  MakerReceives(tx) >= (value - Remainder(tx)) * p.price
<1>1. MakerReceives(tx) = output(tx, 1).amount
    BY DEF MakerReceives, output, Readable
<1>2. CASE output(tx, 1).amount = value * p.price
    <2>1. (value - Remainder(tx)) * p.price <= value * p.price
        BY ProductOfDifference DEF Readable
    <2> QED
        BY <1>1, <1>2, <2>1
<1>3. CASE /\ RemainderLocked(tx, 2, "BASE")
           /\ output(tx, 1).amount = (value - output(tx, 2).amount) * p.price
    <2>1. Remainder(tx) = output(tx, 2).amount
        BY <1>3 DEF Remainder, RemainderLocked, ExplicitAsset, output, Readable
    <2> QED
        BY <1>1, <1>3, <2>1 DEF Readable
<1> QED
    BY <1>2, <1>3 DEF validate_sell_base_fill

(* A sell-quote fill the covenant accepts brings the lots it is paid for. *)
LEMMA SellQuoteFillPays ==
    ASSUME NEW p, p.price \in Nat, NEW value \in Nat, NEW tx, Readable(tx),
           Remainder(tx) <= value,
           1 < Len(tx.outs), output(tx, 1).script = "MakerReceive",
           validate_sell_quote_fill(p, value, tx, 1)
    PROVE  MakerReceives(tx) * p.price >= value - Remainder(tx)
<1>1. MakerReceives(tx) = output(tx, 1).amount
    BY DEF MakerReceives, output, Readable
<1>2. CASE output(tx, 1).amount * p.price = value
    BY <1>1, <1>2 DEF Readable
<1>3. CASE /\ RemainderLocked(tx, 2, "QUOTE")
           /\ output(tx, 1).amount * p.price + output(tx, 2).amount = value
    <2>1. Remainder(tx) = output(tx, 2).amount
        BY <1>3 DEF Remainder, RemainderLocked, ExplicitAsset, output, Readable
    <2>2. output(tx, 1).amount * p.price \in Nat
        BY <1>1, Product DEF Readable
    <2> QED
        BY <1>1, <1>3, <2>1, <2>2 DEF Readable
<1> QED
    BY <1>2, <1>3 DEF validate_sell_quote_fill

-----------------------------------------------------------------------------
(* What the builders put at the positions the bookkeeping reads. *)

TxOuts == [script : {"Wallet", "MakerReceive", "Order", "Fee"},
           asset : {"BASE", "QUOTE"}, amount : Int, conf : BOOLEAN]

(* What concatenation does to length and positions. *)
LEMMA Concatenation ==
    ASSUME NEW T, NEW s \in Seq(T), NEW t \in Seq(T)
    PROVE  /\ s \o t \in Seq(T)
           /\ Len(s \o t) = Len(s) + Len(t)
           /\ \A k \in 1..Len(s) : (s \o t)[k] = s[k]
           /\ Len(t) > 0 => (s \o t)[Len(s) + 1] = t[1]
OBVIOUS

(* The fields of a transaction record. *)
LEMMA TxFields ==
    ASSUME NEW t, NEW i, NEW o
    PROVE  LET tx == [txid |-> t, ins |-> i, outs |-> o]
           IN  tx.txid = t /\ tx.ins = i /\ tx.outs = o
OBVIOUS

(* The outputs of build_fill_order_pset: two fixed ones, optional remainder *)
(* and change, the fee, optional fee change.                                *)
LEMMA FillLayout ==
    ASSUME NEW a \in TxOuts, NEW b \in TxOuts, NEW c \in TxOuts,
           NEW X \in Seq(TxOuts), NEW Y \in Seq(TxOuts), NEW Z \in Seq(TxOuts),
           NEW s, s = <<a, b>> \o X \o Y \o <<c>> \o Z
    PROVE  /\ s \in Seq(TxOuts) /\ Len(s) \in Nat /\ Len(s) >= 3
           /\ s[2] = b
           /\ Len(X) > 0 => s[3] = X[1]
           /\ Len(X) = 0 /\ Len(Y) > 0 => s[3] = Y[1]
           /\ Len(X) = 0 /\ Len(Y) = 0 => s[3] = c
<1> DEFINE s1 == <<a, b>> \o X
           s2 == s1 \o Y
           s3 == s2 \o <<c>>
           s4 == s3 \o Z
<1>0. <<a, b>> \in Seq(TxOuts) /\ Len(<<a, b>>) = 2 /\ <<c>> \in Seq(TxOuts) /\ Len(<<c>>) = 1
    OBVIOUS
<1>1. /\ s1 \in Seq(TxOuts) /\ Len(s1) = 2 + Len(X) /\ s1[2] = b
      /\ Len(X) > 0 => s1[3] = X[1]
    BY <1>0
<1> HIDE DEF s1
<1>2. Len(X) \in Nat /\ Len(Y) \in Nat /\ Len(Z) \in Nat /\ <<c>>[1] = c
    OBVIOUS
<1>3. /\ s2 \in Seq(TxOuts)
      /\ Len(s2) = Len(s1) + Len(Y)
      /\ \A k \in 1..Len(s1) : s2[k] = s1[k]
      /\ Len(Y) > 0 => s2[Len(s1) + 1] = Y[1]
    BY <1>1, Concatenation, Zenon
<1> HIDE DEF s2
<1>4. /\ Len(s2) = 2 + Len(X) + Len(Y) /\ s2[2] = b
      /\ Len(X) > 0 => s2[3] = X[1]
      /\ Len(X) = 0 /\ Len(Y) > 0 => s2[3] = Y[1]
    BY <1>1, <1>2, <1>3
<1>5. /\ s3 \in Seq(TxOuts)
      /\ Len(s3) = Len(s2) + Len(<<c>>)
      /\ \A k \in 1..Len(s2) : s3[k] = s2[k]
      /\ Len(<<c>>) > 0 => s3[Len(s2) + 1] = <<c>>[1]
    BY <1>0, <1>3, Concatenation, Zenon
<1> HIDE DEF s3
<1>6. /\ Len(s3) = 3 + Len(X) + Len(Y) /\ s3[2] = b
      /\ Len(X) > 0 => s3[3] = X[1]
      /\ Len(X) = 0 /\ Len(Y) > 0 => s3[3] = Y[1]
      /\ Len(X) = 0 /\ Len(Y) = 0 => s3[3] = c
    BY <1>0, <1>2, <1>4, <1>5
<1>7. /\ s4 \in Seq(TxOuts)
      /\ Len(s4) = Len(s3) + Len(Z)
      /\ \A k \in 1..Len(s3) : s4[k] = s3[k]
      /\ Len(Z) > 0 => s4[Len(s3) + 1] = Z[1]
    BY <1>5, Concatenation, Zenon
<1> HIDE DEF s4
<1>8. Len(s4) >= 3 /\ Len(s4) \in Nat /\ s4[2] = b /\ s4[3] = s3[3]
    BY <1>2, <1>6, <1>7
<1>9. s4 = s
    BY DEF s1, s2, s3, s4
<1> QED
    BY <1>6, <1>7, <1>8, <1>9, Zenon

(* Change, when there is any, is one wallet output. *)
LEMMA ChangeIsWallet ==
    ASSUME NEW asset \in {"BASE", "QUOTE"}, NEW amount \in Int
    PROVE  /\ Change(asset, amount) \in Seq(TxOuts)
           /\ Len(Change(asset, amount)) > 0 => Change(asset, amount)[1].script = "Wallet"
<1>1. TxOut("Wallet", asset, amount) \in TxOuts
    BY DEF TxOut, TxOuts
<1>2. TxOut("Wallet", asset, amount).script = "Wallet"
    BY DEF TxOut
<1> QED
    BY <1>1, <1>2 DEF Change

(* Blinding changes no script, asset or amount, and leaves the maker's output *)
(* and the remainder explicit.                                               *)
LEMMA BlindKeeps ==
    ASSUME NEW tx, tx = [txid |-> tx.txid, ins |-> tx.ins, outs |-> tx.outs],
           tx.outs \in Seq(TxOuts), NEW is_partial \in BOOLEAN
    PROVE  LET b == blind_fill(tx, is_partial)
           IN  /\ b.txid = tx.txid
               /\ Len(b.outs) = Len(tx.outs) /\ DOMAIN b.outs = 1..Len(b.outs)
               /\ \A k \in 1..Len(tx.outs) : /\ b.outs[k].script = tx.outs[k].script
                                             /\ b.outs[k].amount = tx.outs[k].amount
                                             /\ b.outs[k].asset = tx.outs[k].asset
                                             /\ k = 2 \/ (k = 3 /\ is_partial) => ~b.outs[k].conf
<1> DEFINE b == blind_fill(tx, is_partial)
           hide(k) == /\ tx.outs[k].script # "Fee"
                      /\ k - 1 # 1
                      /\ ~(is_partial /\ k - 1 = 2)
           outs == [k \in DOMAIN tx.outs |-> [tx.outs[k] EXCEPT !.conf = hide(k)]]
<1>1. b.txid = tx.txid /\ b.outs = outs
    BY DEF blind_fill
<1>2. DOMAIN tx.outs = 1..Len(tx.outs) /\ Len(tx.outs) \in Nat
    OBVIOUS
<1>3. \A k \in 1..Len(tx.outs) : tx.outs[k] \in TxOuts
    OBVIOUS
<1>4. \A k \in 1..Len(tx.outs) : outs[k] = [tx.outs[k] EXCEPT !.conf = hide(k)]
    BY <1>2
<1>5. \A k \in 1..Len(tx.outs) : /\ outs[k].script = tx.outs[k].script
                                 /\ outs[k].amount = tx.outs[k].amount
                                 /\ outs[k].asset = tx.outs[k].asset
                                 /\ outs[k].conf = hide(k)
    <2> HIDE DEF hide, outs
    <2> QED BY <1>3, <1>4 DEF TxOuts
<1>7. \A k \in 1..Len(tx.outs) : k = 2 \/ (k = 3 /\ is_partial) => ~hide(k)
    OBVIOUS
<1>6. Len(outs) = Len(tx.outs) /\ DOMAIN outs = 1..Len(outs)
    <2>1. outs \in [1..Len(tx.outs) -> {outs[k] : k \in 1..Len(tx.outs)}]
        BY <1>2
    <2> HIDE DEF outs
    <2> QED BY <1>2, <2>1
<1>8. \A k \in 1..Len(tx.outs) : k = 2 \/ (k = 3 /\ is_partial) => ~outs[k].conf
    BY <1>5, <1>7
<1> QED
    BY <1>1, <1>5, <1>6, <1>8

(* Explicit outputs for maker and remainder at the positions the covenant reads. *)
Placed(tx, p, f) ==
    /\ Len(tx.outs) \in Nat /\ Len(tx.outs) >= 3
    /\ tx.outs[2].script = "MakerReceive" /\ tx.outs[2].asset = WantedAsset(p)
    /\ tx.outs[2].amount = f.pays /\ ~tx.outs[2].conf
    /\ f.is_partial => /\ tx.outs[3].script = "Order" /\ tx.outs[3].asset = OfferedAsset(p)
                       /\ tx.outs[3].amount = f.remainder /\ ~tx.outs[3].conf

(* The maker's output and the remainder sit where the covenant looks. *)
LEMMA FillShape ==
    ASSUME NEW p, p.direction \in Direction,
           NEW f, f.pays \in Nat, f.receives \in Int, f.remainder \in Nat,
           f.is_partial \in BOOLEAN,
           NEW value, NEW txid, NEW funding \in Int, NEW fee \in Int
    PROVE  LET tx == blind_fill(build_fill_order_pset(p, f, value, txid, funding, fee),
                                f.is_partial)
           IN  /\ Readable(tx)
               /\ tx.txid = txid
               /\ MakerReceives(tx) = f.pays
               /\ Remainder(tx) = IF f.is_partial THEN f.remainder ELSE 0
               /\ Placed(tx, p, f)
<1> DEFINE pset == build_fill_order_pset(p, f, value, txid, funding, fee)
           tx == blind_fill(pset, f.is_partial)
           a == TxOut("Wallet", OfferedAsset(p), f.receives)
           b == TxOut("MakerReceive", WantedAsset(p), f.pays)
           r == TxOut("Order", OfferedAsset(p), f.remainder)
           c == TxOut("Fee", "QUOTE", FeeAmount)
           X == IF f.is_partial THEN <<r>> ELSE <<>>
           Y == Change(WantedAsset(p), funding - f.pays)
           Z == Change("QUOTE", fee - FeeAmount)
           s == <<a, b>> \o X \o Y \o <<c>> \o Z
<1>1. OfferedAsset(p) \in {"BASE", "QUOTE"} /\ WantedAsset(p) \in {"BASE", "QUOTE"}
    BY DEF OfferedAsset, WantedAsset
<1>2. a \in TxOuts /\ b \in TxOuts /\ r \in TxOuts /\ c \in TxOuts
    BY <1>1, OrderAssumption DEF TxOut, TxOuts
<1>3. /\ b.script = "MakerReceive" /\ b.amount = f.pays
      /\ r.script = "Order" /\ r.amount = f.remainder
      /\ c.script = "Fee" /\ b.asset = WantedAsset(p) /\ r.asset = OfferedAsset(p)
    BY DEF TxOut
<1>4. /\ X \in Seq(TxOuts)
      /\ f.is_partial => Len(X) > 0 /\ X[1] = r
      /\ ~f.is_partial => Len(X) = 0
    <2> HIDE DEF r
    <2> QED BY <1>2
<1>5. Y \in Seq(TxOuts) /\ (Len(Y) > 0 => Y[1].script = "Wallet")
    <2>1. funding - f.pays \in Int
        OBVIOUS
    <2> QED BY <1>1, <2>1, ChangeIsWallet, Zenon
<1>6. Z \in Seq(TxOuts)
    BY OrderAssumption, ChangeIsWallet
<1>7. pset.outs = s /\ pset.txid = txid
      /\ pset = [txid |-> pset.txid, ins |-> pset.ins, outs |-> pset.outs]
    <2>1. PICK i : pset = [txid |-> txid, ins |-> i, outs |-> s]
        BY Zenon DEF build_fill_order_pset
    <2> HIDE DEF pset, s
    <2> QED BY <2>1, TxFields
<1>8. /\ s \in Seq(TxOuts) /\ Len(s) \in Nat /\ Len(s) >= 3
      /\ s[2] = b
      /\ Len(X) > 0 => s[3] = X[1]
      /\ Len(X) = 0 /\ Len(Y) > 0 => s[3] = Y[1]
      /\ Len(X) = 0 /\ Len(Y) = 0 => s[3] = c
    <2>1. s = <<a, b>> \o X \o Y \o <<c>> \o Z
        OBVIOUS
    <2>2. X \in Seq(TxOuts) /\ Y \in Seq(TxOuts) /\ Z \in Seq(TxOuts)
        BY <1>4, <1>5, <1>6
    <2> HIDE DEF a, b, c, r, X, Y, Z, s
    <2> QED BY <1>2, <2>1, <2>2, FillLayout, SMTT(60)
<1>9. /\ Len(s) >= 3 /\ Len(s) \in Nat
      /\ s[2].script = "MakerReceive" /\ s[2].amount = f.pays /\ s[2].asset = WantedAsset(p)
      /\ f.is_partial => /\ s[3].script = "Order" /\ s[3].amount = f.remainder
                         /\ s[3].asset = OfferedAsset(p)
      /\ ~f.is_partial => s[3].script # "Order"
    <2>1. CASE f.is_partial
        <3> HIDE DEF a, b, c, r, X, Y, Z, s
        <3> QED BY <1>3, <1>4, <1>8, <2>1
    <2>2. CASE ~f.is_partial
        <3> HIDE DEF a, b, c, r, X, Y, Z, s
        <3>1. Len(Y) \in Nat
            BY <1>5
        <3> QED BY <1>3, <1>4, <1>5, <1>8, <2>2, <3>1
    <2> QED
        BY <2>1, <2>2
<1>10. /\ tx.txid = txid /\ Len(tx.outs) = Len(s)
       /\ DOMAIN tx.outs = 1..Len(tx.outs)
       /\ \A k \in 1..Len(s) : /\ tx.outs[k].script = s[k].script
                               /\ tx.outs[k].amount = s[k].amount
                               /\ tx.outs[k].asset = s[k].asset
                               /\ k = 2 \/ (k = 3 /\ f.is_partial) => ~tx.outs[k].conf
    <2> HIDE DEF pset, s
    <2> QED BY <1>7, <1>8, BlindKeeps
<1>11. /\ Len(tx.outs) >= 3 /\ Len(tx.outs) \in Nat
       /\ tx.outs[2].script = "MakerReceive" /\ tx.outs[2].amount = f.pays
       /\ f.is_partial => tx.outs[3].script = "Order" /\ tx.outs[3].amount = f.remainder
       /\ ~f.is_partial => tx.outs[3].script # "Order"
       /\ tx.outs[2].asset = WantedAsset(p) /\ ~tx.outs[2].conf
       /\ f.is_partial => tx.outs[3].asset = OfferedAsset(p) /\ ~tx.outs[3].conf
    <2> HIDE DEF s, tx
    <2>1. 2 \in 1..Len(s) /\ 3 \in 1..Len(s)
        BY <1>9
    <2> QED BY <1>9, <1>10, <2>1
<1> HIDE DEF tx
<1>12. MakerReceives(tx) = f.pays
    BY <1>11 DEF MakerReceives
<1>13. Remainder(tx) = IF f.is_partial THEN f.remainder ELSE 0
    BY <1>11 DEF Remainder
<1>14. Readable(tx) /\ tx.txid = txid
    BY <1>10, <1>11, <1>12, <1>13 DEF Readable
<1>15. Placed(tx, p, f)
    BY <1>11 DEF Placed
<1> QED
    BY <1>12, <1>13, <1>14, <1>15 DEF tx

(* A cancellation leaves no order and pays no receive address. *)
LEMMA CancelShape ==
    ASSUME NEW p, p.direction \in Direction, NEW value \in Int, NEW txid,
           NEW feeExtra \in Nat
    PROVE  LET tx == CancelTx(p, value, txid, feeExtra)
           IN  Readable(tx) /\ tx.txid = txid /\ Remainder(tx) = 0
<1> DEFINE tx == CancelTx(p, value, txid, feeExtra)
           a == TxOut("Wallet", OfferedAsset(p), value)
           c == TxOut("Fee", "QUOTE", FeeAmount)
           Z == Change("QUOTE", (FeeAmount + feeExtra) - FeeAmount)
           s == <<a, c>> \o Z
<1>1. a \in TxOuts /\ c \in TxOuts /\ c.script = "Fee"
    BY OrderAssumption DEF TxOut, TxOuts, OfferedAsset
<1>2. Z \in Seq(TxOuts) /\ (Len(Z) > 0 => Z[1].script = "Wallet")
    <2>1. (FeeAmount + feeExtra) - FeeAmount \in Int
        BY OrderAssumption
    <2> QED BY <2>1, ChangeIsWallet, Zenon
<1>3. tx.outs = s /\ tx.txid = txid
    <2> DEFINE i == <<TxIn(OfferedAsset(p), value), TxIn("QUOTE", FeeAmount + feeExtra)>>
    <2>1. tx = [txid |-> txid, ins |-> i, outs |-> s]
        BY Zenon DEF CancelTx, build_cancel_order_pset
    <2> HIDE DEF tx, s, i
    <2> QED BY <2>1, TxFields
<1>4. /\ Len(s) \in Nat /\ DOMAIN s = 1..Len(s) /\ s[2].script = "Fee"
      /\ Len(s) >= 3 => s[3].script = "Wallet"
    <2> HIDE DEF a, c, Z
    <2> QED BY <1>1, <1>2
<1>5. MakerReceives(tx) = 0 /\ Remainder(tx) = 0
    <2> HIDE DEF tx, s
    <2> QED BY <1>3, <1>4 DEF MakerReceives, Remainder
<1> QED
    BY <1>3, <1>4, <1>5 DEF Readable

-----------------------------------------------------------------------------
(* The inductive invariant.  MakerPaid alone is not inductive: a request   *)
(* built from an older look at the order must be known to be harmless when *)
(* it lands, that is to spend an outpoint that is gone, or to leave no     *)
(* more in the order than there is.                                        *)

RequestOK(c) ==
    /\ Readable(request[c].tx)
    /\ request[c].tx.txid \in 0..txs
    /\ request[c].w.path \in {"Fill", "Cancel"}
    /\ request[c].w.path = "Fill" => request[c].i = 1
    /\ request[c].w.path = "Cancel" => Remainder(request[c].tx) = 0
    /\ request[c].tx.txid = order.txid => Remainder(request[c].tx) <= order.value

RequestsOK ==
    \A c \in Clients : request[c].stage = "broadcast" => RequestOK(c)

Untouched ==
    params = NoOrder =>
        offered = 0 /\ received = 0 /\ refunded = 0 /\ order.value = 0 /\ txs = 0

Inv == TypeOK /\ MakerPaid /\ Untouched /\ RequestsOK

(* A client without an order satisfies the invariant. *)
LEMMA InitInv == Init => Inv
<1> SUFFICES ASSUME Init PROVE Inv
    OBVIOUS
<1>1. /\ params = NoOrder /\ order.txid = 0 /\ order.value = 0
      /\ offered = 0 /\ received = 0 /\ refunded = 0 /\ txs = 0
    BY DEF Init
<1>2. request = [c \in Clients |-> Idle]
    BY DEF Init
<1>3. \A c \in Clients : request[c].stage = "idle"
    BY <1>2 DEF Idle
<1>4. TypeOK
    BY <1>1, <1>2, <1>3, OrderAssumption DEF TypeOK
<1>5. MakerPaid
    <2>1. params.direction = "None"
        BY <1>1 DEF NoOrder
    <2> QED BY <1>1, <2>1 DEF MakerPaid
<1> QED
    BY <1>1, <1>3, <1>4, <1>5 DEF Inv, Untouched, RequestsOK

(* create_limit_order: nothing has left the order. *)
LEMMA CreateInv ==
    ASSUME Inv, NEW direction \in Direction, NEW price \in Prices, NEW amount \in Nat,
           CreateLimitOrder(direction, price, amount)
    PROVE  Inv'
<1>1. /\ offered = 0 /\ received = 0 /\ refunded = 0 /\ order.value = 0 /\ txs = 0
    BY DEF Inv, Untouched, CreateLimitOrder
<1>2. /\ params'.direction = direction /\ params'.price = price
      /\ price \in Nat \ {0}
      /\ order'.txid = 1 /\ order'.value = amount
      /\ offered' = amount /\ txs' = 1
      /\ received' = 0 /\ refunded' = 0 /\ request' = request
    BY <1>1, OrderAssumption DEF CreateLimitOrder
<1>3. TypeOK'
    BY <1>2, OrderAssumption DEF TypeOK, Inv
<1>4. MakerPaid'
    <2>1. Consumed' = 0
        BY <1>2 DEF Consumed
    <2>2. 0 * price = 0
        BY <1>2
    <2> QED BY <1>2, <2>1, <2>2 DEF MakerPaid
<1>5. Untouched'
    <2>1. params'.direction # "None"
        BY <1>2 DEF Direction
    <2> QED BY <2>1 DEF Untouched, NoOrder
<1>6. RequestsOK'
    <2> SUFFICES ASSUME NEW c \in Clients, request[c].stage = "broadcast"
                 PROVE  RequestOK(c)'
        BY <1>2 DEF RequestsOK
    <2>1. RequestOK(c)
        BY DEF Inv, RequestsOK
    <2>2. request[c].tx.txid = 0
        BY <1>1, <2>1 DEF RequestOK
    <2> QED BY <1>1, <1>2, <2>1, <2>2 DEF RequestOK
<1> QED
    BY <1>3, <1>4, <1>5, <1>6 DEF Inv

(* An order that can be spent has parameters. *)
LEMMA OrderHasPrice ==
    ASSUME Inv, order.value > 0
    PROVE  params.direction \in Direction /\ params.price \in Nat \ {0}
BY DEF Inv, TypeOK, Untouched

(* A client that starts to broadcast a harmless transaction. *)
LEMMA PrepareInv ==
    ASSUME Inv, NEW c \in Clients, NEW tx, NEW i, NEW w, Prepare(c, tx, i, w),
           Readable(tx), tx.txid = order.txid, Remainder(tx) <= order.value,
           w.path \in {"Fill", "Cancel"}, w.path = "Fill" => i = 1,
           w.path = "Cancel" => Remainder(tx) = 0
    PROVE  Inv'
<1> DEFINE new == [stage |-> "broadcast", tx |-> tx, i |-> i, w |-> w]
<1>1. /\ params' = params /\ order' = order /\ offered' = offered
      /\ received' = received /\ refunded' = refunded /\ txs' = txs
      /\ request' = [request EXCEPT ![c] = new]
    BY DEF Prepare
<1>2. DOMAIN request = Clients
    BY DEF Inv, TypeOK
<1>3. new.stage = "broadcast" /\ new.tx = tx /\ new.i = i /\ new.w = w
    OBVIOUS
<1> HIDE DEF new
<1>4. /\ request'[c] = new
      /\ \A d \in Clients : d # c => request'[d] = request[d]
      /\ DOMAIN request' = Clients
    BY <1>1, <1>2
<1>5. TypeOK'
    <2>1. \A d \in Clients : request'[d].stage \in {"idle", "broadcast"}
        BY <1>3, <1>4 DEF Inv, TypeOK
    <2> QED BY <1>1, <1>4, <2>1 DEF Inv, TypeOK
<1>6. MakerPaid'
    BY <1>1 DEF Inv, MakerPaid, Consumed
<1>7. Untouched'
    BY <1>1 DEF Inv, Untouched
<1>8. RequestsOK'
    <2> SUFFICES ASSUME NEW d \in Clients, request'[d].stage = "broadcast"
                 PROVE  RequestOK(d)'
        BY DEF RequestsOK
    <2>1. CASE d = c
        <3>1. order.txid \in 0..txs
            BY DEF Inv, TypeOK
        <3> QED BY <1>1, <1>3, <1>4, <2>1, <3>1 DEF RequestOK
    <2>2. CASE d # c
        <3>1. request'[d] = request[d]
            BY <1>4, <2>2
        <3>2. RequestOK(d)
            BY <3>1 DEF Inv, RequestsOK
        <3> QED BY <1>1, <3>1, <3>2 DEF RequestOK
    <2> QED
        BY <2>1, <2>2
<1> QED
    BY <1>5, <1>6, <1>7, <1>8 DEF Inv

(* fill_limit_order. *)
LEMMA FillInv ==
    ASSUME Inv, NEW c \in Clients, NEW lots \in Nat, NEW extra \in Nat,
           NEW feeExtra \in Nat, FillLimitOrder(c, lots, extra, feeExtra)
    PROVE  Inv'
<1> DEFINE f == FillAmounts(params, order.value, lots)
           tx == FillTx(params, order.value, order.txid, lots, extra, feeExtra)
<1>1. Prepare(c, tx, 1, FillWitness)
    BY DEF FillLimitOrder
<1>2. order.value > 0 /\ order.value \in Nat
    BY <1>1 DEF Prepare, Inv, TypeOK
<1>3. params.direction \in Direction /\ params.price \in Nat
    BY <1>2, OrderHasPrice
<1>4. lots * params.price \in Nat
    BY <1>3, Product
<1>5. /\ f.pays \in Nat /\ f.receives \in Int /\ f.is_partial \in BOOLEAN
      /\ f.remainder \in Nat /\ f.remainder <= order.value
    BY <1>2, <1>4 DEF FillAmounts
<1>6. tx = blind_fill(build_fill_order_pset(params, f, order.value, order.txid,
                          f.pays + extra, FeeAmount + feeExtra), f.is_partial)
    BY Zenon DEF FillTx
<1> HIDE DEF f, tx
<1>7. f.pays + extra \in Int /\ FeeAmount + feeExtra \in Int
    BY <1>5, OrderAssumption
<1>8. /\ Readable(tx) /\ tx.txid = order.txid
      /\ Remainder(tx) = IF f.is_partial THEN f.remainder ELSE 0
    BY <1>3, <1>5, <1>6, <1>7, FillShape, SMTT(30)
<1>9. Remainder(tx) <= order.value
    BY <1>2, <1>5, <1>8
<1>10. FillWitness.path = "Fill"
    BY DEF FillWitness
<1> QED
    BY <1>1, <1>8, <1>9, <1>10, PrepareInv

(* A fill built by other software. *)
LEMMA ForeignInv ==
    ASSUME Inv, NEW c \in Clients, NEW pays \in Nat, NEW rem \in Nat,
           ForeignFill(c, pays, rem)
    PROVE  Inv'
<1> DEFINE f == [pays |-> pays, receives |-> order.value - rem,
                 is_partial |-> rem > 0, remainder |-> rem]
           tx == blind_fill(build_fill_order_pset(params, f, order.value, order.txid,
                                pays, FeeAmount), f.is_partial)
<1>1. Prepare(c, tx, 1, FillWitness) /\ rem < order.value
    BY DEF ForeignFill
<1>2. order.value > 0 /\ order.value \in Nat
    BY <1>1 DEF Prepare, Inv, TypeOK
<1>3. params.direction \in Direction
    BY <1>2, OrderHasPrice
<1>4. /\ f.pays \in Nat /\ f.receives \in Int /\ f.is_partial \in BOOLEAN
      /\ f.remainder = rem
    BY <1>2
<1>5. pays \in Int /\ FeeAmount \in Int
    BY OrderAssumption
<1> HIDE DEF f
<1>6. /\ Readable(tx) /\ tx.txid = order.txid
      /\ Remainder(tx) = IF f.is_partial THEN f.remainder ELSE 0
    BY <1>3, <1>4, <1>5, FillShape, SMTT(30)
<1> HIDE DEF tx
<1>7. Remainder(tx) <= order.value
    BY <1>1, <1>2, <1>4, <1>6
<1>8. FillWitness.path = "Fill"
    BY DEF FillWitness
<1> QED
    BY <1>1, <1>6, <1>7, <1>8, PrepareInv

(* cancel_limit_order. *)
LEMMA CancelInv ==
    ASSUME Inv, NEW feeExtra \in Nat, CancelLimitOrder(Maker, feeExtra)
    PROVE  Inv'
<1> DEFINE tx == CancelTx(params, order.value, order.txid, feeExtra)
           w == CancelWitness(Maker, order.txid)
<1>1. Prepare(Maker, tx, 0, w)
    BY DEF CancelLimitOrder
<1>2. order.value > 0 /\ order.value \in Nat
    BY <1>1 DEF Prepare, Inv, TypeOK
<1>3. params.direction \in Direction
    BY <1>2, OrderHasPrice
<1>4. Readable(tx) /\ tx.txid = order.txid /\ Remainder(tx) = 0
    BY <1>2, <1>3, CancelShape
<1>5. w.path = "Cancel"
    BY DEF CancelWitness
<1>6. Maker \in Clients
    BY DEF Clients
<1> HIDE DEF tx, w
<1> QED
    BY <1>1, <1>2, <1>4, <1>5, <1>6, PrepareInv

(* A payment for what leaves the order keeps the maker whole. *)
LEMMA PaymentAdds ==
    ASSUME NEW got \in Nat, NEW gone \in Nat, NEW m \in Nat, NEW d \in Nat,
           NEW k \in Nat
    PROVE  /\ got >= gone * k /\ m >= d * k => got + m >= (gone + d) * k
           /\ got * k >= gone /\ m * k >= d => (got + m) * k >= gone + d
<1>1. (gone + d) * k = gone * k + d * k /\ gone * k \in Nat /\ d * k \in Nat
    BY Product
<1>2. (got + m) * k = got * k + m * k /\ got * k \in Nat /\ m * k \in Nat
    BY Product
<1> QED
    BY <1>1, <1>2

(* A transaction the network accepts: a fill pays for what it takes, a     *)
(* cancellation takes nothing.  Every other request spends what is gone.   *)
LEMMA AcceptedInv ==
    ASSUME Inv, NEW c \in Clients, BroadcastAccepted(c)
    PROVE  Inv'
<1> DEFINE tx == request[c].tx
           m == MakerReceives(tx)
           left == Remainder(tx)
           path == request[c].w.path
           gone == order.value - left
<1>1. /\ order'.txid = txs + 1 /\ order'.value = left
      /\ received' = received + m
      /\ path = "Cancel" => refunded' = refunded + order.value
      /\ path # "Cancel" => refunded' = refunded
      /\ txs' = txs + 1 /\ txs < MaxTxs
      /\ request' = [request EXCEPT ![c] = Idle]
      /\ params' = params /\ offered' = offered
    BY DEF BroadcastAccepted
<1>2. /\ order.value > 0 /\ tx.txid = order.txid
      /\ main(params, order.value, tx, request[c].i, request[c].w)
    BY DEF BroadcastAccepted, NetworkAccepts
<1>3. /\ order.value \in Nat /\ offered \in Nat /\ received \in Nat
      /\ refunded \in Nat /\ txs \in 0..MaxTxs
      /\ DOMAIN request = Clients
    BY DEF Inv, TypeOK
<1>4. params.direction \in Direction /\ params.price \in Nat \ {0}
    BY <1>2, OrderHasPrice
<1>5. RequestOK(c)
    BY DEF BroadcastAccepted, Inv, RequestsOK
<1>6. /\ m \in Nat /\ left \in Nat /\ left <= order.value /\ Readable(tx)
      /\ path \in {"Fill", "Cancel"}
      /\ path = "Fill" => request[c].i = 1
      /\ path = "Cancel" => left = 0
    BY <1>2, <1>5 DEF RequestOK, Readable
<1>7. order.value + refunded <= offered /\ Consumed \in Nat
    BY <1>3 DEF Inv, MakerPaid, Consumed
<1>8. path = "Fill" =>
        /\ params.direction = "SellBase" => m >= gone * params.price
        /\ params.direction = "SellQuote" => m * params.price >= gone
    <2> SUFFICES ASSUME path = "Fill"
                 PROVE  /\ params.direction = "SellBase" => m >= gone * params.price
                        /\ params.direction = "SellQuote" => m * params.price >= gone
        OBVIOUS
    <2>1. /\ 1 < Len(tx.outs) /\ output(tx, 1).script = "MakerReceive"
          /\ params.direction = "SellBase" =>
                validate_sell_base_fill(params, order.value, tx, 1)
          /\ params.direction # "SellBase" =>
                validate_sell_quote_fill(params, order.value, tx, 1)
        BY <1>2, <1>6 DEF main
    <2> HIDE DEF tx
    <2>2. ASSUME params.direction = "SellBase" PROVE m >= gone * params.price
        BY <1>3, <1>4, <1>6, <2>1, <2>2, SellBaseFillPays
    <2>3. ASSUME params.direction = "SellQuote" PROVE m * params.price >= gone
        BY <1>3, <1>4, <1>6, <2>1, <2>3, SellQuoteFillPays
    <2> QED
        BY <2>2, <2>3
<1> HIDE DEF tx, m, left, path
<1>9. MakerPaid'
    <2>1. CASE path = "Fill"
        <3>1. Consumed' = Consumed + gone /\ gone \in Nat
            BY <1>1, <1>3, <1>6, <1>7, <2>1 DEF Consumed
        <3>2. order'.value + refunded' <= offered'
            BY <1>1, <1>3, <1>6, <1>7, <2>1
        <3> HIDE DEF gone
        <3>3. params'.direction = "SellBase" => received' >= Consumed' * params'.price
            BY <1>1, <1>3, <1>4, <1>6, <1>7, <1>8, <2>1, <3>1, PaymentAdds
               DEF Inv, MakerPaid
        <3>4. params'.direction = "SellQuote" => received' * params'.price >= Consumed'
            BY <1>1, <1>3, <1>4, <1>6, <1>7, <1>8, <2>1, <3>1, PaymentAdds
               DEF Inv, MakerPaid
        <3> QED
            BY <3>2, <3>3, <3>4 DEF MakerPaid
    <2>2. CASE path = "Cancel"
        <3>1. Consumed' = Consumed
            BY <1>1, <1>3, <1>6, <1>7, <2>2 DEF Consumed
        <3>2. order'.value + refunded' <= offered'
            BY <1>1, <1>3, <1>6, <1>7, <2>2
        <3>3. params'.direction = "SellBase" => received' >= Consumed' * params'.price
            <4>1. Consumed * params.price \in Nat
                BY <1>4, <1>7, Product
            <4> QED BY <1>1, <1>3, <1>6, <3>1, <4>1 DEF Inv, MakerPaid
        <3>4. params'.direction = "SellQuote" => received' * params'.price >= Consumed'
            <4>1. /\ (received + m) * params.price =
                        received * params.price + m * params.price
                  /\ received * params.price \in Nat /\ m * params.price \in Nat
                BY <1>3, <1>4, <1>6, Product
            <4> QED BY <1>1, <1>7, <3>1, <4>1 DEF Inv, MakerPaid
        <3> QED
            BY <3>2, <3>3, <3>4 DEF MakerPaid
    <2> QED
        BY <1>6, <2>1, <2>2
<1>10. /\ request'[c] = Idle
       /\ \A d \in Clients : d # c => request'[d] = request[d]
       /\ DOMAIN request' = Clients
    BY <1>1, <1>3
<1>11. TypeOK'
    <2>1. \A d \in Clients : request'[d].stage \in {"idle", "broadcast"}
        BY <1>10 DEF Inv, TypeOK, Idle
    <2>2. received' \in Nat /\ refunded' \in Nat /\ order'.value \in Nat
        BY <1>1, <1>3, <1>6
    <2>3. order'.txid \in 0..txs' /\ txs' \in 0..MaxTxs
        BY <1>1, <1>3, OrderAssumption
    <2> QED BY <1>1, <1>3, <1>4, <1>10, <2>1, <2>2, <2>3 DEF TypeOK
<1>12. Untouched'
    BY <1>1, <1>4 DEF Untouched, NoOrder, Direction
<1>13. RequestsOK'
    <2> SUFFICES ASSUME NEW d \in Clients, request'[d].stage = "broadcast"
                 PROVE  RequestOK(d)'
        BY DEF RequestsOK
    <2>1. d # c
        BY <1>10 DEF Idle
    <2>2. request'[d] = request[d]
        BY <1>10, <2>1
    <2>3. RequestOK(d)
        BY <2>2 DEF Inv, RequestsOK
    <2>4. request'[d].tx.txid # order'.txid
        BY <1>1, <1>3, <2>2, <2>3 DEF RequestOK
    <2> QED BY <1>1, <1>3, <2>2, <2>3, <2>4 DEF RequestOK
<1> QED
    BY <1>9, <1>11, <1>12, <1>13 DEF Inv

(* A rejected broadcast changes nothing but the request. *)
LEMMA RejectedInv ==
    ASSUME Inv, NEW c \in Clients, BroadcastRejected(c)
    PROVE  Inv'
<1>1. /\ params' = params /\ order' = order /\ offered' = offered
      /\ received' = received /\ refunded' = refunded /\ txs' = txs
      /\ request' = [request EXCEPT ![c] = Idle]
    BY DEF BroadcastRejected
<1>2. DOMAIN request = Clients
    BY DEF Inv, TypeOK
<1>3. /\ request'[c].stage = "idle"
      /\ \A d \in Clients : d # c => request'[d] = request[d]
      /\ DOMAIN request' = Clients
    BY <1>1, <1>2 DEF Idle
<1>4. TypeOK'
    <2>1. \A d \in Clients : request'[d].stage \in {"idle", "broadcast"}
        BY <1>3 DEF Inv, TypeOK
    <2> QED BY <1>1, <1>3, <2>1 DEF Inv, TypeOK
<1>5. MakerPaid' /\ Untouched'
    BY <1>1 DEF Inv, MakerPaid, Consumed, Untouched
<1>6. RequestsOK'
    <2> SUFFICES ASSUME NEW d \in Clients, request'[d].stage = "broadcast"
                 PROVE  RequestOK(d)'
        BY DEF RequestsOK
    <2>1. request'[d] = request[d]
        BY <1>3
    <2>2. RequestOK(d)
        BY <2>1 DEF Inv, RequestsOK
    <2> QED BY <1>1, <2>1, <2>2 DEF RequestOK
<1> QED
    BY <1>4, <1>5, <1>6 DEF Inv

-----------------------------------------------------------------------------
(* Every step preserves the invariant. *)
LEMMA NextInv == Inv /\ [Next]_vars => Inv'
<1> SUFFICES ASSUME Inv, [Next]_vars PROVE Inv'
    OBVIOUS
<1>1. CASE Create
    BY <1>1, CreateInv, OrderAssumption DEF Create
<1>2. CASE Fill
    <2>1. Surplus \subseteq Nat /\ U64Max \in Nat /\ MaxAmount \in Nat
        BY OrderAssumption
    <2>2. ASSUME NEW c \in Takers, NEW lots \in 0..MaxAmount, NEW extra \in Surplus,
                 NEW feeExtra \in Surplus, FillLimitOrder(c, lots, extra, feeExtra)
          PROVE  Inv'
        BY <2>1, <2>2, FillInv DEF Clients
    <2>3. ASSUME NEW c \in ForeignTakers, NEW pays \in 1..U64Max,
                 NEW rem \in 0..MaxAmount, ForeignFill(c, pays, rem)
          PROVE  Inv'
        BY <2>1, <2>3, ForeignInv DEF Clients
    <2> QED
        BY <1>2, <2>2, <2>3 DEF Fill
<1>3. CASE Cancel
    BY <1>3, CancelInv, OrderAssumption DEF Cancel
<1>4. CASE Broadcast
    BY <1>4, AcceptedInv, RejectedInv DEF Broadcast
<1>5. CASE UNCHANGED vars
    BY <1>5 DEF vars, Inv, TypeOK, MakerPaid, Consumed, Untouched, RequestsOK,
                RequestOK
<1> QED
    BY <1>1, <1>2, <1>3, <1>4, <1>5 DEF Next

(* The type invariant holds for every value of the constants; in           *)
(* particular an order on the chain always has a positive price.           *)
THEOREM TypeCorrect == Spec => []TypeOK
<1>1. Inv => TypeOK
    BY DEF Inv
<1> QED
    BY InitInv, NextInv, <1>1, PTL DEF Spec

(* For every price, minimum, amount width and number of takers, whatever   *)
(* fills of the SDK or of other software, stale or fresh, and whatever     *)
(* cancellation reach the chain: the maker has been paid the price of      *)
(* every lot that left the order, and the rest is there or came back.      *)
THEOREM MakerIsPaid == Spec => []MakerPaid
<1>1. Inv => MakerPaid
    BY DEF Inv
<1> QED
    BY InitInv, NextInv, <1>1, PTL DEF Spec

-----------------------------------------------------------------------------
(* The store's view of the order.  PartialMeansPaid is not inductive: what *)
(* a commit derives comes from rows collected over many syncs, so the rows *)
(* themselves must be tied to the chain.  Only the creating transaction    *)
(* can leave an order nobody has paid for, and it is the first, hence a    *)
(* later txid among the rows means a payment; and what is marked spent     *)
(* never comes back to life, since txids are fresh.                        *)

(* Txids of the order that the store has rows for, of which some are       *)
(* spent, when the chain holds top transactions, the maker received got    *)
(* and the outputs live are unspent.                                       *)
RowsOK(known, spent, top, got, live) ==
    /\ spent \subseteq known
    /\ known \subseteq 1..top
    /\ \A txid \in known : txid > 1 => got > 0
    /\ \A txid \in spent : txid \notin live

(* The chain as the store depends on it. *)
OrderOK ==
    /\ order.txid = txs
    /\ order.value > 0 => txs > 0
    /\ order.value > 0 /\ txs > 1 => received > 0

Syncs == [stage : {"idle", "orders", "spent"}, known : SUBSET Nat,
          spent : SUBSET Nat, todo : SUBSET Nat, since : Nat]

(* A sync in progress.  While no transaction lands, what it has asked      *)
(* about is as it was answered.                                            *)
SyncOK ==
    /\ sync \in Syncs
    /\ RowsOK(sync.known, sync.spent, txs, received, list_unspent)
    /\ sync.todo \subseteq sync.known \ sync.spent
    /\ sync.since <= txs
    /\ (ingested /\ sync.stage = "spent" /\ sync.since = txs) =>
          /\ list_unspent \subseteq sync.known
          /\ \A txid \in sync.known \ sync.todo : is_spent(txid) => txid \in sync.spent

StoreInv ==
    /\ Inv
    /\ OrderOK
    /\ details \in {"nowhere", "creation", "announced"}
    /\ ingested \in BOOLEAN
    /\ status \in OrderStatus
    /\ RowsOK(rows.known, rows.spent, txs, received, list_unspent)
    /\ SyncOK
    /\ status = "PartiallyFilled" => received > 0

(* Initially there is no order and no row. *)
LEMMA StoreInitInv == StoreInit => StoreInv
<1> SUFFICES ASSUME StoreInit PROVE StoreInv
    OBVIOUS
<1>1. Inv
    BY InitInv DEF StoreInit
<1>2. txs = 0 /\ order.txid = 0 /\ order.value = 0
    BY DEF StoreInit, Init
<1>3. OrderOK
    BY <1>2 DEF OrderOK
<1>4. RowsOK({}, {}, txs, received, list_unspent)
    BY DEF RowsOK
<1>5. SyncOK
    BY <1>2, <1>4 DEF StoreInit, SyncOK, Syncs, NoSync
<1> QED
    BY <1>1, <1>3, <1>4, <1>5 DEF StoreInit, StoreInv, OrderStatus

(* A fill that lands pays the maker: the network accepts no empty output. *)
LEMMA LandedFillPays ==
    ASSUME Inv, NEW c \in Clients, BroadcastAccepted(c), order'.value > 0
    PROVE  received' > 0
<1> DEFINE tx == request[c].tx
<1>1. RequestOK(c)
    BY DEF BroadcastAccepted, Inv, RequestsOK
<1>2. request[c].w.path = "Fill" /\ request[c].i = 1
    <2>1. order'.value = Remainder(tx)
        BY DEF BroadcastAccepted
    <2> QED BY <1>1, <2>1 DEF RequestOK
<1>3. 1 < Len(tx.outs) /\ output(tx, 1).script = "MakerReceive"
    BY <1>2 DEF BroadcastAccepted, NetworkAccepts, main
<1>4. Len(tx.outs) \in Nat /\ DOMAIN tx.outs = 1..Len(tx.outs) /\ MakerReceives(tx) \in Nat
    BY <1>1 DEF RequestOK, Readable
<1>5. tx.outs[2].amount > 0
    <2>1. \A k \in DOMAIN tx.outs : tx.outs[k].amount > 0
        BY DEF BroadcastAccepted, NetworkAccepts
    <2>2. 2 \in DOMAIN tx.outs
        BY <1>3, <1>4
    <2> QED BY <2>1, <2>2
<1>6. MakerReceives(tx) > 0
    BY <1>3, <1>4, <1>5 DEF MakerReceives, output
<1>7. received' = received + MakerReceives(tx) /\ received \in Nat
    BY DEF BroadcastAccepted, Inv, TypeOK
<1> QED
    BY <1>4, <1>6, <1>7

Moves ==
    /\ received' \in Nat /\ received' >= received
    /\ \/ order' = order /\ txs' = txs
       \/ txs' = txs + 1 /\ order'.txid = txs + 1

(* The order moves only when a transaction lands, under a fresh txid, and  *)
(* what the maker received is never taken back.                            *)
LEMMA OrderMoves ==
    ASSUME Inv, OrderOK, [Next]_vars
    PROVE  Moves /\ OrderOK'
<1>1. txs \in Nat /\ received \in Nat
    BY OrderAssumption DEF Inv, TypeOK
<1>2. CASE Create
    <2>1. PICK direction \in Direction, price \in Prices, amount \in 1..MaxAmount :
              CreateLimitOrder(direction, price, amount)
        BY <1>2, Zenon DEF Create
    <2>2. txs = 0
        BY <2>1 DEF CreateLimitOrder, Inv, Untouched
    <2> QED
        BY <1>1, <2>1, <2>2 DEF CreateLimitOrder, Moves, OrderOK
<1>3. CASE Fill \/ Cancel
    <2>1. order' = order /\ txs' = txs /\ received' = received
        BY <1>3, Zenon DEF Fill, Cancel, FillLimitOrder, ForeignFill, CancelLimitOrder, Prepare
    <2> QED
        BY <1>1, <2>1 DEF Moves, OrderOK
<1>4. CASE \E c \in Clients : BroadcastAccepted(c)
    <2>1. PICK c \in Clients : BroadcastAccepted(c)
        BY <1>4
    <2>2. order'.value > 0 => received' > 0
        BY <2>1, LandedFillPays
    <2>3. received' \in Nat /\ received' >= received
        <3>1. MakerReceives(request[c].tx) \in Nat
            BY <2>1 DEF BroadcastAccepted, Inv, RequestsOK, RequestOK, Readable
        <3> QED BY <1>1, <2>1, <3>1 DEF BroadcastAccepted
    <2>4. txs' = txs + 1 /\ order'.txid = txs + 1
        BY <2>1 DEF BroadcastAccepted
    <2> QED
        BY <1>1, <2>2, <2>3, <2>4 DEF Moves, OrderOK
<1>5. CASE \E c \in Clients : BroadcastRejected(c)
    BY <1>1, <1>5 DEF BroadcastRejected, Moves, OrderOK
<1>6. CASE UNCHANGED vars
    BY <1>1, <1>6 DEF vars, Moves, OrderOK
<1> QED
    BY <1>2, <1>3, <1>4, <1>5, <1>6 DEF Next, Broadcast

(* Rows stay right when the order moves: the new output has a new txid. *)
LEMMA RowsKept ==
    ASSUME NEW top \in Nat, NEW top2, NEW got \in Nat, NEW got2 \in Nat, got2 >= got,
           NEW live, NEW live2,
           \/ top2 = top /\ live2 = live
           \/ top2 = top + 1 /\ live2 \subseteq {top + 1},
           NEW known, NEW spent, RowsOK(known, spent, top, got, live)
    PROVE  RowsOK(known, spent, top2, got2, live2)
<1>1. known \subseteq 1..top2
    BY DEF RowsOK
<1>2. \A txid \in spent : txid \notin live2
    BY DEF RowsOK
<1>3. \A txid \in known : txid > 1 => got2 > 0
    BY DEF RowsOK
<1> QED
    BY <1>1, <1>2, <1>3 DEF RowsOK

(* Moves of the chain keep the store's part, whoever holds the details. *)
LEMMA ChainStoreInv ==
    ASSUME StoreInv, [Next]_vars, UNCHANGED <<ingested, rows, status, sync>>,
           details' \in {"nowhere", "creation", "announced"}
    PROVE  StoreInv'
<1>1. Inv' /\ OrderOK' /\ Moves
    BY NextInv, OrderMoves DEF StoreInv
<1>2. txs \in Nat /\ received \in Nat /\ received' \in Nat /\ received' >= received
    BY <1>1, OrderAssumption DEF StoreInv, Inv, TypeOK, Moves
<1>3. \/ txs' = txs /\ list_unspent' = list_unspent
      \/ txs' = txs + 1 /\ list_unspent' \subseteq {txs + 1}
    BY <1>1 DEF Moves, list_unspent
<1>4. /\ RowsOK(rows.known, rows.spent, txs', received', list_unspent')
      /\ RowsOK(sync.known, sync.spent, txs', received', list_unspent')
    BY <1>2, <1>3, RowsKept DEF StoreInv, SyncOK
<1>5. sync.since \in Nat /\ sync.since <= txs
    BY DEF StoreInv, SyncOK, Syncs
<1>6. SyncOK'
    <2>1. sync.since <= txs' /\ (sync.since = txs' => list_unspent' = list_unspent /\ txs' = txs)
        BY <1>2, <1>3, <1>5
    <2>2. (ingested /\ sync.stage = "spent" /\ sync.since = txs') =>
              /\ list_unspent' \subseteq sync.known
              /\ \A txid \in sync.known \ sync.todo :
                     txid \notin list_unspent' => txid \in sync.spent
        BY <2>1 DEF StoreInv, SyncOK, is_spent
    <2> QED
        BY <1>4, <2>1, <2>2 DEF StoreInv, SyncOK, is_spent
<1> QED
    BY <1>1, <1>2, <1>4, <1>6 DEF StoreInv

(* What the steps of the store leave alone. *)
LEMMA StoreLeavesChain ==
    ASSUME StoreInv, UNCHANGED vars
    PROVE  /\ Inv' /\ OrderOK'
           /\ txs' = txs /\ received' = received /\ list_unspent' = list_unspent
           /\ txs \in Nat /\ received \in Nat
<1>1. Inv' /\ OrderOK'
    BY NextInv, OrderMoves DEF StoreInv
<1> QED
    BY <1>1, OrderAssumption DEF vars, list_unspent, StoreInv, Inv, TypeOK

(* ingest_maker_order runs between syncs. *)
LEMMA IngestInv == ASSUME StoreInv, IngestMakerOrder PROVE StoreInv'
<1>1. UNCHANGED vars /\ UNCHANGED <<details, rows, status, sync>> /\ ingested' = TRUE /\ sync = NoSync
    BY DEF IngestMakerOrder
<1>2. Inv' /\ OrderOK' /\ txs' = txs /\ received' = received /\ list_unspent' = list_unspent
    BY <1>1, StoreLeavesChain
<1>3. sync.stage = "idle"
    BY <1>1 DEF NoSync
<1>4. SyncOK'
    BY <1>1, <1>2, <1>3 DEF StoreInv, SyncOK
<1> QED
    BY <1>1, <1>2, <1>4 DEF StoreInv

(* A sync begins from the committed rows. *)
LEMMA SyncStartInv == ASSUME StoreInv, SyncStart PROVE StoreInv'
<1>1. /\ UNCHANGED vars /\ UNCHANGED <<details, ingested, rows, status>>
      /\ sync' = [stage |-> "orders", known |-> rows.known, spent |-> rows.spent,
                  todo |-> {}, since |-> txs]
    BY DEF SyncStart
<1>2. /\ Inv' /\ OrderOK' /\ txs' = txs /\ received' = received
      /\ list_unspent' = list_unspent /\ txs \in Nat
    BY <1>1, StoreLeavesChain
<1>3. /\ sync'.stage = "orders" /\ sync'.known = rows.known /\ sync'.spent = rows.spent
      /\ sync'.todo = {} /\ sync'.since = txs
    BY <1>1
<1>4. rows.known \subseteq Nat /\ rows.spent \subseteq Nat
    BY <1>2 DEF StoreInv, RowsOK
<1>5. sync' \in Syncs
    BY <1>1, <1>2, <1>4 DEF Syncs
<1>6. SyncOK'
    BY <1>2, <1>3, <1>5 DEF StoreInv, SyncOK
<1> QED
    BY <1>1, <1>2, <1>6 DEF StoreInv

(* The address is listed: the live output, if any, becomes a row. *)
LEMMA ListInv == ASSUME StoreInv, sync_order_utxos PROVE StoreInv'
<1> DEFINE known == IF ingested THEN sync.known \cup list_unspent ELSE sync.known
<1>1. /\ UNCHANGED vars /\ UNCHANGED <<details, ingested, rows, status>>
      /\ sync' = [sync EXCEPT !.stage = "spent", !.known = known,
                              !.todo = known \ sync.spent]
    BY DEF sync_order_utxos
<1>2. /\ Inv' /\ OrderOK' /\ txs' = txs /\ received' = received
      /\ list_unspent' = list_unspent /\ txs \in Nat
    BY <1>1, StoreLeavesChain
<1>3. sync \in Syncs /\ sync.since <= txs
    BY DEF StoreInv, SyncOK
<1>4. RowsOK(known, sync.spent, txs, received, list_unspent)
    <2>1. \A txid \in list_unspent : txid \in 1..txs /\ (txid > 1 => received > 0)
        BY <1>2 DEF StoreInv, OrderOK, list_unspent
    <2> QED
        BY <2>1 DEF StoreInv, SyncOK, RowsOK
<1>5. known \subseteq Nat
    BY <1>2, <1>4 DEF RowsOK
<1>6. ingested => list_unspent \subseteq known
    OBVIOUS
<1> HIDE DEF known
<1>7. /\ sync'.stage = "spent" /\ sync'.known = known /\ sync'.spent = sync.spent
      /\ sync'.todo = known \ sync.spent /\ sync'.since = sync.since
      /\ sync' \in Syncs
    BY <1>1, <1>3, <1>5 DEF Syncs
<1>8. SyncOK'
    BY <1>1, <1>2, <1>3, <1>4, <1>6, <1>7 DEF SyncOK
<1> QED
    BY <1>1, <1>2, <1>8 DEF StoreInv

(* One row is asked about. *)
LEMMA AskInv == ASSUME StoreInv, NEW t, sync_spent_utxos(t) PROVE StoreInv'
<1> DEFINE spent == IF is_spent(t) THEN sync.spent \cup {t} ELSE sync.spent
<1>1. /\ UNCHANGED vars /\ UNCHANGED <<details, ingested, rows, status>>
      /\ sync' = [sync EXCEPT !.todo = sync.todo \ {t}, !.spent = spent]
      /\ t \in sync.todo
    BY DEF sync_spent_utxos
<1>2. /\ Inv' /\ OrderOK' /\ txs' = txs /\ received' = received
      /\ list_unspent' = list_unspent /\ txs \in Nat
    BY <1>1, StoreLeavesChain
<1>3. sync \in Syncs /\ sync.since <= txs /\ sync.todo \subseteq sync.known \ sync.spent
    BY DEF StoreInv, SyncOK
<1>4. RowsOK(sync.known, spent, txs, received, list_unspent)
    BY <1>1, <1>3 DEF StoreInv, SyncOK, RowsOK, is_spent
<1>5. /\ spent \subseteq sync.spent \cup {t} /\ sync.spent \subseteq spent
      /\ is_spent(t) => t \in spent
      /\ sync.todo \ {t} \subseteq sync.known \ spent
    BY <1>3
<1>6. spent \subseteq Nat
    BY <1>1, <1>3, <1>5 DEF Syncs
<1> HIDE DEF spent
<1>7. /\ sync'.stage = sync.stage /\ sync'.known = sync.known /\ sync'.spent = spent
      /\ sync'.todo = sync.todo \ {t} /\ sync'.since = sync.since
      /\ sync' \in Syncs
    BY <1>1, <1>3, <1>6 DEF Syncs
<1>8. SyncOK'
    <2>1. (ingested /\ sync.stage = "spent" /\ sync.since = txs) =>
              /\ list_unspent \subseteq sync.known
              /\ \A txid \in sync.known \ (sync.todo \ {t}) :
                     txid \notin list_unspent => txid \in spent
        BY <1>5 DEF StoreInv, SyncOK, is_spent
    <2> QED
        BY <1>1, <1>2, <1>3, <1>4, <1>5, <1>7, <2>1 DEF SyncOK, is_spent
<1> QED
    BY <1>1, <1>2, <1>8 DEF StoreInv

(* Only an order with two rows is derived to be partially filled, and one  *)
(* of two rows is not the first transaction.                               *)
LEMMA PartialIsPaid ==
    ASSUME NEW known, NEW spent, NEW top, NEW got, NEW live,
           RowsOK(known, spent, top, got, live), top \in Nat,
           derive_order_statuses(known, spent) = "PartiallyFilled"
    PROVE  got > 0
<1>1. PICK a \in known, b \in known : a # b
    <2>1. spent # {} /\ known \ spent # {}
        BY DEF derive_order_statuses
    <2>2. spent \subseteq known
        BY DEF RowsOK
    <2> QED BY <2>1, <2>2
<1>2. a \in 1..top /\ b \in 1..top
    BY DEF RowsOK
<1>3. a > 1 \/ b > 1
    BY <1>1, <1>2
<1> QED
    BY <1>3 DEF RowsOK

(* Whatever the rows, a status is derived. *)
LEMMA DerivesStatus ==
    ASSUME NEW known, NEW spent, spent \subseteq known
    PROVE  derive_order_statuses(known, spent) \in OrderStatus
BY DEF derive_order_statuses, OrderStatus

(* No sync is in progress. *)
LEMMA NoSyncOK ==
    ASSUME StoreInv, UNCHANGED vars, sync' = NoSync
    PROVE  SyncOK'
<1>1. txs' = txs /\ txs \in Nat
    BY StoreLeavesChain
<1>2. /\ NoSync.stage = "idle" /\ NoSync.known = {} /\ NoSync.spent = {}
      /\ NoSync.todo = {} /\ NoSync.since = 0 /\ NoSync \in Syncs
    BY DEF NoSync, Syncs
<1>3. RowsOK({}, {}, txs', received', list_unspent')
    BY DEF RowsOK
<1> QED
    BY <1>1, <1>2, <1>3 DEF SyncOK

(* The commit writes the rows and derives the status from them. *)
LEMMA CommitInv == ASSUME StoreInv, SyncCommit PROVE StoreInv'
<1>1. /\ UNCHANGED vars /\ UNCHANGED <<details, ingested>> /\ sync' = NoSync
      /\ rows' = [known |-> sync.known, spent |-> sync.spent]
      /\ status' = IF ingested THEN derive_order_statuses(sync.known, sync.spent)
                               ELSE status
    BY DEF SyncCommit
<1>2. /\ Inv' /\ OrderOK' /\ txs' = txs /\ received' = received
      /\ list_unspent' = list_unspent /\ txs \in Nat
    BY <1>1, StoreLeavesChain
<1>3. SyncOK'
    BY <1>1, NoSyncOK
<1>4. RowsOK(sync.known, sync.spent, txs, received, list_unspent)
    BY DEF StoreInv, SyncOK
<1>5. rows'.known = sync.known /\ rows'.spent = sync.spent
    BY <1>1
<1>6. status' \in OrderStatus
    <2>1. sync.spent \subseteq sync.known
        BY <1>4 DEF RowsOK
    <2>2. derive_order_statuses(sync.known, sync.spent) \in OrderStatus
        BY <2>1, DerivesStatus
    <2> QED BY <1>1, <2>2 DEF StoreInv
<1>7. status' = "PartiallyFilled" => received > 0
    <2>1. derive_order_statuses(sync.known, sync.spent) = "PartiallyFilled" => received > 0
        BY <1>2, <1>4, PartialIsPaid
    <2> QED BY <1>1, <2>1 DEF StoreInv
<1> QED
    BY <1>1, <1>2, <1>3, <1>4, <1>5, <1>6, <1>7 DEF StoreInv

(* A failed sync leaves no trace. *)
LEMMA SyncFailsInv == ASSUME StoreInv, SyncFails PROVE StoreInv'
<1>1. UNCHANGED vars /\ UNCHANGED <<details, ingested, rows, status>> /\ sync' = NoSync
    BY DEF SyncFails
<1>2. /\ Inv' /\ OrderOK' /\ txs' = txs /\ received' = received
      /\ list_unspent' = list_unspent
    BY <1>1, StoreLeavesChain
<1>3. SyncOK'
    BY <1>1, NoSyncOK
<1> QED
    BY <1>1, <1>2, <1>3 DEF StoreInv

(* Every step of the order and of the store preserves the invariant. *)
LEMMA StoreNextInv == StoreInv /\ [OrderNext \/ StoreNext]_allVars => StoreInv'
<1> SUFFICES ASSUME StoreInv, [OrderNext \/ StoreNext]_allVars PROVE StoreInv'
    OBVIOUS
<1>0. details \in {"nowhere", "creation", "announced"}
    BY DEF StoreInv
<1>1. CASE CreateOnChain
    BY <1>1, ChainStoreInv DEF CreateOnChain, Next
<1>2. CASE AnnounceOrder
    BY <1>2, ChainStoreInv DEF AnnounceOrder
<1>3. CASE CreationFails
    BY <1>3, ChainStoreInv DEF CreationFails
<1>4. CASE UseOrder
    BY <1>0, <1>4, ChainStoreInv DEF UseOrder, Next, storeVars
<1>5. CASE Broadcast /\ UNCHANGED storeVars
    BY <1>0, <1>5, ChainStoreInv DEF Next, storeVars
<1>6. CASE StoreNext
    BY <1>6, IngestInv, SyncStartInv, ListInv, AskInv, CommitInv, SyncFailsInv
       DEF StoreNext
<1>7. CASE UNCHANGED allVars
    BY <1>0, <1>7, ChainStoreInv DEF allVars, storeVars
<1> QED
    BY <1>1, <1>2, <1>3, <1>4, <1>5, <1>6, <1>7 DEF OrderNext

(* For every price, width and number of takers, and however fills,         *)
(* cancellation, ingestion and the single queries of a sync interleave:    *)
(* the store calls an order partially filled only if its maker was paid.   *)
THEOREM PartialFillsArePaid == StoreSpec => []PartialMeansPaid
<1>1. StoreInv => PartialMeansPaid
    BY DEF StoreInv, PartialMeansPaid, StoreTypeOK, SyncOK, Syncs, RowsOK
<1> QED
    BY StoreInitInv, StoreNextInv, <1>1, PTL DEF StoreSpec

(* Being stored costs the order nothing: its maker is still paid. *)
THEOREM StoredMakerIsPaid == StoreSpec => []MakerPaid
<1>1. StoreInv => MakerPaid
    BY DEF StoreInv, Inv
<1> QED
    BY StoreInitInv, StoreNextInv, <1>1, PTL DEF StoreSpec

(* A sync during which no transaction landed commits a status that tells   *)
(* whether the order can still be filled, whatever was missed before.      *)
THEOREM StatusIsTrue == StoreSpec => StatusFollowsChain
<1>1. ASSUME StoreInv, [OrderNext \/ StoreNext]_allVars
      PROVE  [CommitsTruth]_allVars
    <2> SUFFICES ASSUME OrderNext \/ StoreNext, ingested, sync.stage = "spent",
                        rows' # rows, sync' = NoSync, sync.since = txs
                 PROVE  status' \in Open <=> order.value > 0
        BY <1>1 DEF CommitsTruth
    <2>1. SyncCommit
        BY DEF OrderNext, StoreNext, CreateOnChain, AnnounceOrder, CreationFails,
               UseOrder, storeVars, IngestMakerOrder, SyncStart, sync_order_utxos,
               sync_spent_utxos, SyncFails
    <2>2. sync.todo = {} /\ status' = derive_order_statuses(sync.known, sync.spent)
        BY <2>1 DEF SyncCommit
    <2>3. sync.known \ sync.spent = list_unspent
        BY <1>1, <2>2 DEF StoreInv, SyncOK, RowsOK, is_spent
    <2>4. sync.spent \subseteq sync.known
        BY <1>1 DEF StoreInv, SyncOK, RowsOK
    <2>5. CASE order.value > 0
        <3>1. sync.known \ sync.spent # {}
            BY <2>3, <2>5 DEF list_unspent
        <3> QED BY <2>2, <2>5, <3>1 DEF derive_order_statuses, Open
    <2>6. CASE ~(order.value > 0)
        <3>1. sync.known \ sync.spent = {}
            BY <2>3, <2>6 DEF list_unspent
        <3> QED BY <2>2, <2>4, <2>6, <3>1 DEF derive_order_statuses, Open
    <2> QED
        BY <2>5, <2>6
<1> QED
    BY StoreInitInv, StoreNextInv, <1>1, PTL DEF StoreSpec, StatusFollowsChain

-----------------------------------------------------------------------------
(* Builders and covenant agree.  First, what a transaction's inputs and     *)
(* outputs add up to.                                                       *)

Worth(e, asset) == IF e.asset = asset THEN e.amount ELSE 0

(* Sum as the sum of a function over positions. *)
LEMMA SumIsWorth ==
    ASSUME NEW s, NEW asset
    PROVE  Sum(s, asset) = SumFunctionOnSet([k \in DOMAIN s |-> Worth(s[k], asset)], DOMAIN s)
<1>1. DOMAIN [k \in DOMAIN s |-> Worth(s[k], asset)] = DOMAIN s
    OBVIOUS
<1> QED
    BY <1>1, Zenon DEF Sum, SumFunction, Worth

(* One more coin adds what it is worth. *)
LEMMA SumAppend ==
    ASSUME NEW T, NEW s \in Seq(T), NEW e \in T, NEW asset,
           \A x \in T : Worth(x, asset) \in Int
    PROVE  Sum(s \o <<e>>, asset) = Sum(s, asset) + Worth(e, asset)
<1> DEFINE t == s \o <<e>>
           n == Len(s)
           f == [k \in DOMAIN s |-> Worth(s[k], asset)]
           g == [k \in DOMAIN t |-> Worth(t[k], asset)]
<1>1. /\ t \in Seq(T) /\ Len(t) = n + 1 /\ n \in Nat
      /\ \A k \in 1..n : t[k] = s[k]
      /\ t[n + 1] = e
      /\ DOMAIN s = 1..n /\ DOMAIN t = 1..n + 1
    OBVIOUS
<1>2. \A k \in 1..n + 1 : t[k] \in T
    BY <1>1
<1> HIDE DEF t, n
<1>3. /\ \A k \in 1..n + 1 : g[k] = Worth(t[k], asset) /\ g[k] \in Int
      /\ \A k \in 1..n : f[k] = Worth(s[k], asset)
    BY <1>1, <1>2
<1>4. \A k \in 1..n : k \in 1..n + 1
    BY <1>1
<1>5. (\A k \in 1..n : f[k] = g[k]) /\ g[n + 1] = Worth(e, asset)
    <2>1. n + 1 \in 1..n + 1
        BY <1>1
    <2> QED BY <1>1, <1>3, <1>4, <2>1
<1>6. Sum(s, asset) = SumFunctionOnSet(f, 1..n) /\ Sum(t, asset) = SumFunctionOnSet(g, 1..n + 1)
    BY <1>1, SumIsWorth
<1> HIDE DEF f, g
<1>7. IsFiniteSet(1..n)
    BY <1>1, FS_Interval
<1>8. SumFunctionOnSet(f, 1..n) = SumFunctionOnSet(g, 1..n)
    BY <1>5, <1>7, SumAgree
<1>9. SumFunctionOnSet(g, 1..n + 1) = SumFunctionOnSet(g, 1..n) + g[n + 1]
    BY <1>1, <1>3, SumUpTo
<1> QED
    BY <1>5, <1>6, <1>8, <1>9 DEF t

(* No coins are worth nothing. *)
LEMMA SumNothing ==
    ASSUME NEW asset
    PROVE  Sum(<<>>, asset) = 0
<1>1. DOMAIN <<>> = {}
    OBVIOUS
<1> QED
    BY <1>1, SumIsWorth, SumEmpty

(* Outputs of positive amounts that add up to so much of either asset. *)
Pays(s, base, quote) ==
    /\ s \in Seq(TxOuts)
    /\ Sum(s, "BASE") = base /\ Sum(s, "QUOTE") = quote
    /\ \A k \in 1..Len(s) : s[k].amount > 0

(* Another output. *)
LEMMA PaysAppend ==
    ASSUME NEW s, NEW base \in Int, NEW quote \in Int, Pays(s, base, quote),
           NEW e \in TxOuts, e.amount > 0
    PROVE  Pays(s \o <<e>>, base + Worth(e, "BASE"), quote + Worth(e, "QUOTE"))
<1> DEFINE t == s \o <<e>>
<1>1. s \in Seq(TxOuts)
    BY DEF Pays
<1>2. \A x \in TxOuts : Worth(x, "BASE") \in Int /\ Worth(x, "QUOTE") \in Int
    BY DEF TxOuts, Worth
<1>3. Sum(t, "BASE") = Sum(s, "BASE") + Worth(e, "BASE")
    BY <1>1, <1>2, SumAppend
<1>4. Sum(t, "QUOTE") = Sum(s, "QUOTE") + Worth(e, "QUOTE")
    BY <1>1, <1>2, SumAppend
<1>5. /\ t \in Seq(TxOuts) /\ Len(t) = Len(s) + 1 /\ Len(s) \in Nat
      /\ \A k \in 1..Len(s) : t[k] = s[k]
      /\ t[Len(s) + 1] = e
    BY <1>1
<1> HIDE DEF t
<1>6. \A k \in 1..Len(t) : t[k].amount > 0
    <2> SUFFICES ASSUME NEW k \in 1..Len(t) PROVE t[k].amount > 0
        OBVIOUS
    <2>1. k \in 1..Len(s) \/ k = Len(s) + 1
        BY <1>5
    <2> QED BY <1>5, <2>1 DEF Pays
<1>7. Pays(t, base + Worth(e, "BASE"), quote + Worth(e, "QUOTE"))
    BY <1>3, <1>4, <1>5, <1>6 DEF Pays
<1> QED
    BY <1>7 DEF t

(* An output of a given asset and positive amount. *)
LEMMA PaysOut ==
    ASSUME NEW s, NEW base \in Int, NEW quote \in Int, Pays(s, base, quote),
           NEW script \in {"Wallet", "MakerReceive", "Order", "Fee"},
           NEW asset \in {"BASE", "QUOTE"}, NEW amount \in Nat \ {0}
    PROVE  Pays(s \o <<TxOut(script, asset, amount)>>,
                base + (IF asset = "BASE" THEN amount ELSE 0),
                quote + (IF asset = "QUOTE" THEN amount ELSE 0))
<1> DEFINE e == TxOut(script, asset, amount)
<1>1. /\ e \in TxOuts /\ e.amount > 0
      /\ Worth(e, "BASE") = (IF asset = "BASE" THEN amount ELSE 0)
      /\ Worth(e, "QUOTE") = (IF asset = "QUOTE" THEN amount ELSE 0)
    BY DEF TxOut, TxOuts, Worth
<1> HIDE DEF e
<1>2. Pays(s \o <<e>>, base + Worth(e, "BASE"), quote + Worth(e, "QUOTE"))
    BY <1>1, PaysAppend
<1> QED
    BY <1>1, <1>2 DEF e

(* Change, or none. *)
LEMMA PaysChange ==
    ASSUME NEW s, NEW base \in Int, NEW quote \in Int, Pays(s, base, quote),
           NEW asset \in {"BASE", "QUOTE"}, NEW amount \in Nat
    PROVE  Pays(s \o Change(asset, amount),
                base + (IF asset = "BASE" THEN amount ELSE 0),
                quote + (IF asset = "QUOTE" THEN amount ELSE 0))
<1>1. CASE amount > 0
    <2>1. Change(asset, amount) = <<TxOut("Wallet", asset, amount)>>
        BY <1>1 DEF Change
    <2> QED BY <1>1, <2>1, PaysOut
<1>2. CASE amount = 0
    <2>1. s \in Seq(TxOuts)
        BY DEF Pays
    <2>2. s \o Change(asset, amount) = s
        BY <1>2, <2>1 DEF Change
    <2>3. /\ base + (IF asset = "BASE" THEN amount ELSE 0) = base
          /\ quote + (IF asset = "QUOTE" THEN amount ELSE 0) = quote
        BY <1>2
    <2> QED BY <2>2, <2>3
<1> QED
    BY <1>1, <1>2

TxIns == [asset : {"BASE", "QUOTE"}, amount : Nat]

(* Tuples, one element at a time. *)
LEMMA Tuples ==
    ASSUME NEW T, NEW i \in T, NEW j \in T, NEW k \in T
    PROVE  /\ <<>> \in Seq(T) /\ <<i>> \in Seq(T) /\ <<i, j>> \in Seq(T)
           /\ <<>> \o <<i>> = <<i>> /\ <<i>> \o <<j>> = <<i, j>>
           /\ <<i, j>> \o <<k>> = <<i, j, k>>
<1>1. <<>> \in Seq(T) /\ <<i>> \in Seq(T) /\ <<i, j>> \in Seq(T) /\ <<i, j, k>> \in Seq(T)
    OBVIOUS
<1>2. <<>> \o <<i>> = <<i>>
    OBVIOUS
<1>3. <<i>> \o <<j>> = <<i, j>>
    <2> DEFINE s == <<i>> \o <<j>>
               t == <<i, j>>
    <2>1. s \in Seq(T) /\ Len(s) = 2 /\ s[1] = i /\ s[2] = j
        OBVIOUS
    <2>2. t \in Seq(T) /\ Len(t) = 2 /\ t[1] = i /\ t[2] = j
        OBVIOUS
    <2> HIDE DEF s, t
    <2>3. \A n \in 1..Len(s) : s[n] = t[n]
        BY <2>1, <2>2
    <2>4. s = t
        BY <2>1, <2>2, <2>3, SeqEqual
    <2> QED BY <2>4 DEF s, t
<1>4. <<i, j>> \o <<k>> = <<i, j, k>>
    <2> DEFINE s == <<i, j>> \o <<k>>
               t == <<i, j, k>>
    <2>1. s \in Seq(T) /\ Len(s) = 3 /\ s[1] = i /\ s[2] = j /\ s[3] = k
        OBVIOUS
    <2>2. t \in Seq(T) /\ Len(t) = 3 /\ t[1] = i /\ t[2] = j /\ t[3] = k
        OBVIOUS
    <2> HIDE DEF s, t
    <2>3. \A n \in 1..Len(s) : s[n] = t[n]
        BY <2>1, <2>2
    <2>4. s = t
        BY <2>1, <2>2, <2>3, SeqEqual
    <2> QED BY <2>4 DEF s, t
<1> QED BY <1>1, <1>2, <1>3, <1>4, Zenon

(* Three inputs, or two. *)
LEMMA SumInputs ==
    ASSUME NEW i \in TxIns, NEW j \in TxIns, NEW k \in TxIns, NEW asset,
           NEW s, s = <<i, j>>, NEW t, t = <<i, j, k>>
    PROVE  /\ Sum(s, asset) = Worth(i, asset) + Worth(j, asset)
           /\ Sum(t, asset) = Worth(i, asset) + Worth(j, asset) + Worth(k, asset)
<1>1. \A x \in TxIns : Worth(x, asset) \in Int
    BY DEF TxIns, Worth
<1>2. /\ <<>> \in Seq(TxIns) /\ <<i>> \in Seq(TxIns) /\ <<i, j>> \in Seq(TxIns)
      /\ <<>> \o <<i>> = <<i>> /\ <<i>> \o <<j>> = <<i, j>> /\ <<i, j>> \o <<k>> = <<i, j, k>>
    BY Tuples
<1> DEFINE s0 == <<>>
           s1 == <<i>>
           s2 == <<i, j>>
<1>3. s0 \in Seq(TxIns) /\ s1 \in Seq(TxIns) /\ s2 \in Seq(TxIns)
    BY <1>2
<1>4. s0 \o <<i>> = s1 /\ s1 \o <<j>> = s2
    BY <1>2, Zenon
<1>5. Sum(s0, asset) = 0
    BY SumNothing
<1> HIDE DEF s0, s1, s2
<1>6. Sum(s0 \o <<i>>, asset) = Sum(s0, asset) + Worth(i, asset)
    BY <1>1, <1>3, SumAppend
<1>7. Sum(s1 \o <<j>>, asset) = Sum(s1, asset) + Worth(j, asset)
    BY <1>1, <1>3, SumAppend
<1>8. Sum(s2 \o <<k>>, asset) = Sum(s2, asset) + Worth(k, asset)
    BY <1>1, <1>3, SumAppend
<1>9. Sum(s2, asset) = Worth(i, asset) + Worth(j, asset)
    <2>1. Worth(i, asset) \in Int
        BY <1>1
    <2>2. Sum(s1, asset) = 0 + Worth(i, asset)
        BY <1>4, <1>5, <1>6, Zenon
    <2>3. Sum(s2, asset) = Sum(s1, asset) + Worth(j, asset)
        BY <1>4, <1>7, Zenon
    <2> QED BY <2>1, <2>2, <2>3
<1>10. Sum(s2 \o <<k>>, asset) = Worth(i, asset) + Worth(j, asset) + Worth(k, asset)
    BY <1>8, <1>9
<1>11. s2 = <<i, j>> /\ s2 \o <<k>> = <<i, j, k>>
    BY <1>2, Zenon DEF s2
<1> QED
    BY <1>9, <1>10, <1>11, Zenon

(* What an order's two assets stand for. *)
LEMMA Assets ==
    ASSUME NEW p, p.direction \in Direction
    PROVE  \/ p.direction = "SellBase" /\ OfferedAsset(p) = "BASE" /\ WantedAsset(p) = "QUOTE"
           \/ p.direction = "SellQuote" /\ OfferedAsset(p) = "QUOTE" /\ WantedAsset(p) = "BASE"
BY DEF Direction, OfferedAsset, WantedAsset

(* How much of the asset that is offered, and of the one that is wanted,   *)
(* makes so much of an asset.                                              *)
Split(p, asset, off, want) == IF asset = OfferedAsset(p) THEN off ELSE want

(* What a taker's transaction pays out. *)
LEMMA FillPays ==
    ASSUME NEW p, p.direction \in Direction,
           NEW pays \in Nat \ {0}, NEW receives \in Nat \ {0}, NEW remainder \in Nat,
           NEW is_partial \in BOOLEAN, is_partial <=> remainder > 0,
           NEW extra \in Nat, NEW feeExtra \in Nat,
           NEW s, s = << TxOut("Wallet", OfferedAsset(p), receives),
                         TxOut("MakerReceive", WantedAsset(p), pays) >>
                      \o (IF is_partial
                          THEN <<TxOut("Order", OfferedAsset(p), remainder)>> ELSE <<>>)
                      \o Change(WantedAsset(p), extra)
                      \o <<TxOut("Fee", "QUOTE", FeeAmount)>>
                      \o Change("QUOTE", feeExtra)
    PROVE  Pays(s, Split(p, "BASE", receives + remainder, pays + extra),
                   Split(p, "QUOTE", receives + remainder, pays + extra) + FeeAmount + feeExtra)
<1> DEFINE off == OfferedAsset(p)
           want == WantedAsset(p)
           a == TxOut("Wallet", off, receives)
           b == TxOut("MakerReceive", want, pays)
           X == IF is_partial THEN <<TxOut("Order", off, remainder)>> ELSE <<>>
           Is(x, y, n) == IF x = y THEN n ELSE 0
           s1 == <<a, b>>
           s2 == s1 \o X
           s3 == s2 \o Change(want, extra)
           s4 == s3 \o <<TxOut("Fee", "QUOTE", FeeAmount)>>
           s5 == s4 \o Change("QUOTE", feeExtra)
           b1 == Is(off, "BASE", receives) + Is(want, "BASE", pays)
           q1 == Is(off, "QUOTE", receives) + Is(want, "QUOTE", pays)
           b2 == b1 + Is(off, "BASE", remainder)
           q2 == q1 + Is(off, "QUOTE", remainder)
           b3 == b2 + Is(want, "BASE", extra)
           q3 == q2 + Is(want, "QUOTE", extra)
<1>0. off \in {"BASE", "QUOTE"} /\ want \in {"BASE", "QUOTE"} /\ FeeAmount \in Nat \ {0}
    BY Assets, OrderAssumption
<1>i. /\ b1 \in Int /\ q1 \in Int /\ b2 \in Int /\ q2 \in Int /\ b3 \in Int /\ q3 \in Int
      /\ q3 + FeeAmount \in Int
    BY <1>0
<1>1. Pays(s1, b1, q1)
    <2>1. Pays(<<>>, 0, 0)
        BY SumNothing DEF Pays
    <2>a. a \in TxOuts /\ b \in TxOuts
        BY <1>0 DEF TxOut, TxOuts
    <2> DEFINE none == <<>>
    <2>n. Pays(none, 0, 0)
        BY <2>1
    <2>2. Pays(none \o <<a>>, 0 + Is(off, "BASE", receives), 0 + Is(off, "QUOTE", receives))
        <3> HIDE DEF none
        <3> QED BY <1>0, <2>n, PaysOut
    <2>t. none \o <<a>> = <<a>> /\ <<a>> \o <<b>> = s1
        <3> HIDE DEF a, b
        <3>1. /\ <<>> \in Seq(TxOuts) /\ <<a>> \in Seq(TxOuts) /\ <<a, b>> \in Seq(TxOuts)
              /\ <<>> \o <<a>> = <<a>> /\ <<a>> \o <<b>> = <<a, b>>
              /\ <<a, b>> \o <<b>> = <<a, b, b>>
            BY <2>a, Tuples
        <3> QED BY <3>1 DEF none, s1
    <2>3. /\ none \o <<a>> = <<a>> /\ <<a>> \o <<b>> = s1
          /\ 0 + Is(off, "BASE", receives) = Is(off, "BASE", receives)
          /\ 0 + Is(off, "QUOTE", receives) = Is(off, "QUOTE", receives)
        <3> HIDE DEF a, b, none, s1
        <3> QED BY <2>t
    <2> HIDE DEF none
    <2>4. Pays(<<a>>, Is(off, "BASE", receives), Is(off, "QUOTE", receives))
        <3> HIDE DEF a, Is
        <3> QED BY <2>2, <2>3
    <2>5. Pays(<<a>> \o <<b>>, b1, q1)
        <3>1. Is(off, "BASE", receives) \in Int /\ Is(off, "QUOTE", receives) \in Int
            OBVIOUS
        <3> HIDE DEF a
        <3> QED BY <1>0, <2>4, <3>1, PaysOut
    <2> QED
        <3> HIDE DEF a, b, s1, b1, q1
        <3> QED BY <2>3, <2>5
<1> HIDE DEF s1
<1>2. Pays(s2, b2, q2)
    <2>1. CASE is_partial
        <3>1. X = <<TxOut("Order", off, remainder)>> /\ remainder \in Nat \ {0}
            BY <2>1
        <3> HIDE DEF X, b1, q1
        <3> QED BY <1>0, <1>i, <1>1, <3>1, PaysOut
    <2>2. CASE ~is_partial
        <3>1. X = <<>> /\ b2 = b1 /\ q2 = q1
            BY <1>i, <2>2
        <3>2. s1 \o <<>> = s1
            BY <1>1 DEF Pays
        <3> HIDE DEF X, b1, q1, b2, q2
        <3> QED BY <1>1, <3>1, <3>2
    <2> QED BY <2>1, <2>2
<1> HIDE DEF s2, b2, q2
<1>3. Pays(s3, b3, q3)
    BY <1>0, <1>i, <1>2, PaysChange
<1> HIDE DEF s3, b3, q3
<1>4. Pays(s4, b3, q3 + FeeAmount)
    <2>1. Pays(s4, b3 + Is("QUOTE", "BASE", FeeAmount), q3 + Is("QUOTE", "QUOTE", FeeAmount))
        BY <1>0, <1>i, <1>3, PaysOut
    <2>2. Is("QUOTE", "BASE", FeeAmount) = 0 /\ Is("QUOTE", "QUOTE", FeeAmount) = FeeAmount
        OBVIOUS
    <2>3. b3 + 0 = b3
        BY <1>i
    <2> HIDE DEF Is, s4
    <2> QED BY <2>1, <2>2, <2>3
<1> HIDE DEF s4
<1>5. Pays(s5, b3, q3 + FeeAmount + feeExtra)
    <2>1. Pays(s5, b3 + Is("QUOTE", "BASE", feeExtra), q3 + FeeAmount + Is("QUOTE", "QUOTE", feeExtra))
        BY <1>0, <1>i, <1>4, PaysChange
    <2>2. Is("QUOTE", "BASE", feeExtra) = 0 /\ Is("QUOTE", "QUOTE", feeExtra) = feeExtra
        OBVIOUS
    <2>3. b3 + 0 = b3
        BY <1>i
    <2> HIDE DEF Is, s5
    <2> QED BY <2>1, <2>2, <2>3
<1>6. s5 = s
    BY DEF s5, s4, s3, s2, s1
<1>7. /\ b3 = Split(p, "BASE", receives + remainder, pays + extra)
      /\ q3 = Split(p, "QUOTE", receives + remainder, pays + extra)
    BY Assets DEF b3, q3, b2, q2, Split
<1> HIDE DEF s5
<1> QED
    BY <1>5, <1>6, <1>7

(* Blinding changes neither sums nor amounts. *)
LEMMA BlindPays ==
    ASSUME NEW tx, tx = [txid |-> tx.txid, ins |-> tx.ins, outs |-> tx.outs],
           NEW base, NEW quote, Pays(tx.outs, base, quote), NEW is_partial \in BOOLEAN,
           NEW b, b = blind_fill(tx, is_partial)
    PROVE  /\ Sum(b.outs, "BASE") = base /\ Sum(b.outs, "QUOTE") = quote
           /\ \A k \in DOMAIN b.outs : b.outs[k].amount > 0
           /\ b.ins = tx.ins
<1>1. tx.outs \in Seq(TxOuts)
    BY DEF Pays
<1>2. /\ Len(b.outs) = Len(tx.outs) /\ DOMAIN b.outs = 1..Len(tx.outs)
      /\ \A k \in 1..Len(tx.outs) : /\ b.outs[k].amount = tx.outs[k].amount
                                    /\ b.outs[k].asset = tx.outs[k].asset
    <2> DEFINE c == blind_fill(tx, is_partial)
    <2>1. /\ Len(c.outs) = Len(tx.outs) /\ DOMAIN c.outs = 1..Len(c.outs)
          /\ \A k \in 1..Len(tx.outs) : /\ c.outs[k].amount = tx.outs[k].amount
                                        /\ c.outs[k].asset = tx.outs[k].asset
        BY <1>1, BlindKeeps
    <2>2. b = c
        OBVIOUS
    <2> HIDE DEF c
    <2> QED BY <2>1, <2>2
<1>3. DOMAIN tx.outs = 1..Len(tx.outs) /\ Len(tx.outs) \in Nat
    BY <1>1
<1>4. b.ins = tx.ins
    BY DEF blind_fill
<1>5. ASSUME NEW asset PROVE Sum(b.outs, asset) = Sum(tx.outs, asset)
    <2> DEFINE f == [k \in DOMAIN b.outs |-> Worth(b.outs[k], asset)]
               g == [k \in DOMAIN tx.outs |-> Worth(tx.outs[k], asset)]
    <2>1. \A k \in 1..Len(tx.outs) : f[k] = g[k]
        BY <1>2, <1>3 DEF Worth
    <2>2. /\ Sum(b.outs, asset) = SumFunctionOnSet(f, 1..Len(tx.outs))
          /\ Sum(tx.outs, asset) = SumFunctionOnSet(g, 1..Len(tx.outs))
        BY <1>2, <1>3, SumIsWorth
    <2>3. IsFiniteSet(1..Len(tx.outs))
        <3> DEFINE n == Len(tx.outs)
        <3>1. 1 \in Int /\ n \in Int
            BY <1>3
        <3> HIDE DEF n
        <3>2. IsFiniteSet(1..n)
            BY <3>1, FS_Interval
        <3> QED BY <3>2 DEF n
    <2> HIDE DEF f, g
    <2> QED BY <2>1, <2>2, <2>3, SumAgree
<1> QED
    BY <1>2, <1>4, <1>5 DEF Pays

(* Input and output sums of a fill agree when the order is divided into what *)
(* the taker receives and the remainder.                                     *)
LEMMA FillBalances ==
    ASSUME NEW p, p.direction \in Direction,
           NEW f, f.pays \in Nat \ {0}, f.receives \in Nat \ {0}, f.remainder \in Nat,
           f.is_partial \in BOOLEAN, f.is_partial <=> f.remainder > 0,
           NEW value \in Nat, value = f.receives + f.remainder, NEW txid,
           NEW extra \in Nat, NEW feeExtra \in Nat,
           NEW tx, tx = blind_fill(build_fill_order_pset(p, f, value, txid, f.pays + extra,
                                                         FeeAmount + feeExtra), f.is_partial)
    PROVE  Balanced(tx) /\ \A k \in DOMAIN tx.outs : tx.outs[k].amount > 0
<1> DEFINE pset == build_fill_order_pset(p, f, value, txid, f.pays + extra, FeeAmount + feeExtra)
           i1 == TxIn(WantedAsset(p), f.pays + extra)
           i2 == TxIn(OfferedAsset(p), value)
           i3 == TxIn("QUOTE", FeeAmount + feeExtra)
           s == << TxOut("Wallet", OfferedAsset(p), f.receives),
                   TxOut("MakerReceive", WantedAsset(p), f.pays) >>
                \o (IF f.is_partial
                    THEN <<TxOut("Order", OfferedAsset(p), f.remainder)>> ELSE <<>>)
                \o Change(WantedAsset(p), extra)
                \o <<TxOut("Fee", "QUOTE", FeeAmount)>>
                \o Change("QUOTE", feeExtra)
           base == Split(p, "BASE", f.receives + f.remainder, f.pays + extra)
           quote == Split(p, "QUOTE", f.receives + f.remainder, f.pays + extra)
<1>0. FeeAmount \in Nat \ {0}
    BY OrderAssumption
<1>1. pset = [txid |-> txid, ins |-> <<i1, i2, i3>>, outs |-> s]
    <2>1. (f.pays + extra) - f.pays = extra /\ (FeeAmount + feeExtra) - FeeAmount = feeExtra
        BY <1>0
    <2> QED BY <2>1, Zenon DEF build_fill_order_pset
<1>2. Pays(s, base, quote + FeeAmount + feeExtra)
    <2>1. s = s
        OBVIOUS
    <2> QED BY FillPays, Zenon
<1>3. /\ i1 \in TxIns /\ i2 \in TxIns /\ i3 \in TxIns
      /\ Worth(i1, "BASE") + Worth(i2, "BASE") + Worth(i3, "BASE") = base
      /\ Worth(i1, "QUOTE") + Worth(i2, "QUOTE") + Worth(i3, "QUOTE") = quote + FeeAmount + feeExtra
    <2>1. /\ i1 \in TxIns /\ i2 \in TxIns /\ i3 \in TxIns
        BY <1>0, Assets DEF TxIn, TxIns
    <2>2. /\ i1.asset = WantedAsset(p) /\ i1.amount = f.pays + extra
          /\ i2.asset = OfferedAsset(p) /\ i2.amount = value
          /\ i3.asset = "QUOTE" /\ i3.amount = FeeAmount + feeExtra
        BY DEF TxIn
    <2> HIDE DEF i1, i2, i3
    <2> QED BY <1>0, <2>1, <2>2, Assets DEF Worth, Split
<1> HIDE DEF s, i1, i2, i3, base, quote
<1>4. pset.outs = s /\ pset.ins = <<i1, i2, i3>> /\ pset.txid = txid
      /\ pset = [txid |-> pset.txid, ins |-> pset.ins, outs |-> pset.outs]
    <2> DEFINE i == <<i1, i2, i3>>
    <2>1. pset = [txid |-> txid, ins |-> i, outs |-> s]
        BY <1>1
    <2> HIDE DEF pset, i
    <2>2. pset.outs = s /\ pset.ins = i /\ pset.txid = txid
        BY <2>1, TxFields
    <2> QED BY <2>1, <2>2 DEF i
<1>5. /\ Sum(pset.ins, "BASE") = base
      /\ Sum(pset.ins, "QUOTE") = quote + FeeAmount + feeExtra
    <2> DEFINE i == <<i1, i2, i3>>
    <2>1. i = <<i1, i2, i3>> /\ pset.ins = i
        BY <1>4
    <2> HIDE DEF i, pset
    <2>2. /\ Sum(i, "BASE") = Worth(i1, "BASE") + Worth(i2, "BASE") + Worth(i3, "BASE")
          /\ Sum(i, "QUOTE") = Worth(i1, "QUOTE") + Worth(i2, "QUOTE") + Worth(i3, "QUOTE")
        <3> DEFINE t == <<i1, i2>>
        <3>1. t = <<i1, i2>>
            OBVIOUS
        <3> HIDE DEF t
        <3>2. i1 \in TxIns /\ i2 \in TxIns /\ i3 \in TxIns /\ i = <<i1, i2, i3>>
            BY <1>3, <2>1
        <3> HIDE DEF TxIns
        <3>3. ASSUME NEW asset
              PROVE  /\ Sum(t, asset) = Worth(i1, asset) + Worth(i2, asset)
                     /\ Sum(i, asset) = Worth(i1, asset) + Worth(i2, asset) + Worth(i3, asset)
            BY <3>1, <3>2, SumInputs
        <3> QED BY <3>3
    <2> QED BY <1>3, <2>1, <2>2
<1>6. Pays(pset.outs, base, quote + FeeAmount + feeExtra) /\ tx = blind_fill(pset, f.is_partial)
    BY <1>2, <1>4, Zenon DEF pset
<1> HIDE DEF pset
<1>7. /\ Sum(tx.outs, "BASE") = base /\ Sum(tx.outs, "QUOTE") = quote + FeeAmount + feeExtra
      /\ \A k \in DOMAIN tx.outs : tx.outs[k].amount > 0
      /\ tx.ins = pset.ins
    BY <1>4, <1>6, BlindPays, Zenon
<1> QED
    BY <1>5, <1>7 DEF Balanced

(* A price can be cancelled. *)
LEMMA CancelPrice ==
    ASSUME NEW m \in Nat, NEW n \in Nat, NEW k \in Nat \ {0}
    PROVE  /\ m < n => m * k < n * k
           /\ m * k = n * k => m = n
<1>1. ASSUME NEW i \in Nat, NEW j \in Nat, i < j PROVE i * k < j * k
    <2>1. PICK d \in Nat \ {0} : j = i + d
        <3>1. j - i \in Nat \ {0} /\ j = i + (j - i)
            BY <1>1
        <3> QED BY <3>1
    <2>2. j * k = i * k + d * k /\ i * k \in Nat
        BY <2>1, Product
    <2>3. d * k > 0 /\ d * k \in Nat
        BY <2>1
    <2> QED BY <2>2, <2>3
<1>2. m < n => m * k < n * k
    BY <1>1
<1>3. n < m => n * k < m * k
    BY <1>1
<1>4. m * k \in Nat /\ n * k \in Nat
    OBVIOUS
<1> QED
    BY <1>2, <1>3, <1>4

(* The covenant accepts a fill in the builder's layout whose amounts pass   *)
(* validate_order_fill.                                                     *)
LEMMA FillAccepted ==
    ASSUME NEW p, p.direction \in Direction, p.price \in Nat \ {0},
           NEW value \in 1..U64Max, NEW lots \in Nat \ {0},
           Fits(lots * p.price),
           p.direction = "SellBase" => Fits(value * p.price),
           NEW f, f = FillAmounts(p, value, lots), validate_order_fill(p, value, f),
           NEW tx, Placed(tx, p, f)
    PROVE  main(p, value, tx, 1, FillWitness)
<1>0. U64Max \in Nat /\ MinFill \in Nat /\ MinRemainder \in Nat /\ value \in Nat \ {0}
    BY OrderAssumption
<1>1. FillWitness.path # "Cancel"
    BY DEF FillWitness
<1>2. /\ output(tx, 1) = tx.outs[2] /\ output(tx, 2) = tx.outs[3]
      /\ 1 < Len(tx.outs) /\ 2 < Len(tx.outs) /\ 1 + 1 = 2
    BY DEF output, Placed
<1>3. /\ output(tx, 1).script = "MakerReceive" /\ ExplicitAsset(tx, 1, WantedAsset(p))
      /\ output(tx, 1).amount = f.pays
      /\ f.is_partial => /\ RemainderLocked(tx, 2, OfferedAsset(p))
                         /\ output(tx, 2).amount = f.remainder
    BY <1>2 DEF Placed, ExplicitAsset, RemainderLocked
<1>4. CASE p.direction = "SellBase"
    <2>1. /\ f.pays = lots * p.price /\ f.is_partial = (lots < value)
          /\ f.remainder = IF lots < value THEN value - lots ELSE 0
        BY <1>4 DEF FillAmounts
    <2>2. /\ f.pays = (value - f.remainder) * p.price /\ MinFill <= value - f.remainder
          /\ f.is_partial => MinRemainder <= f.remainder
        BY <1>4 DEF validate_order_fill
    <2>3. WantedAsset(p) = "QUOTE" /\ OfferedAsset(p) = "BASE"
        BY <1>4 DEF WantedAsset, OfferedAsset
    <2>4. CASE lots < value
        <3>1. f.pays # value * p.price
            <4>1. lots * p.price < value * p.price /\ lots * p.price \in Int /\ value * p.price \in Int
                BY <1>0, <2>4, CancelPrice
            <4> QED BY <2>1, <4>1
        <3>p. f.is_partial
            BY <2>1, <2>4, Zenon
        <3>r. f.remainder <= value
            BY <1>0, <2>1, <2>4
        <3>2. f.is_partial /\ f.remainder <= value
            BY <3>p, <3>r
        <3>3. validate_sell_base_fill(p, value, tx, 1)
            <4> DEFINE m == output(tx, 1).amount
                       r == output(tx, 1 + 1).amount
            <4>1. /\ RemainderLocked(tx, 1 + 1, "BASE") /\ ExplicitAsset(tx, 1, "QUOTE")
                  /\ m = f.pays /\ r = f.remainder
                BY <1>2, <1>3, <2>3, <3>2
            <4>2. /\ m # value * p.price /\ r <= value /\ m = (value - r) * p.price
                  /\ MinFill <= value - r /\ MinRemainder <= r
                <5> HIDE DEF m, r
                <5> QED BY <2>2, <3>1, <3>2, <4>1
            <4>3. Fits(value * p.price)
                BY <1>4
            <4> QED BY <4>1, <4>2, <4>3, Zenon DEF validate_sell_base_fill
        <3> QED BY <1>1, <1>2, <1>3, <1>4, <3>3 DEF main
    <2>5. CASE ~(lots < value)
        <3>1. f.remainder = 0 /\ value - 0 = value
            BY <1>0, <2>1, <2>5
        <3>2. f.pays = value * p.price /\ MinFill <= value
            BY <2>2, <3>1
        <3>3. validate_sell_base_fill(p, value, tx, 1)
            BY <1>2, <1>3, <1>4, <2>3, <3>2 DEF validate_sell_base_fill
        <3> QED BY <1>1, <1>2, <1>3, <1>4, <3>3 DEF main
    <2> QED BY <2>4, <2>5
<1>5. CASE p.direction = "SellQuote"
    <2>1. /\ f.pays = lots /\ f.is_partial = (lots * p.price < value)
          /\ f.remainder = IF lots * p.price < value THEN value - lots * p.price ELSE 0
        BY <1>5 DEF FillAmounts
    <2>2. /\ Fits(f.pays * p.price) /\ f.pays * p.price + f.remainder = value /\ MinFill <= f.pays
          /\ f.is_partial => /\ Fits(MinRemainder * p.price)
                             /\ MinRemainder * p.price <= f.remainder
        BY <1>5 DEF validate_order_fill
    <2>3. WantedAsset(p) = "BASE" /\ OfferedAsset(p) = "QUOTE"
        BY <1>5 DEF WantedAsset, OfferedAsset
    <2>4. lots * p.price \in Nat
        OBVIOUS
    <2>5. CASE lots * p.price < value
        <3>1. f.pays * p.price # value /\ f.is_partial /\ Fits(f.pays * p.price + f.remainder)
            <4>1. f.is_partial
                BY <2>1, <2>5, Zenon
            <4>2. f.pays * p.price # value /\ Fits(f.pays * p.price + f.remainder)
                BY <1>0, <2>1, <2>2, <2>4, <2>5 DEF Fits
            <4> QED BY <4>1, <4>2
        <3>2. validate_sell_quote_fill(p, value, tx, 1)
            <4> DEFINE m == output(tx, 1).amount
                       r == output(tx, 1 + 1).amount
            <4>1. /\ RemainderLocked(tx, 1 + 1, "QUOTE") /\ ExplicitAsset(tx, 1, "BASE")
                  /\ m = f.pays /\ r = f.remainder
                BY <1>2, <1>3, <2>3, <3>1
            <4>2. /\ m * p.price # value /\ Fits(m * p.price) /\ Fits(m * p.price + r)
                  /\ m * p.price + r = value /\ MinFill <= m
                  /\ Fits(MinRemainder * p.price) /\ MinRemainder * p.price <= r
                <5> HIDE DEF m, r
                <5> QED BY <2>2, <3>1, <4>1
            <4> QED BY <4>1, <4>2, Zenon DEF validate_sell_quote_fill
        <3> QED BY <1>1, <1>2, <1>3, <1>5, <3>2 DEF main
    <2>6. CASE ~(lots * p.price < value)
        <3>1. f.remainder = 0 /\ f.pays * p.price = value
            BY <1>0, <2>1, <2>2, <2>4, <2>6
        <3>2. validate_sell_quote_fill(p, value, tx, 1)
            BY <1>2, <1>3, <1>5, <2>2, <2>3, <3>1 DEF validate_sell_quote_fill
        <3> QED BY <1>1, <1>2, <1>3, <1>5, <3>2 DEF main
    <2> QED BY <2>5, <2>6
<1> QED
    BY <1>4, <1>5 DEF Direction

(* The amounts of a fill that passes the checks divide the order. *)
LEMMA FillDivides ==
    ASSUME NEW p, p.direction \in Direction, p.price \in Nat \ {0},
           NEW value \in Nat \ {0}, NEW lots \in Nat \ {0},
           NEW f, f = FillAmounts(p, value, lots), validate_order_fill(p, value, f)
    PROVE  /\ f.pays \in Nat \ {0} /\ f.receives \in Nat \ {0} /\ f.remainder \in Nat
           /\ f.is_partial \in BOOLEAN /\ (f.is_partial <=> f.remainder > 0)
           /\ value = f.receives + f.remainder
<1>0. lots * p.price \in Nat \ {0}
    OBVIOUS
<1> DEFINE consumed == IF p.direction = "SellBase" THEN lots ELSE lots * p.price
<1>1. /\ f.pays = IF p.direction = "SellBase" THEN lots * p.price ELSE lots
      /\ f.receives = consumed
      /\ f.is_partial = (consumed < value)
      /\ f.remainder = IF consumed < value THEN value - consumed ELSE 0
    BY DEF FillAmounts
<1>2. consumed \in Nat \ {0}
    BY <1>0
<1>3. consumed <= value
    <2>1. CASE p.direction = "SellBase"
        <3>1. /\ f.pays = lots * p.price
              /\ f.pays = (value - f.remainder) * p.price
            BY <1>1, <2>1 DEF validate_order_fill
        <3>2. ~(lots < value) => lots = value
            <4> SUFFICES ASSUME ~(lots < value) PROVE lots = value
                OBVIOUS
            <4>1. f.remainder = 0 /\ value - 0 = value
                BY <1>1, <2>1
            <4>2. lots * p.price = value * p.price
                BY <3>1, <4>1
            <4> QED BY <4>2, CancelPrice
        <3> QED BY <2>1, <3>2
    <2>2. CASE p.direction = "SellQuote"
        <3>1. consumed = lots * p.price /\ f.pays = lots
            BY <1>1, <2>2
        <3>2. f.pays * p.price + f.remainder = value
            BY <2>2 DEF validate_order_fill
        <3>3. f.remainder \in Nat
            BY <1>1, <1>2
        <3> HIDE DEF consumed
        <3> QED BY <1>0, <3>1, <3>2, <3>3
    <2> QED BY <2>1, <2>2 DEF Direction
<1> HIDE DEF consumed
<1>4. f.is_partial \in BOOLEAN /\ (f.is_partial <=> consumed < value)
    <2>1. (consumed < value) \in BOOLEAN
        BY <1>2
    <2>2. f.is_partial = (consumed < value)
        BY <1>1, Zenon
    <2>3. f.is_partial \in BOOLEAN
        BY <2>1, <2>2, Zenon
    <2> QED BY <2>2, <2>3, Zenon
<1>5. (consumed < value <=> f.remainder > 0) /\ f.remainder \in Nat /\ value = consumed + f.remainder
    BY <1>1, <1>2, <1>3
<1>6. f.pays \in Nat \ {0}
    BY <1>0, <1>1
<1>7. f.receives \in Nat \ {0} /\ value = f.receives + f.remainder
    BY <1>1, <1>2, <1>5
<1>8. f.is_partial <=> f.remainder > 0
    BY <1>4, <1>5, Zenon
<1> QED
    BY <1>4, <1>5, <1>6, <1>7, <1>8, Zenon

(* An order never holds more than a u64. *)
LEMMA OrderFits == Spec => [](Inv /\ offered <= U64Max)
<1>1. Init => offered <= U64Max
    BY OrderAssumption DEF Init
<1>2. Inv /\ offered <= U64Max /\ [Next]_vars => (offered <= U64Max)'
    <2> SUFFICES ASSUME offered <= U64Max, [Next]_vars PROVE (offered <= U64Max)'
        OBVIOUS
    <2>1. CASE Create
        BY <2>1, OrderAssumption DEF Create, CreateLimitOrder
    <2>2. CASE Fill \/ Cancel \/ Broadcast \/ UNCHANGED vars
        BY <2>2 DEF Fill, FillLimitOrder, ForeignFill, Cancel, CancelLimitOrder, Prepare,
                    Broadcast, BroadcastAccepted, BroadcastRejected, vars
    <2> QED BY <2>1, <2>2 DEF Next
<1> QED
    BY <1>1, <1>2, InitInv, NextInv, PTL DEF Spec

(* The live order, when there is one. *)
LEMMA LiveOrder ==
    ASSUME Inv, offered <= U64Max, order.value > 0
    PROVE  /\ params.direction \in Direction /\ params.price \in Nat \ {0}
           /\ order.value \in 1..U64Max /\ order.value \in Nat \ {0}
<1>1. order.value \in Nat /\ refunded \in Nat /\ offered \in Nat /\ U64Max \in Nat
    BY OrderAssumption DEF Inv, TypeOK
<1>2. order.value <= offered
    BY <1>1 DEF Inv, MakerPaid
<1>3. params # NoOrder
    BY DEF Inv, Untouched
<1> QED
    BY <1>1, <1>2, <1>3 DEF Inv, TypeOK

(* Every fill that passes the builder's checks on the order as it stands    *)
(* lands: build_fill_order_pset, the blinding of fill_limit_order and the   *)
(* covenant agree, for every price, amount, width and change.               *)
THEOREM FreshFillsAccepted == Spec => []FreshFillsLand
<1>1. Inv /\ offered <= U64Max => FreshFillsLand
    <2> SUFFICES ASSUME Inv, offered <= U64Max,
                        NEW lots \in 1..MaxAmount, NEW extra \in Surplus, NEW feeExtra \in Surplus,
                        order.value > 0, Fits(lots * params.price),
                        params.direction = "SellBase" => Fits(order.value * params.price),
                        validate_order_fill(params, order.value,
                                            FillAmounts(params, order.value, lots))
                 PROVE  NetworkAccepts(FillTx(params, order.value, order.txid, lots, extra, feeExtra),
                                       1, FillWitness)
        BY DEF FreshFillsLand
    <2> DEFINE p == params
               value == order.value
               f == FillAmounts(p, value, lots)
               tx == FillTx(p, value, order.txid, lots, extra, feeExtra)
    <2>1. /\ p.direction \in Direction /\ p.price \in Nat \ {0}
          /\ value \in 1..U64Max /\ value \in Nat \ {0}
        BY LiveOrder
    <2>2. lots \in Nat \ {0} /\ extra \in Nat /\ feeExtra \in Nat /\ FeeAmount \in Nat
        BY OrderAssumption
    <2>3. tx = blind_fill(build_fill_order_pset(p, f, value, order.txid, f.pays + extra,
                                                FeeAmount + feeExtra), f.is_partial)
        BY Zenon DEF FillTx
    <2>4. f = FillAmounts(p, value, lots) /\ validate_order_fill(p, value, f)
        OBVIOUS
    <2> HIDE DEF p, value, f, tx
    <2>5. /\ f.pays \in Nat \ {0} /\ f.receives \in Nat \ {0} /\ f.remainder \in Nat
          /\ f.is_partial \in BOOLEAN /\ (f.is_partial <=> f.remainder > 0)
          /\ value = f.receives + f.remainder
        BY <2>1, <2>2, <2>4, FillDivides
    <2>6. Balanced(tx) /\ \A k \in DOMAIN tx.outs : tx.outs[k].amount > 0
        BY <2>1, <2>2, <2>3, <2>5, FillBalances
    <2>7. Placed(tx, p, f) /\ tx.txid = order.txid
        <3>1. /\ f.pays \in Nat /\ f.receives \in Int /\ f.pays + extra \in Int
              /\ FeeAmount + feeExtra \in Int
            BY <2>2, <2>5
        <3> DEFINE b == blind_fill(build_fill_order_pset(p, f, value, order.txid, f.pays + extra,
                                                         FeeAmount + feeExtra), f.is_partial)
        <3>2. Placed(b, p, f) /\ b.txid = order.txid
            BY <2>1, <2>5, <3>1, FillShape
        <3> QED BY <2>3, <3>2
    <2>8. main(p, value, tx, 1, FillWitness)
        <3>1. Fits(lots * p.price) /\ (p.direction = "SellBase" => Fits(value * p.price))
            BY DEF p, value
        <3> QED BY <2>1, <2>2, <2>4, <2>7, <3>1, FillAccepted
    <2>9. NetworkAccepts(tx, 1, FillWitness)
        BY <2>6, <2>7, <2>8 DEF NetworkAccepts, p, value
    <2> QED BY <2>9 DEF tx, p, value
<1> QED
    BY <1>1, OrderFits, PTL

(* A cancellation balances. *)
LEMMA CancelBalances ==
    ASSUME NEW p, p.direction \in Direction, NEW value \in Nat \ {0}, NEW txid,
           NEW feeExtra \in Nat, NEW tx, tx = CancelTx(p, value, txid, feeExtra)
    PROVE  Balanced(tx) /\ \A k \in DOMAIN tx.outs : tx.outs[k].amount > 0
<1> DEFINE off == OfferedAsset(p)
           Is(x, y, n) == IF x = y THEN n ELSE 0
           i1 == TxIn(off, value)
           i2 == TxIn("QUOTE", FeeAmount + feeExtra)
           i == <<i1, i2>>
           a == TxOut("Wallet", off, value)
           c == TxOut("Fee", "QUOTE", FeeAmount)
           s2 == <<a, c>>
           s == s2 \o Change("QUOTE", feeExtra)
           base == Is(off, "BASE", value)
           quote == Is(off, "QUOTE", value)
<1>0. off \in {"BASE", "QUOTE"} /\ FeeAmount \in Nat \ {0}
    BY Assets, OrderAssumption
<1>1. tx = [txid |-> txid, ins |-> i, outs |-> s]
    <2>1. (FeeAmount + feeExtra) - FeeAmount = feeExtra
        BY <1>0
    <2> QED BY <2>1, Zenon DEF CancelTx, build_cancel_order_pset
<1>2. base \in Nat /\ quote \in Nat
    OBVIOUS
<1>3. Pays(s2, base, quote + FeeAmount)
    <2> DEFINE none == <<>>
    <2>1. Pays(none, 0, 0)
        BY SumNothing DEF Pays
    <2>a. a \in TxOuts /\ c \in TxOuts
        BY <1>0 DEF TxOut, TxOuts
    <2>t. none \o <<a>> = <<a>> /\ <<a>> \o <<c>> = s2
        <3> HIDE DEF a, c
        <3>1. /\ <<>> \in Seq(TxOuts) /\ <<a>> \in Seq(TxOuts) /\ <<a, c>> \in Seq(TxOuts)
              /\ <<>> \o <<a>> = <<a>> /\ <<a>> \o <<c>> = <<a, c>>
              /\ <<a, c>> \o <<c>> = <<a, c, c>>
            BY <2>a, Tuples
        <3> QED BY <3>1 DEF none, s2
    <2> HIDE DEF none, s2
    <2>2. Pays(none \o <<a>>, 0 + base, 0 + quote)
        BY <1>0, <2>1, PaysOut
    <2>3. Pays(<<a>>, base, quote)
        <3> HIDE DEF a, base, quote
        <3>1. 0 + base = base /\ 0 + quote = quote
            BY <1>2
        <3> QED BY <2>2, <2>t, <3>1
    <2>4. Pays(<<a>> \o <<c>>, base + Is("QUOTE", "BASE", FeeAmount), quote + Is("QUOTE", "QUOTE", FeeAmount))
        <3> DEFINE s1 == <<a>>
        <3>1. Pays(s1, base, quote)
            BY <2>3
        <3> HIDE DEF s1, base, quote
        <3>2. Pays(s1 \o <<c>>, base + Is("QUOTE", "BASE", FeeAmount), quote + Is("QUOTE", "QUOTE", FeeAmount))
            BY <1>0, <1>2, <3>1, PaysOut
        <3> QED BY <3>2 DEF s1
    <2>5. /\ base + Is("QUOTE", "BASE", FeeAmount) = base
          /\ quote + Is("QUOTE", "QUOTE", FeeAmount) = quote + FeeAmount
        <3> HIDE DEF base, quote
        <3> QED BY <1>2
    <2> HIDE DEF Is, a, c, base, quote
    <2> QED BY <2>t, <2>4, <2>5
<1> HIDE DEF s2, base, quote
<1>4. Pays(s, base, quote + FeeAmount + feeExtra)
    <2>1. Pays(s, base + Is("QUOTE", "BASE", feeExtra), quote + FeeAmount + Is("QUOTE", "QUOTE", feeExtra))
        <3>1. quote + FeeAmount \in Int /\ base \in Int
            BY <1>0, <1>2
        <3> QED BY <1>3, <3>1, PaysChange
    <2>2. /\ base + Is("QUOTE", "BASE", feeExtra) = base
          /\ quote + FeeAmount + Is("QUOTE", "QUOTE", feeExtra) = quote + FeeAmount + feeExtra
        BY <1>0, <1>2
    <2> HIDE DEF Is, s
    <2> QED BY <2>1, <2>2
<1>5. /\ i1 \in TxIns /\ i2 \in TxIns
      /\ Worth(i1, "BASE") + Worth(i2, "BASE") = base
      /\ Worth(i1, "QUOTE") + Worth(i2, "QUOTE") = quote + FeeAmount + feeExtra
    <2>1. i1 \in TxIns /\ i2 \in TxIns
        BY <1>0 DEF TxIn, TxIns
    <2>2. /\ i1.asset = off /\ i1.amount = value
          /\ i2.asset = "QUOTE" /\ i2.amount = FeeAmount + feeExtra
        BY DEF TxIn
    <2> HIDE DEF i1, i2
    <2> QED BY <1>0, <2>1, <2>2 DEF Worth, base, quote
<1> HIDE DEF i1, i2, s, Is
<1>6. Sum(i, "BASE") = base /\ Sum(i, "QUOTE") = quote + FeeAmount + feeExtra
    <2> DEFINE t == <<i1, i2, i2>>
    <2>1. i = <<i1, i2>> /\ t = <<i1, i2, i2>> /\ i1 \in TxIns /\ i2 \in TxIns
        BY <1>5
    <2> HIDE DEF i, t, TxIns
    <2>2. ASSUME NEW asset
          PROVE  /\ Sum(i, asset) = Worth(i1, asset) + Worth(i2, asset)
                 /\ Sum(t, asset) = Worth(i1, asset) + Worth(i2, asset) + Worth(i2, asset)
        BY <2>1, SumInputs
    <2> QED BY <1>5, <2>2
<1> HIDE DEF i
<1>7. tx.ins = i /\ tx.outs = s
    BY <1>1, TxFields
<1>8. DOMAIN s = 1..Len(s)
    BY <1>4 DEF Pays
<1> QED
    BY <1>4, <1>6, <1>7, <1>8 DEF Pays, Balanced

(* However the order was filled, cancel_limit_order gets the maker what is  *)
(* left: its signature is over the live outpoint and the amounts balance.   *)
THEOREM CancelsAccepted == Spec => []MakerCanCancel
<1>1. Inv /\ offered <= U64Max => MakerCanCancel
    <2> SUFFICES ASSUME Inv, offered <= U64Max, order.value > 0, NEW feeExtra \in Surplus
                 PROVE  NetworkAccepts(CancelTx(params, order.value, order.txid, feeExtra),
                                       0, CancelWitness(Maker, order.txid))
        BY DEF MakerCanCancel
    <2> DEFINE tx == CancelTx(params, order.value, order.txid, feeExtra)
               w == CancelWitness(Maker, order.txid)
    <2>1. params.direction \in Direction /\ order.value \in Nat \ {0} /\ feeExtra \in Nat
        BY LiveOrder, OrderAssumption
    <2>2. Balanced(tx) /\ \A k \in DOMAIN tx.outs : tx.outs[k].amount > 0
        BY <2>1, CancelBalances
    <2>3. tx.txid = order.txid
        BY <2>1, CancelShape
    <2>4. w.path = "Cancel" /\ w.signer = Maker /\ w.txid = order.txid
        BY DEF CancelWitness
    <2> HIDE DEF tx, w
    <2>5. main(params, order.value, tx, 0, w)
        BY <2>3, <2>4 DEF main, check_cancel
    <2>6. NetworkAccepts(tx, 0, w)
        BY <2>2, <2>3, <2>5 DEF NetworkAccepts
    <2> QED BY <2>6 DEF tx, w
<1> QED
    BY <1>1, OrderFits, PTL
=============================================================================
