----------------------------- MODULE TradeRouter -----------------------------
(***************************************************************************)
(* The trade router (trade/router.rs): how an exact input is split over the *)
(* limit orders of a market and its LMSR pool.                              *)
(*                                                                         *)
(* A scanned order is [utxo, nonce, direction, token, price, value]: the    *)
(* maker sells tokens (SellBase) or buys them (SellQuote), utxo is its      *)
(* output, nonce the announced one, and value what the output holds.  Two   *)
(* scanned orders may have the same output.  Prices are compared as         *)
(* fractions, not as floats.                                                *)
(***************************************************************************)
EXTENDS LmsrTable, SequencesExt

CONSTANTS
    MinFill,        \* min_fill_lots of every order
    MinRemainder    \* min_remainder_lots of every order

Sides == {"YES", "NO"}
Directions == {"Buy", "Sell"}

lmsr_trade_kind(side, dir) ==
    CASE side = "YES" /\ dir = "Buy"  -> "BuyYes"
      [] side = "YES" /\ dir = "Sell" -> "SellYes"
      [] side = "NO"  /\ dir = "Buy"  -> "BuyNo"
      [] side = "NO"  /\ dir = "Sell" -> "SellNo"

\* The price of one step from index s, none at the ends of the table.
lmsr_spot_price(s, kind) ==
    LET new == Step(kind, s, 1)
        q   == Quote(kind, s, new)
    IN  IF new \notin 0 .. SMaxIndex THEN [tag |-> "none"]
        ELSE IF ~QuoteOk(kind, s, new) THEN [tag |-> "err"]
        ELSE IF q.lots = 0 \/ q.collateral = 0 THEN [tag |-> "none"]
        ELSE [tag |-> "ok", num |-> q.collateral, den |-> q.lots]

\* order_buy_price and order_sell_price: a buyer needs a maker who sells the
\* token, a seller one who buys it.
Matches(o, side, dir) ==
    o.token = side /\ o.direction = (IF dir = "Buy" THEN "SellBase" ELSE "SellQuote")

\* An order is used before the pool when it is at least as good as its spot.
AsGoodAs(price, dir, spot) ==
    \/ spot.tag = "none"
    \/ spot.tag = "ok" /\ IF dir = "Buy" THEN price * spot.den <= spot.num
                                         ELSE price * spot.den >= spot.num

Eligible(orders, side, dir, spot) ==
    {i \in DOMAIN orders : Matches(orders[i], side, dir) /\ AsGoodAs(orders[i].price, dir, spot)}

\* Best price first, and the order of discovery among equals (a stable sort).
BestFirst(orders, eligible, dir) ==
    SetToSortSeq(eligible, LAMBDA i, j :
        \/ IF dir = "Buy" THEN orders[i].price < orders[j].price
                          ELSE orders[i].price > orders[j].price
        \/ orders[i].price = orders[j].price /\ i < j)

NoFill == [lots |-> 0]

FillBuy(o, lots) ==
    [order |-> o.utxo, nonce |-> o.nonce, lots |-> lots, pays |-> lots * o.price, receives |-> lots,
     is_partial |-> lots < o.value, remainder |-> o.value - lots]

FillSell(o, lots) ==
    [order |-> o.utxo, nonce |-> o.nonce, lots |-> lots, pays |-> lots, receives |-> lots * o.price,
     is_partial |-> lots * o.price < o.value, remainder |-> o.value - lots * o.price]

\* Lots to leave the minimum remainder, if a partial fill would leave less.
fill_buy_order(o, remaining) ==
    LET lots == Min({remaining \div o.price, o.value})
        rem  == o.value - lots
        adj  == Max({0, o.value - MinRemainder})
    IN  IF o.price = 0 \/ lots = 0 \/ lots < MinFill THEN NoFill
        ELSE IF rem > 0 /\ rem < MinRemainder
             THEN IF adj < MinFill \/ adj = 0 THEN NoFill ELSE FillBuy(o, adj)
        ELSE FillBuy(o, lots)

fill_sell_order(o, remaining) ==
    LET avail == o.value \div o.price
        lots  == Min({remaining, avail})
        rem   == o.value - lots * o.price
        least == Min({U64Max, MinRemainder * o.price})
        adj   == Max({0, o.value - least}) \div o.price
    IN  IF o.price = 0 \/ lots = 0 \/ lots < MinFill THEN NoFill
        ELSE IF lots < avail /\ rem > 0 /\ rem < least
             THEN IF adj < MinFill \/ adj = 0 THEN NoFill ELSE FillSell(o, adj)
        ELSE FillSell(o, lots)

\* The greedy pass over the orders.
FillOrders(orders, seq, dir, input) ==
    FoldLeft(LAMBDA acc, i :
                LET leg == IF dir = "Buy" THEN fill_buy_order(orders[i], acc.rest)
                                          ELSE fill_sell_order(orders[i], acc.rest)
                IN  IF acc.rest = 0 \/ orders[i].value = 0 \/ leg.lots = 0 THEN acc
                    ELSE [rest |-> Max({0, acc.rest - leg.pays}),
                          legs |-> Append(acc.legs, leg)],
             [rest |-> input, legs |-> <<>>], seq)

SumOf(legs, field(_)) == FoldLeft(LAMBDA n, leg : n + field(leg), 0, legs)

Pays(leg) == leg.pays
Receives(leg) == leg.receives

\* What the orders leave of the input goes to the pool.
PoolQuote(pool, kind, rest) ==
    IF rest > 0 /\ pool.known THEN quote_exact_input(kind, pool.s, rest) ELSE [tag |-> "none"]

\* The two sides of the pool's leg, nothing without a quote.
PoolIn(quote, dir) ==
    IF quote.tag # "ok" THEN 0
    ELSE IF dir = "Buy" THEN quote.quote.collateral ELSE quote.quote.lots
PoolOut(quote, dir) ==
    IF quote.tag # "ok" THEN 0
    ELSE IF dir = "Buy" THEN quote.quote.lots ELSE quote.quote.collateral

\* The plan from the orders' legs and the pool's quote.
PlanFrom(pool, side, dir, input, spot, filled, quote) ==
    LET used == PoolOut(quote, dir) > 0
        rest == IF used THEN Max({0, filled.rest - PoolIn(quote, dir)}) ELSE filled.rest
        out  == SumOf(filled.legs, Receives) + PoolOut(quote, dir)
    IN  IF "err" \in {spot.tag, quote.tag} THEN [tag |-> "err"]
        ELSE IF \/ filled.rest > 0 /\ ~pool.known
                \/ out = 0
             THEN [tag |-> "NoLiquidity"]
        ELSE IF \E k \in 1 .. Len(filled.legs) - 1 : filled.legs[k].is_partial
             THEN [tag |-> "PartialFillNotLast"]
        ELSE [tag |-> "ok", side |-> side, dir |-> dir, legs |-> filled.legs,
              pool |-> used, rest |-> filled.rest,
              total_in |-> IF pool.known THEN Max({0, input - rest}) ELSE input,
              total_out |-> out]

(***************************************************************************)
(* build_execution_plan.  pool is [known, s]: whether there is a pool and   *)
(* its index; without a pool nothing of the input may be left.              *)
(***************************************************************************)
build_execution_plan(pool, orders, side, dir, input) ==
    LET kind   == lmsr_trade_kind(side, dir)
        spot   == IF pool.known THEN lmsr_spot_price(pool.s, kind) ELSE [tag |-> "none"]
        filled == FillOrders(orders, BestFirst(orders, Eligible(orders, side, dir, spot), dir),
                             dir, input)
    IN  PlanFrom(pool, side, dir, input, spot, filled, PoolQuote(pool, kind, filled.rest))
=============================================================================
