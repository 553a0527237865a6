---------------------------- MODULE TradeExecution ----------------------------
(***************************************************************************)
(* Trades over limit orders and the LMSR pool in one transaction            *)
(* (node.rs quote_trade and execute_trade, sdk.rs execute_trade_plan,       *)
(* trade/pset.rs), by several wallets at once, while makers cancel and the  *)
(* administrator adjusts the pool.                                          *)
(*                                                                         *)
(* The pool's part of every step is a step of LmsrPool: its leg waits in    *)
(* pending, the order legs and the transaction in plans.  The order's       *)
(* covenant is that of MakerOrder.                                          *)
(***************************************************************************)
EXTENDS LmsrPool, TradeRouter

CONSTANTS
    InitialOrders,    \* the order books to start from
    Fetches,          \* what a fetch of order announcements may return
    TradeInputs,      \* amounts a trade may spend; the rest for the pool is in Inputs
    Funding           \* how much a wallet input may exceed what it pays for

VARIABLES
    orders,    \* the orders on the chain, each with its live output
    earned,    \* what each maker was paid, in the asset wanted
    plans      \* wallet -> the plan it is executing

tradeVars == <<vars, orders, earned, plans>>

NoPlan == [phase |-> "idle"]
NoTx == [ins |-> <<>>, outs |-> <<>>]

\* The covenant of one order, in a transaction seen with that order's assets.
Order == INSTANCE MakerOrder
    WITH Takers <- Wallets, ForeignTakers <- {}, Maker <- Admin, Prices <- {},
         FeeAmount <- NetworkFee, Surplus <- Funding, MaxAmount <- 0,
         params <- 0, order <- 0, offered <- 0, received <- 0, refunded <- 0, request <- 0

\* An order of the initial books: offered is what its maker put up and has not
\* taken back, version names its live output and every fill renews it.
\* Nobody checks that an order is quoted in the market's collateral, that its
\* price is not zero or that it wants no cosigner.
IsOrder(o) ==
    /\ o.direction \in {"SellBase", "SellQuote"} /\ o.token \in Sides
    /\ o.quote \in {"COL", "FOREIGN"} /\ o.cosigned \in BOOLEAN
    /\ o.price \in Nat /\ o.value \in Nat /\ o.offered = o.value /\ o.version \in Nat

\* An announcement of an order, with the nonce of the maker's receive address or
\* another one.  A fetch may return several of one order.
Announcement(a) == a.order \in Nat \ {0} /\ a.nonce \in {"own", "other"}

ASSUME TradeAssumption ==
    /\ MinFill \in Nat /\ MinRemainder \in Nat
    /\ Funding \subseteq Nat
    /\ \A i \in TradeInputs : 0 .. i \subseteq Inputs
    /\ \A book \in InitialOrders : \A i \in DOMAIN book : IsOrder(book[i])
    /\ \A found \in Fetches : \A k \in DOMAIN found : Announcement(found[k])

-----------------------------------------------------------------------------
(* The transaction.                                                         *)

FeeAsset == IF CollateralIsPolicy THEN "COL" ELSE "POLICY"
SendAsset(plan) == IF plan.dir = "Buy" THEN "COL" ELSE plan.side
ReceiveAsset(plan) == IF plan.dir = "Buy" THEN plan.side ELSE "COL"

\* An input or output; of is the order it belongs to, 0 when to none.
OrderPut(script, i, asset, amount) ==
    [script |-> script, of |-> i, asset |-> asset, amount |-> amount,
     conf |-> script = "Wallet"]
Put(script, asset, amount) == OrderPut(script, 0, asset, amount)

\* What an order holds and what its maker wants for it.
Offered(o) == IF o.direction = "SellBase" THEN o.token ELSE o.quote
Wanted(o) == IF o.direction = "SellBase" THEN o.quote ELSE o.token

\* The maker's address as it follows from the announced nonce.
derive_maker_receive(leg) == IF leg.nonce = "own" THEN "MakerReceive" ELSE "OtherReceive"

\* Three outputs of the pool, in the order YES, NO, collateral.
Reserves3(r) ==
    << Put("Pool", "YES", r.yes), Put("Pool", "NO", r.no), Put("Pool", "COL", r.collateral) >>

Change(asset, amount) == IF amount > 0 THEN <<Put("Wallet", asset, amount)>> ELSE <<>>

\* build_trade_pset with IN_BASE and OUT_BASE zero, as the router sets them:
\* the pool first, then each maker's payment at the index of its order, the
\* remainder of the last order right after, then the taker and the fee.
build_trade_pset(plan, leg, extra, feeExtra) ==
    LET pool  == IF plan.pool THEN Reserves3(leg.was) ELSE <<>>
        next  == IF plan.pool THEN Reserves3(SwapReserves(leg, leg.was)) ELSE <<>>
        n     == Len(plan.legs)
        last  == plan.legs[n]
        of(k) == orders[plan.legs[k].order]
    IN  [ins |-> pool
                 \o [k \in 1 .. n |->
                        OrderPut("Order", plan.legs[k].order, Offered(of(k)), plan.values[k])]
                 \o << Put("Wallet", SendAsset(plan), plan.total_in + extra),
                       Put("Wallet", FeeAsset, NetworkFee + feeExtra) >>,
         outs |-> next
                  \o [k \in 1 .. n |-> OrderPut(derive_maker_receive(plan.legs[k]), plan.legs[k].order,
                                                Wanted(of(k)), plan.legs[k].pays)]
                  \o (IF n > 0 /\ last.is_partial /\ last.remainder > 0
                      THEN <<OrderPut("Order", last.order, Offered(of(n)), last.remainder)>> ELSE <<>>)
                  \o <<Put("Wallet", ReceiveAsset(plan), plan.total_out)>>
                  \o Change(SendAsset(plan), extra)
                  \o <<Put("Fee", FeeAsset, NetworkFee)>>
                  \o Change(FeeAsset, feeExtra)]

\* Faulty: the pool's inputs are forgotten.
OrderIndexWithoutPool(plan, k) == k - 1

\* The index of the k-th order's input, and of the output its covenant reads.
OrderIndex(plan, k) == (IF plan.pool THEN 3 ELSE 0) + k - 1

\* The outputs as the covenant of order i names their scripts and assets.
Seen(tx, i, o) ==
    [outs |-> [k \in DOMAIN tx.outs |->
        [tx.outs[k] EXCEPT
            !.script = IF tx.outs[k].of = i THEN @ ELSE "Other",
            !.asset = IF @ = o.token THEN "BASE" ELSE IF @ = o.quote THEN "QUOTE" ELSE "OTHER"]]]

\* The builder signs for no cosigner, so only orders without one accept a fill.
OrderAccepts(plan, k) ==
    LET i == plan.legs[k].order
        o == orders[i]
    IN  /\ ~o.cosigned
        /\ Order!main(o, plan.values[k], Seen(plan.tx, i, o), OrderIndex(plan, k), [path |-> "Fill"])

Total(puts, asset) == SumOf(SelectSeq(puts, LAMBDA p : p.asset = asset), LAMBDA p : p.amount)

Balanced(tx) ==
    \A asset \in {"YES", "NO", "COL", "POLICY", "FOREIGN"} :
        Total(tx.ins, asset) = Total(tx.outs, asset)

\* No output is spent by two inputs.
SpendsOnce(plan) ==
    \A j, k \in DOMAIN plan.legs : plan.legs[j].order = plan.legs[k].order => j = k

\* Every order input of the plan is still the one that was quoted.
OrdersLive(plan) ==
    \A k \in DOMAIN plan.legs : orders[plan.legs[k].order].version = plan.versions[k]

\* Faulty: outputs that were spent since count as live.
AcceptsStale(plan) ==
    /\ SpendsOnce(plan)
    /\ Balanced(plan.tx)
    /\ \A k \in DOMAIN plan.tx.outs : plan.tx.outs[k].amount > 0
    /\ \A k \in DOMAIN plan.legs : OrderAccepts(plan, k)

\* What the ledger asks of the orders' side of a trade.
TxAccepted(plan) ==
    /\ OrdersLive(plan) /\ SpendsOnce(plan)
    /\ Balanced(plan.tx)
    /\ \A k \in DOMAIN plan.tx.outs : plan.tx.outs[k].amount > 0
    /\ \A k \in DOMAIN plan.legs : OrderAccepts(plan, k)

-----------------------------------------------------------------------------
TradeInit ==
    /\ Init
    /\ orders \in InitialOrders
    /\ earned = [i \in DOMAIN orders |-> 0]
    /\ plans = [w \in Wallets |-> NoPlan]

CreatePool(b) == create_lmsr_pool_bootstrap(b) /\ UNCHANGED <<orders, earned, plans>>

\* What the relays may return; a book may have fewer orders than a fetch names.
FetchedOrders == {found \in Fetches : \A k \in DOMAIN found : found[k].order \in DOMAIN orders}

\* Each announcement is looked up at its order's address; one whose order is
\* spent has no value and is skipped.
ScannedOrders(found) ==
    [k \in 1 .. Len(found) |->
        LET o == orders[found[k].order]
        IN  [utxo |-> found[k].order, nonce |-> found[k].nonce, direction |-> o.direction,
             token |-> o.token, price |-> o.price, value |-> o.value]]

\* quote_trade: orders and pool are scanned and a plan is made from them.
Planned(found, side, dir, input) ==
    build_execution_plan([known |-> created, s |-> sIndex], ScannedOrders(found), side, dir, input)

\* map_trade_quote: what the user sees of a plan made at index s.
map_trade_quote(plan, s) ==
    [total_in |-> plan.total_in, total_out |-> plan.total_out,
     legs |-> [k \in DOMAIN plan.legs |-> <<plan.legs[k].order, plan.legs[k].lots>>],
     pool |-> IF plan.pool THEN <<s, plan.rest>> ELSE <<>>]

\* The quote_trade command: the user is shown a quote.
ShowQuote(w, side, dir, input) ==
    /\ plans[w] = NoPlan /\ pending[w] = Idle
    /\ \E found \in FetchedOrders : \E plan \in {Planned(found, side, dir, input)} :
        /\ plan.tag = "ok"
        /\ plans' = [plans EXCEPT ![w] =
              [phase |-> "shown", side |-> side, dir |-> dir, input |-> input, pool |-> FALSE,
               shown |-> map_trade_quote(plan, sIndex)]]
    /\ UNCHANGED <<vars, orders, earned>>

\* Faulty: only what is paid is compared with what was confirmed.
ComparesInput(live, expected) == live.total_in = expected.total_in

\* quote_matches_expected: totals and every leg of the route.
validate_expected_quote(live, expected) == live = expected

\* The execute_trade command quotes again and goes on only if the quote is the
\* one that was confirmed.  What the orders leave of the input is one of Inputs.
QuoteTrade(w) ==
    /\ plans[w].phase = "shown"
    /\ \E found \in FetchedOrders, old \in {plans[w]} :
       \E plan \in {Planned(found, old.side, old.dir, old.input)} :
        /\ plan.tag = "ok"
        /\ validate_expected_quote(map_trade_quote(plan, sIndex), old.shown)
        /\ IF plan.pool
           THEN \E i \in Inputs :
                  i = plan.rest /\ QuoteSwap(w, lmsr_trade_kind(old.side, old.dir), i)
           ELSE UNCHANGED vars
        /\ plans' = [plans EXCEPT ![w] =
              [phase |-> "quoted", tx |-> NoTx, side |-> old.side, dir |-> old.dir,
               legs |-> plan.legs, shown |-> old.shown,
               pool |-> plan.pool, total_in |-> plan.total_in, total_out |-> plan.total_out,
               values |-> [k \in DOMAIN plan.legs |-> orders[plan.legs[k].order].value],
               versions |-> [k \in DOMAIN plan.legs |-> orders[plan.legs[k].order].version]]]
    /\ UNCHANGED <<orders, earned>>

\* A change address is passed on only when the funding input leaves change;
\* without one, change of the fee input fails the build.
ChangeDestinationOk(extra, feeExtra) == extra > 0 \/ feeExtra = 0

\* Faulty: the pool's anchors are not looked up again.
ExecuteWithoutAnchors(w, extra, feeExtra) ==
    LET plan == plans[w]
    IN  /\ plan.phase = "quoted"
        /\ ChangeDestinationOk(extra, feeExtra)
        /\ IF plan.pool THEN /\ SwapBuilds(pending[w])
                             /\ pending' = [pending EXCEPT ![w] = Built(pending[w])]
                             /\ UNCHANGED poolVars
                        ELSE UNCHANGED vars
        /\ plans' = [plans EXCEPT ![w].phase = "built",
                       ![w].tx = build_trade_pset(plan, pending[w], extra, feeExtra)]
        /\ UNCHANGED <<orders, earned>>

\* execute_trade_plan up to the signed transaction.  The pool's anchors are
\* looked up again, the orders are not.
ExecuteTradePlan(w, extra, feeExtra) ==
    LET plan == plans[w]
    IN  /\ plan.phase = "quoted"
        /\ ChangeDestinationOk(extra, feeExtra)
        /\ IF plan.pool THEN BuildSwap(w) ELSE UNCHANGED vars
        /\ plans' = [plans EXCEPT ![w].phase = "built",
                       ![w].tx = build_trade_pset(plan, pending[w], extra, feeExtra)]
        /\ UNCHANGED <<orders, earned>>

\* What the outputs of a transaction pay to the maker of order i.
PaidTo(tx, i) ==
    SumOf(SelectSeq(tx.outs, LAMBDA p : p.script = "MakerReceive" /\ p.of = i), LAMBDA p : p.amount)

LegOf(plan, i) == {k \in DOMAIN plan.legs : plan.legs[k].order = i}

\* One transaction: the pool's leg and every order's land together.
BroadcastTrade(w) ==
    LET plan == plans[w]
    IN  /\ plan.phase = "built"
        /\ TxAccepted(plan)
        /\ IF plan.pool THEN broadcast_and_sync(w) ELSE UNCHANGED vars
        /\ orders' = [i \in DOMAIN orders |->
              IF LegOf(plan, i) = {} THEN orders[i]
              ELSE LET k == CHOOSE k \in LegOf(plan, i) : TRUE
                   IN  [orders[i] EXCEPT !.value = plan.legs[k].remainder,
                                         !.version = orders[i].version + 1]]
        /\ earned' = [i \in DOMAIN orders |-> earned[i] + PaidTo(plan.tx, i)]
        /\ plans' = [plans EXCEPT ![w] = NoPlan]

\* A quote that is not used, anchors that are stale, a transaction that does
\* not build or is refused.
AbandonTrade(w) ==
    /\ plans[w] # NoPlan
    /\ plans' = [plans EXCEPT ![w] = NoPlan]
    /\ IF plans[w].pool THEN Abandon(w) ELSE UNCHANGED vars
    /\ UNCHANGED <<orders, earned>>

\* The maker takes back what is left of an order.
CancelOrder(i) ==
    /\ orders[i].value > 0
    /\ orders' = [orders EXCEPT ![i].value = 0, ![i].version = @ + 1,
                                ![i].offered = @ - orders[i].value]
    /\ UNCHANGED <<vars, earned, plans>>

AdjustPool(w) ==
    /\ plans[w] = NoPlan
    /\ \/ \E r \in AdjustReserves : BuildAdjust(w, r)
       \/ close_lmsr_pool(w)
       \/ broadcast_and_sync(w)
       \/ Abandon(w)
    /\ UNCHANGED <<orders, earned, plans>>

TradeNext ==
    \/ \E b \in InitialBundles : CreatePool(b)
    \/ \E w \in Wallets :
         \/ \E side \in Sides, dir \in Directions, i \in TradeInputs : ShowQuote(w, side, dir, i)
         \/ QuoteTrade(w)
         \/ \E e, f \in Funding : ExecuteTradePlan(w, e, f)
         \/ BroadcastTrade(w)
         \/ AbandonTrade(w)
         \/ AdjustPool(w)
    \/ \E i \in DOMAIN orders : CancelOrder(i)

TradeSpec == TradeInit /\ [][TradeNext]_tradeVars
-----------------------------------------------------------------------------
\* Types.
TradeTypeOK ==
    /\ TypeOK
    /\ \A i \in DOMAIN orders : orders[i].value \in 0 .. orders[i].offered
    /\ earned \in [DOMAIN orders -> Nat]
    /\ \A w \in Wallets : plans[w].phase \in {"idle", "shown", "quoted", "built"}

(***************************************************************************)
(* Every maker is paid the price of the order for every lot that left it,   *)
(* although one transaction fills several orders and moves the pool: no     *)
(* payment stands for two orders and no stale plan fills an order twice.    *)
(***************************************************************************)
MakersPaid ==
    /\ TradeTypeOK
    /\ \A i \in DOMAIN orders :
        LET o    == orders[i]
            sold == o.offered - o.value
        IN  IF o.direction = "SellBase" THEN earned[i] = sold * o.price
                                        ELSE earned[i] * o.price = sold

(***************************************************************************)
(* A trade is the one that was confirmed.  Whatever happened since the user *)
(* saw the quote, the transaction that lands takes from the wallet what the *)
(* quote said, the network fee aside, and pays it what the quote said.      *)
(***************************************************************************)
WalletTotal(puts, asset) ==
    Total(SelectSeq(puts, LAMBDA p : p.script = "Wallet"), asset)

FeeIn(asset) == IF asset = FeeAsset THEN NetworkFee ELSE 0

Gained(tx, asset) ==
    WalletTotal(tx.outs, asset) - (WalletTotal(tx.ins, asset) - FeeIn(asset))

LandsAsShown(w) ==
    (plans[w].phase = "built" /\ BroadcastTrade(w)) =>
        /\ Gained(plans[w].tx, ReceiveAsset(plans[w])) = plans[w].shown.total_out
        /\ 0 - Gained(plans[w].tx, SendAsset(plans[w])) = plans[w].shown.total_in

TradesLandAsShown == \A w \in Wallets : LandsAsShown(w)

TradeAsConfirmed == [][TradesLandAsShown]_tradeVars

(***************************************************************************)
(* A trade that is built from what is still on the chain is accepted by the *)
(* pool's covenant, by every order's and by the ledger.  What the router    *)
(* and the builder do not look at is excepted: the pool's floors, a buy     *)
(* that the table prices at nothing, and an order that is filled up to a    *)
(* remainder below its minimum (a collateral order whose value is no        *)
(* multiple of its price), a route with one order in two legs, because it   *)
(* was announced twice, and an order that no fill of the builder satisfies: *)
(* quoted in another asset, with a cosigner, or announced with a nonce that *)
(* is not the one of its maker's address.                                   *)
(***************************************************************************)
LeavesDust(leg) ==
    LET o == orders[leg.order]
    IN  leg.is_partial /\ leg.remainder < MinRemainder * (IF o.direction = "SellBase" THEN 1 ELSE o.price)

Fillable(leg) ==
    leg.nonce = "own" /\ orders[leg.order].quote = "COL" /\ ~orders[leg.order].cosigned

FreshTradesLand ==
    \A w \in Wallets :
        LET plan == plans[w]
            leg  == pending[w]
        IN  (/\ plan.phase = "built" /\ OrdersLive(plan)
             /\ plan.pool => /\ leg.bundle = bundle /\ leg.deltaIn > 0
                             /\ ensure_reserve_floors(leg.next)
             /\ SpendsOnce(plan)
             /\ \A k \in DOMAIN plan.legs : Fillable(plan.legs[k]) /\ ~LeavesDust(plan.legs[k]))
            => TxAccepted(plan) /\ (plan.pool => Accepts(leg))

(***************************************************************************)
(* Trading implements the pool: whatever the orders do, each step is one of *)
(* LmsrPool's or leaves the pool alone, so that what holds of the pool's    *)
(* transitions holds of trades.                                             *)
(***************************************************************************)
TradingImplementsPool == Spec
=============================================================================
