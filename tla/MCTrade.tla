------------------------------- MODULE MCTrade -------------------------------
EXTENDS TradeExecution
MCTable == [i \in 0 .. 3 |-> <<8, 6, 6, 8>>[i + 1]]
Reserves(y, n, c) == [yes |-> y, no |-> n, collateral |-> c]
Request(s, market, table) ==
    [s |-> s, reserves |-> Reserves(4, 4, 10), ofMarket |-> market, table |-> table]
MCInitial == {Request(1, TRUE, "good"), Request(1, FALSE, "good"), Request(1, TRUE, "wrong")}
MCAdjust == {Reserves(6, 6, 8)}
LimitOrder(d, p, v) ==
    [direction |-> d, token |-> "YES", quote |-> "COL", cosigned |-> FALSE, price |-> p,
     value |-> v, offered |-> v, version |-> 0]
Sell3 == LimitOrder("SellBase", 3, 3)
Sell2 == LimitOrder("SellBase", 2, 2)
Buy(v) == LimitOrder("SellQuote", 2, v)
MCOrders == {<<Sell3, Sell2>>,
             <<Buy(4), [Sell2 EXCEPT !.cosigned = TRUE]>>,
             <<Buy(5), [Sell2 EXCEPT !.quote = "FOREIGN"]>>}
Own(i) == [order |-> i, nonce |-> "own"]
MCFetches == {<<Own(1), Own(2)>>, <<Own(2), [Own(1) EXCEPT !.nonce = "other"], Own(2)>>}
=============================================================================
