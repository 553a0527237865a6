----------------------------- MODULE MCLmsrPool -----------------------------
EXTENDS LmsrPoolSync
MCTable == [i \in 0 .. 3 |-> <<8, 6, 6, 8>>[i + 1]]
Reserves(y, n, c) == [yes |-> y, no |-> n, collateral |-> c]
Request(s, market, table) ==
    [s |-> s, reserves |-> Reserves(4, 4, 10), ofMarket |-> market, table |-> table]
MCInitial == {Request(1, TRUE, "good"), Request(1, FALSE, "good"), Request(1, TRUE, "wrong")}
MCAdjust == {Reserves(6, 6, 8)}
MCAnnounced == [s |-> 0, reserves |-> Reserves(1, 1, 1)]
=============================================================================
