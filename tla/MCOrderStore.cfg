CONSTANTS
    Takers = {t1}
    ForeignTakers = {}
    Maker = m
    Prices = {2}
    MinFill = 1
    MinRemainder = 1
    FeeAmount = 1
    U64Max = 12
    Surplus = {0}
    MaxAmount = 6
    MaxTxs = 5
SPECIFICATION StoreSpec
INVARIANTS
    PartialMeansPaid
PROPERTY
    StatusFollowsChain
CHECK_DEADLOCK FALSE
