SPECIFICATION TradeSpec
CONSTANTS
    TableDepth = 2
    Table <- MCTable
    QStepLots = 2
    HalfPayout = 2
    FeeBps = 3000
    SMaxIndex = 3
    U64Max = 30
    Wallets = {a, b}
    Admin = a
    MinRYes = 1
    MinRNo = 1
    MinRCollateral = 1
    InitialBundles <- MCInitial
    AdjustReserves <- MCAdjust
    Inputs = {0, 1, 2, 3, 4, 5, 6, 7, 8, 9, 10}
    TradeInputs = {10}
    NetworkFee = 3
    CollateralIsPolicy = TRUE
    MaxTxs = 2
    MinFill = 1
    MinRemainder = 1
    InitialOrders <- MCOrders
    Fetches <- MCFetches
    Funding = {0, 2}
INVARIANTS
    MakersPaid
    ReservesFollowIndex
    FreshLegsLand
    FreshTradesLand
PROPERTIES
    SwapsNeverCostPool
    TradingImplementsPool
    TradeAsConfirmed
