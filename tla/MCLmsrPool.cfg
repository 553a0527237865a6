SPECIFICATION SyncSpec
CONSTANTS
    TableDepth = 2
    Table <- MCTable
    QStepLots = 2
    HalfPayout = 2
    FeeBps = 3000
    SMaxIndex = 3
    U64Max = 30
    Wallets = {a, b}
    Admin = a
    Local = a
    MinRYes = 1
    MinRNo = 1
    MinRCollateral = 1
    InitialBundles <- MCInitial
    AdjustReserves <- MCAdjust
    Inputs = {4}
    NetworkFee = 3
    CollateralIsPolicy = TRUE
    MaxTxs = 2
    IrreversibleConfirmations = 2
    Network = "own"
    AnnouncedState <- MCAnnounced
    RelayEvents = {"own", "wrong_table", "other_params", "other_pool", "other_network"}
    WalkLimit = 3
    MaxHeight = 2
INVARIANTS
    RecordedPricesFinal
    CanonicalRowIsBundle
    RowIsThisPool
    WalkErrorsExplained
PROPERTIES
    SyncIsComplete
