CONSTANTS
    CollateralPerToken = 1
    ExpiryTime = 1
    U64Max = 9
    FeeAmount = 1
    MaxAmount = 2
    MaxChain = 5
    DepositSlots = {"UnresolvedCollateral"}
SPECIFICATION ScannerSpec
INVARIANTS
    BundleOnHistory
    ErrorOnlyIfRaced
PROPERTIES
    FreshAtReturn
    ScanTerminates
CHECK_DEADLOCK FALSE
