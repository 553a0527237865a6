CONSTANTS
    CollateralPerToken = 1
    ExpiryTime = 1
    U64Max = 9
    FeeAmount = 1
    MaxAmount = 2
    MaxChain = 4
    DepositSlots = {}
SPECIFICATION ScannerSpec
INVARIANT
    WalkDerivesState
CHECK_DEADLOCK FALSE
