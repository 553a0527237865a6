CONSTANTS
    Clients = {alice}
    CollateralPerToken = 2
    ExpiryTime = 1
    U64Max = 13
    FeeAmount = 1
    Surplus = {0, 1}
    MaxPairs = 2
    MaxHeight = 1
    MaxTxs = 5
SPECIFICATION Spec
INVARIANTS
    FreshRequestsLand
    HoldersCanExit
CHECK_DEADLOCK FALSE
