CONSTANTS
    Clients = {alice, bob}
    CollateralPerToken = 2
    ExpiryTime = 1
    U64Max = 9
    FeeAmount = 1
    Surplus = {0}
    MaxPairs = 1
    MaxHeight = 1
    MaxTxs = 5
SPECIFICATION Spec
SYMMETRY ClientSymmetry
INVARIANTS
    LiveSetCanonical
    OutcomeJustified
PROPERTY
    ImplementsLifecycle
CHECK_DEADLOCK FALSE
