CONSTANTS
    CollateralPerToken = 2
    U64Max = 24
SPECIFICATION Spec
INVARIANTS
    TypeOK
    FullyBacked
    TokensPaired
PROPERTY
    OutcomeFinal
CHECK_DEADLOCK FALSE
