CONSTANTS
    Takers = {t1, t2}
    ForeignTakers = {t1, t2}
    Maker = m
    Prices = {0, 2, 3}
    MinFill = 1
    MinRemainder = 1
    FeeAmount = 1
    U64Max = 12
    Surplus = {0, 1}
    MaxAmount = 5
    MaxTxs = 4
SPECIFICATION Spec
SYMMETRY TakerSymmetry
INVARIANTS
    MakerPaid
    FreshFillsLand
    MakerCanCancel
CHECK_DEADLOCK FALSE
