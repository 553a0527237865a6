SPECIFICATION PaymentsSpec
CONSTANTS
    c1 = c1
    c2 = c2
    Requests <- MCRequests
    MinSat = 2
    MaxSat = 4
    Networks = {"mainnet", "testnet"}
    Commands = {c1, c2}
    MaxSwaps = 2
    MaxStatus = 1
    MaxCrashes = 1
SYMMETRY CommandSymmetry
INVARIANTS
    NoSwapForgotten
    RecordMatchesService
