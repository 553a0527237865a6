SPECIFICATION Spec
CONSTANTS
    s1 = s1
    s2 = s2
    Creations = {"a1", "a2"}
    Markets = {"A", "B"}
    MarketOf <- MCMarketOf
    Outcomes = {"ResolvedYes"}
    Syncs = {s1, s2}
    Ttl = 1
    Irreversible = 2
    MaxTime = 1
    MaxHeight = 2
    MaxMoves = 1
    MaxCandidates = 2
SYMMETRY SyncSymmetry
CHECK_DEADLOCK FALSE
INVARIANTS
    MarketKeepsCandidate
    PromotedIsIrreversible
    TagsMatchState
PROPERTIES
    ConfirmedNotPurged
    SyncedFromChain
