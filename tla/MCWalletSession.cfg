CONSTANTS
    Callers = {c1, c2, c3}
    Mnemonics = {"old", "new"}
    MaxInFlight = 3
SPECIFICATION Spec
INVARIANTS
    FlagTellsNode
    SessionIsStoredWallet
PROPERTY
    AutoLocks
