SPECIFICATION Spec
CONSTANTS
    Rows = {r1}
    PowerLoss = TRUE
    Stamps = {1, 2, 3}
    MaxVaults = 4
    MaxMishaps = 1
INVARIANTS
    NothingIsLost
    NoDeadEnd
    UnlockOpensOwnVault
    SessionIsDurable
PROPERTIES
    ResetLeavesNothing
