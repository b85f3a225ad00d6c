SPECIFICATION FairSpec
CONSTANTS
    Rows = {r1, r2}
    PowerLoss = TRUE
    MaxCrashes = 2
    MaxFaults = 2
    MaxDamage = 0
    MaxRekeys = 1
INVARIANTS
    VaultOpens
    RightPasswordNeverRefused
PROPERTIES
    CopyOutlivesItsUse
    MigrationCompletes
