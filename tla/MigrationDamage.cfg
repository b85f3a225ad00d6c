SPECIFICATION Spec
CONSTANTS
    Rows = {r1}
    PowerLoss = FALSE
    MaxCrashes = 3
    MaxFaults = 2
    MaxDamage = 2
    MaxRekeys = 1
INVARIANTS
    DamageIsOffered
PROPERTIES
    NeverBurnsTheOnlyCopy
