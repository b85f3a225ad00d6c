SPECIFICATION Spec
CONSTANTS
    Rows = {r1}
    PowerLoss = TRUE
    MaxCrashes = 2
    MaxFaults = 0
    MaxDamage = 1
    MaxRekeys = 0
INVARIANTS
    NeverCalledWrong
