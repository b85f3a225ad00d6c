SPECIFICATION SoleSpec
CONSTANTS
    Rows = {r1}
    PowerLoss = FALSE
    Stamps = {1, 2, 3}
    MaxVaults = 3
    MaxMishaps = 2
INVARIANTS
    SoleVaultSurvives
