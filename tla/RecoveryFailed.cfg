SPECIFICATION Spec
CONSTANTS
    Rows = {r1}
    PowerLoss = FALSE
    Stamps = {1, 2, 3}
    MaxVaults = 4
    MaxMishaps = 2
PROPERTIES
    RetryRecovers
