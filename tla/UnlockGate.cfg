SPECIFICATION FairSpec
CONSTANTS
    BaseDelay = 1
    MaxDelay = 3
    CapN = 3
    MaxBack = 2
    MaxWrong = 4
    MaxKills = 1
    MaxSetBacks = 2
    MaxErrors = 1
INVARIANTS DerivationIsOwned
PROPERTIES GateHolds LockoutEnds OwnerGetsIn
