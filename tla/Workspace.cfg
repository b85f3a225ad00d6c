SPECIFICATION WindowSpec
CONSTANTS
    Vaults <- MCVaults
    MaxEdits = 2
    AccountNames = {1, 2, 3}
    Files <- Till
    OtherSpans <- NoSpans
    Entries <- Typed
    Window = 1
    MaxTxnId = 4
    MaxPeriodId = 3
    MaxAccountId = 3
    Fold <- Spelling
    Patterns = {"cof"}
    Hits <- Found
    CategoryNames = {"New"}
    Seed <- Defaults
    Library <- NoLibrary
    Switches = {TRUE}
    MaxCategoryId = 7
    MaxRuleId = 3
    MaxDepth = 2
    MaxManual = 1
    MaxScreens = 3
    MaxLoops = 2
INVARIANTS
    ScreenFollowsVault
    HitsWhatWasPicked
    WipedForGood
PROPERTIES
    TreeStaysShallow
