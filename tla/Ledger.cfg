SPECIFICATION EitherSpec
CONSTANTS
    n1 = n1
    n2 = n2
    AccountNames <- TwoNames
    Files <- TwoFiles
    OtherSpans <- Wider
    Entries <- Typed
    Window = 1
    MaxTxnId = 3
    MaxPeriodId = 3
    MaxAccountId = 2
    Fold <- Spelling
    Patterns <- Looks
    Hits <- Found
    CategoryNames <- FoodOrPay
    Seed <- FoodSeeded
    Library <- KnowsCoffee
    Switches = {TRUE, FALSE}
    MaxCategoryId = 4
    MaxRuleId = 2
    MaxDepth = 2
    MaxManual = 1
SYMMETRY Symmetry
INVARIANTS
    LinksAreSound
    StatementKeepsItsRows
    BatchIsALoop
    FiledUnderALeaf
PROPERTIES
    ImportIsUnion
    FilingIsKept
