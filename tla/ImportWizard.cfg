SPECIFICATION Spec
CONSTANTS
    acc1 = acc1
    acc2 = acc2
    None = None
    Library <- Picked
    AccountIds <- TwoAccounts
    Numbers <- TwoNumbers
    Keys <- TwoKeys
    Passwords <- OnePassword
    Layouts <- TwoLayouts
    Reversed <- Backwards
    Past <- Vaults
    MaxFiles = 3
    MaxDrafts = 5
    MaxPrompts = 2
    MaxPicks = 2
    MaxBatchPick = 1
INVARIANTS
    ReportIsTrue
    NeverAsksTwice
    AnswersStayPut
PROPERTIES
    KeepsItsPromise
    BatchSettles
