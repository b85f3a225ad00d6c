SPECIFICATION FairSpec
CONSTANTS
    MaxNest = 2
    MaxDownloads = 1
INVARIANTS
    IdleLockArmed
    UpdateIsClean
PROPERTIES
    LockedMeansLocked
    ClipboardCleared
CHECK_DEADLOCK FALSE
