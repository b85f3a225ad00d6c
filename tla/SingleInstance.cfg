SPECIFICATION FairSpec
CONSTANTS
    p1 = p1
    p2 = p2
    p3 = p3
    Procs <- Launches
    CrashAt <- AlmostAnywhere
    MaxCrashes = 3
    QuitAt <- WhenQuiet
    Mishaps = TRUE
INVARIANTS
    OwnerIsReachable
PROPERTIES
    LaunchesSettle
