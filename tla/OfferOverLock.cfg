SPECIFICATION Spec
CONSTANTS
    MaxNest = 2
    MaxDownloads = 1
INVARIANTS
    OfferNeedsTheKey
CHECK_DEADLOCK FALSE
