SPECIFICATION Spec
CONSTANTS
    MaxNest = 2
    MaxDownloads = 1
PROPERTIES
    OfferIsOfThisUnlock
CHECK_DEADLOCK FALSE
