SPECIFICATION Spec
CONSTANTS
    Exponent = 2
    Merchant <- MCMerchant
    Parent <- MCParent
    Type <- MCType
    Households <- MCHouseholds
INVARIANTS
    ForecastMeetsTheBank
    MissedIsTold
    SummaryIsFair
    FiguresAgree
