SPECIFICATION ListingSpec
CONSTANTS
    Ids = {1, 2, 3, 4}
    Queries <- SmallQueries
    DefaultLimit = 2
    MaxLimit = 3
    Half = 128
    MaxLag = 2
INVARIANTS
    ListingTypeOK
    WalkIsExact
CHECK_DEADLOCK FALSE
