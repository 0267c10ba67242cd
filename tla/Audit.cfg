SPECIFICATION FairSpec
CONSTANTS
    Requests = {r1, r2, r3, r4}
    Capacity = 2
    BatchSize = 2
    MaxFaults = 2
    MayTimeOut = TRUE
INVARIANTS
    TypeOK
    TrailIsExact
PROPERTIES
    EventuallyAudited
    EventuallyStops
CHECK_DEADLOCK FALSE
