SPECIFICATION FairSpec
CONSTANTS
    Events = {e1, e2, e3}
    Codes = {c1, c2}
    Capacity = 1
    BatchSize = 2
    MaxFaults = 1
    MayTimeOut = TRUE
INVARIANTS
    TypeOK
    CountsAreExact
    GracefulLosesNothing
PROPERTIES
    EventuallyCounted
CHECK_DEADLOCK FALSE
