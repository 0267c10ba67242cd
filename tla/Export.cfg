SPECIFICATION FairSpec
CONSTANTS
    Pods = {p1, p2}
    MaxJobs = 2
    MaxRows = 2
    MaxConns = 1
    MaxSlips = 2
    SharedSecret = FALSE
    None = None
INVARIANTS
    TypeOK
    ExportIsWhole
    JobsAttended
PROPERTIES
    EventuallyFinished
CHECK_DEADLOCK FALSE
