SPECIFICATION Spec
CONSTANTS
    Requests = {q1, q2}
    Limit = 2
    Window = 2
    BurstFactor = 2
    MaxNow = 6
    Idle = Idle
SYMMETRY Symmetry
INVARIANTS
    TypeOK
    RateBounded
CHECK_DEADLOCK FALSE
