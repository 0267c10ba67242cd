SPECIFICATION LiveSpec
CONSTANTS
    c1 = c1
    c2 = c2
    c3 = c3
    c4 = c4
    s1 = s1
    s2 = s2
    Redirects = {c1, c2, c3, c4}
    Bots = {c4}
    Streams = {s1, s2}
    Watched <- TwoStreams
    Buffer = 1
INVARIANTS
    StreamTypeOK
    ShownInOrder
PROPERTIES
    LeavesNoGoroutine
    EventuallyShown
CHECK_DEADLOCK FALSE
