SPECIFICATION FairSpec
CONSTANTS
    Workspaces = {s1}
    Targets = {t1}
    Never = Never
    NoRow = NoRow
    Codes = {c1}
    Reserved = {}
    Writers = {w1, w2}
    Resolvers = {r1}
    HasReplica = TRUE
    Faults = {"redis", "db", "crash"}
    MaxRetries = 1
    MaxCommands = 3
    MaxNow = 1
    Times = {0}
    Keep = Keep
    Null = Null
    NoCode = NoCode
ACTION_CONSTRAINTS
    ThirdOvertakesUpdate
INVARIANTS
    TypeOK
    ServedWasStored
    LagIsExplained
    NegativeIsExplained
PROPERTIES
    ImplementsDirectory
    EventuallyCoherent
CHECK_DEADLOCK FALSE
