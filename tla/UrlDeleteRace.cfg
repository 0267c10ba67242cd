SPECIFICATION Spec
CONSTANTS
    Workspaces = {s1}
    Targets = {t1}
    Never = Never
    NoRow = NoRow
    Codes = {c1}
    Reserved = {}
    Writers = {w1}
    Resolvers = {r1}
    HasReplica = FALSE
    Faults = {}
    MaxRetries = 3
    MaxCommands = 2
    MaxNow = 1
    Times = {0}
    Keep = Keep
    Null = Null
    NoCode = NoCode
INVARIANTS
    DeletedNotServed
CHECK_DEADLOCK FALSE
