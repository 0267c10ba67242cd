SPECIFICATION Spec
CONSTANTS
    Ids = {i1, i2}
    Users = {u1, u2, u3}
    Names = {n1, n2}
    Slugs = {s1, s2}
    Requests = {r1, r2}
    MaxWorkspaces = 1
    HasReplica = TRUE
    MaxRequests = 4
    Nobody = Nobody
SYMMETRY Symmetry
INVARIANTS
    TypeOK
    MembershipIsSound
    LimitExplained
CHECK_DEADLOCK FALSE
