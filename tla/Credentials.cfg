SPECIFICATION Spec
CONSTANTS
    k1 = k1
    t1 = t1
    Keys = {k1}
    Tokens = {t1}
    TokenExp <- Expiry1
    Expiries = {1, Never}
    Requests = {r1, r2}
    Skew = 1
    MaxTime = 3
    Never = Never
SYMMETRY Symmetry
INVARIANTS
    TypeOK
    RevokedIsRefused
CHECK_DEADLOCK FALSE
