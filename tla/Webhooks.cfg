SPECIFICATION FairSpec
CONSTANTS
    Hooks = {h1, h2}
    EventTypes = {t1}
    Events = {e1}
    Workers = {w1, w2}
    Registrars = {g1, g2}
    MaxWebhooks = 1
    MaxAttempts = 2
    BatchSize = 1
    HasReplica = TRUE
    MaxSlips = 1
    NoDelivery = NoDelivery
INVARIANTS
    TypeOK
    SettledForAReason
    ClaimsHold
    LimitExplained
PROPERTIES
    DeliveredIsFinal
    EventuallySettled
CHECK_DEADLOCK FALSE
