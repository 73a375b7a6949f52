SPECIFICATION FairSpec
CONSTANTS
    Workers = {w1, w2}
    NoRow = none
    Attempts = 2
    TTL = 1
    Poll = 1
    MaxTime = 4
INVARIANTS
    WorkingIsHealthy
PROPERTIES
    LoopGoesOn
CHECK_DEADLOCK FALSE
