SPECIFICATION FairSpec
CONSTANTS
    Requests = {r1, r2}
    Fingerprints = {f1, f2}
    Nobody = nobody
    NoRow = none
    TTL = 1
    Timeout = 1
    MaxTime = 4
    MaxRuns = 1
INVARIANTS
    StaleNoLonger
    FailsOnlyWithARival
PROPERTIES
    EveryRequestEnds
CHECK_DEADLOCK FALSE
