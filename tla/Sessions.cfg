SPECIFICATION Spec
CONSTANTS
    Requests = {r1, r2, r3}
    Emails = {e1, e2}
    None = none
    Lifetime = 1
    MaxTime = 1
INVARIANTS
    LogoutHolds
    CookieIsBacked
CHECK_DEADLOCK FALSE
