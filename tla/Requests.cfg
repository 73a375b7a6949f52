SPECIFICATION Spec
CONSTANTS
    LastMonth <- MCLastMonth
    First <- MCFirst
    Times <- MCTimes
    Workers = {w1}
    Clients = {c1, c2}
    Schedules = {s1}
    Destinations = {d1, d2}
    BatchSize = 1
    MaxConcurrent = 2
    RetryBudgets = {1}
    Backoff = 1
    Period = 1
    Faults = {"db"}
    None = None
    Null = Null
    MaxRuns = 2
    MaxEdits = 1
    Lag = 0
SYMMETRY ClientSymmetry
INVARIANTS
    ScheduledRunStartsAlone
    MailOnRecord
    ActiveScheduleIsTimed
PROPERTIES
    OrphansStay
    OrphansHaveACause
