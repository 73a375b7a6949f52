SPECIFICATION Ongoing
CONSTANTS
    LastMonth <- MCLastMonth
    First <- MCFirst
    Times <- MCTimes
    Workers = {w1, w2}
    Clients = {}
    Schedules = {s1, s2}
    Destinations = {d1}
    BatchSize = 1
    MaxConcurrent = 1
    RetryBudgets = {0, 1}
    Backoff = 1
    Period = 2
    Faults = {}
    None = None
    Null = Null
    MaxRuns = 3
    MaxEdits = 0
    Lag = 1
PROPERTIES
    RunsEnd
    DueSchedulesFire
