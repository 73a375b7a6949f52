SPECIFICATION Spec
CONSTANTS
    LastMonth <- MCLastMonth
    First <- MCFirst
    Times <- MCTimes
    Workers = {w1, w2}
    Clients = {}
    Schedules = {s1, s2}
    Destinations = {d1}
    BatchSize = 2
    MaxConcurrent = 2
    RetryBudgets = {1}
    Backoff = 1
    Period = 1
    Faults = {"crash", "db"}
    None = None
    Null = Null
    MaxRuns = 3
    MaxEdits = 0
    Lag = 1
SYMMETRY WorkerSymmetry
INVARIANTS
    SingleHolder
    MailAtMostOnce
    AttemptsMatchRetries
PROPERTIES
    ImplementsLifecycle
