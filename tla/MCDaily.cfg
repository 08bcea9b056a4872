CONSTANTS
    Providers = {"live", "recorded"}
    Batches <- MCBatches
    Failures = {"read_timeout", "status_401"}
    DayOf <- MCDayOf
    MaxAge = 1
    Skew = 1
    PollAttempts = 2
    Threshold = 2
    Recovery = 2
    Priority <- MCPriority
    ConflictPct = 3
    Recordings = {TRUE, FALSE}
    MaxPolls = 3
    MaxMoves = 0
    Instances = {i1, i2}
    MaxAttempts = 3
    MaxFailures = 3
    NoOne = NoOne
SPECIFICATION DailySpec
INVARIANTS
    RowsKept
    HealthEarned
    RunsExclusive
    OutcomesCounted
PROPERTIES
    SelectionNeverGoesBack
    CallEnds
