CONSTANTS
    Providers = {"live"}
    Batches <- MCBatches
    Failures = {"status_429"}
    DayOf <- MCLongDayOf
    MaxAge = 2
    Skew = 1
    PollAttempts = 2
    Threshold = 2
    Recovery = 2
    Priority <- MCPriority
    ConflictPct = 3
    Recordings = {FALSE}
    MaxPolls = 3
    MaxMoves = 1
    Provider = "live"
    Configured = TRUE
    Half <- MCLongHalf
    TradingDays = {1}
    MinDays = 1
    MinAvailable = 99
    MaxEvaluations = 1
SPECIFICATION AdmissionSpec
INVARIANTS
    CompleteDayCleanSchema
