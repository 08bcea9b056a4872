CONSTANTS
    Providers = {"live"}
    Batches <- MCBatches
    Failures = {"status_429"}
    DayOf <- MCDayOf
    MaxAge = 1
    Skew = 1
    PollAttempts = 2
    Threshold = 2
    Recovery = 2
    Priority <- MCPriority
    ConflictPct = 3
    Recordings = {FALSE}
    MaxPolls = 3
    MaxMoves = 2
    Provider = "live"
    Configured = TRUE
    Half <- MCHalf
    TradingDays = {1}
    MinDays = 1
    MinAvailable = 99
    MaxEvaluations = 1
    browser = browser
    Users = {alice, bob}
    Admin = alice
    Browsers = {browser}
    Tabs = {t1, t2}
    BrowserOf <- OneBrowser
    SessionIds = {s1}
    Nobody = nobody
    NoSession = none
    FailureLimit = 1
    Lockout = 1
    AccessLife = 1
    RefreshLife = 1
    MaxTime = 2
    MaxTokens = 3
    MaxChanges = 1
    MaxWrong = 1
SPECIFICATION Spec
INVARIANTS
    AdmissionEarned
    PassedMeansUntouched
    SessionsSound
PROPERTIES
    CheckImpliesRun
    RevokedForGood
