SPECIFICATION ServicesSpec
CONSTANTS
    Askers = {a1, a2}
    Runners = {r1, r2}
    Enqueued = {"PRE_MARKET_RECOMMENDATION", "STOCK_NEWS_SYNC"}
    first = first
    second = second
    third = third
    Items = {first, second, third}
    Key <- KeyOfItem
    BatchesOf <- Batches
    MaxJobs = 1
    MaxKills = 1
    Messages = {m1, m2}
    TaskDates = {d1, d2}
    SendLimit = 1
    MaxSends = 2
    MaxLost = 1
    Threads = {h1, h2}
    Symbols = {share}
    TradingDays = {1, 2}
    FirstDay = 1
    LastDay = 3
    Fetched <- Histories
    MinBars = 1
    Lookback = 2
    MaxStale = 0
    RefreshLatest = FALSE
    PerSecond = 1
    PerMinute = 2
    MaxConcurrency = 1
    Second = 1
    Minute = 3
    FetchAttempts = 2
    Backoff = 1
    MaxBackoff = 2
    NoDay = noday
    NoBars = nobars
    MaxClock = 8
    MaxCalls = 2
    MaxMishaps = 1
INVARIANTS
    RowsTellTruth
    OneOfAKind
    DeliveryAccounted
    LimiterSound
    AnswersSound
PROPERTIES
    JobsFinish
    NotificationEnds
    CallReturns
