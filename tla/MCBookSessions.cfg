CONSTANTS
    acct = acct  sym = sym  p1 = p1  p2 = p2
    Accounts = {acct}
    Symbols = {sym}
    Proposals = {p1, p2}
    Keys = {k1, k2}
    Monitors = {m1, m2}
    Requests = {r1, r2}
    MaxOpen = 2
    SymbolOf <- OneSymbol
    LotsOf <- TwoThenOne
    RefPrice <- AtHundred
    ExpiresAt <- FirstExpires
    InitialCash = 35000
    Prices = {100}
    Depths = {1}
    Regimes = {"trading", "suspended"}
    Commission = 50
    OrderTTL = 1
    MaxClock = 0
    MaxEvents = 2
SPECIFICATION SessionsSpec
CONSTRAINT Within
SYMMETRY Interchangeable
INVARIANTS
    ConstraintsHold
PROPERTIES
    OnlyStaleWritesHurt
