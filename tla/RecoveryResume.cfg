CONSTANTS
    acct = acct  acct2 = acct2  sym = sym
    p1 = p1  p2 = p2  k1 = k1  k2 = k2  m1 = m1  m2 = m2
    Accounts = {acct}
    Symbols = {sym}
    Proposals = {p1}
    Keys = {k1, k2}
    Monitors = {m1}
    SymbolOf <- OneSymbol
    LotsOf <- TwoThenOne
    RefPrice <- AtHundred
    ExpiresAt <- ExpireLast
    InitialCash = 35000
    Prices = {100}
    Depths = {1, 2}
    Regimes = {"trading", "limit_up"}
    Commission = 50
    OrderTTL = 1
    MaxClock = 1
    MaxEvents = 2
    AccountOrder <- Visit
SPECIFICATION SettlementSpec
INVARIANTS
    HoldSticks
