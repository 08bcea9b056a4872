CONSTANTS
    acct = acct  sym = sym
    p1 = p1  p2 = p2  k1 = k1  k2 = k2  m1 = m1  m2 = m2
    Accounts = {acct}
    Symbols = {sym}
    Proposals = {p1, p2}
    Keys = {k1, k2}
    Monitors = {m1, m2}
    SymbolOf <- OneSymbol
    LotsOf <- ThreeThenOne
    RefPrice <- AtHundred
    ExpiresAt <- SecondExpires
    InitialCash = 42000
    Prices = {100, 110}
    Depths = {0, 1, 2}
    Regimes = {"trading", "suspended", "no_volume", "limit_up"}
    Commission = 50
    OrderTTL = 1
    MaxClock = 1
    MaxEvents = 2
SPECIFICATION Spec
SYMMETRY MonitorSymmetry
INVARIANTS
    TypeOK
    OneOrderPerProposal
    OneFillPerEvent
    LedgerNeverAhead
    FrozenHasOwner
