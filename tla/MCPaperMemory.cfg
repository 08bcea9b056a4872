CONSTANTS
    k1 = k1  k2 = k2  e1 = e1  e2 = e2
    Rules <- MCRules
    Fees <- MCFees
    Slippage <- MCSlippage
    Policy <- MCPolicy
    Symbols = {1, 2}
    Proposals <- MCProposals
    Keys = {k1, k2}
    Events = {e1, e2}
    Bars <- MCBars
    Previous = 1000
    Marks = {0, 790, 1090}
    SellQuantities = {10, 20}
    Limits = {0}
    InitialCash = 100000
    OrderTTL = 2
    MaxClock = 2
    MaxOrders = 3
    MaxAttempts = 2
    MaxCalls = 6
SPECIFICATION Spec
SYMMETRY Symmetry
INVARIANTS
    PositionsKept
    LedgerExplainsCash
    FrozenCashHasOrder
    StartedSessionReleased
