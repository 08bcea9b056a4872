CONSTANTS
    Rules <- MCRules
    Fees <- MCFees
    Slippage <- MCSlippage
    Policy <- MCPolicy
    Symbols = {1, 2, 3}
    Listed = {1, 2}
    Days = {1, 2, 3, 5, 6, 7}
    Period = {1, 2, 3, 5}
    ActionLists <- MCActionLists
    BarSets <- MCBarSets
    SignalSets <- MCSignalSets
    StopRate = 9500
    FirstClose = 1000
    InitialCash = 100000
    DividendTax = 1000
    Expiry = 2
    FailClosed = FALSE
    RunIds = {1, 2}
SPECIFICATION Spec
INVARIANTS
    PositionsKept
    EquityReported
    OrdersHeedActions
    DividendsRight
