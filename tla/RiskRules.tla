------------------------------ MODULE RiskRules ------------------------------
(***************************************************************************)
(* The risk engine of src/app/risk.py: from an account snapshot and a      *)
(* signal to a decision and, from the decision, to a proposal.  Money is   *)
(* in fen, ratios of the policy are in basis points.                       *)
(***************************************************************************)
EXTENDS Integers, FiniteSetsExt

CONSTANT Policy     \* RiskPolicy

ASSUME PolicyAssumption ==
    /\ Policy \in [risk : 0..10000, symbol : 0..10000, portfolio : 0..10000,
                   reduced : 0..10000, industry : 0..10000, daily : 0..10000,
                   losses : Nat \ {0}, reduceAt : 0..10000, offAt : 0..10000,
                   lot : Nat \ {0}]
    /\ Policy.risk < Policy.symbol
    /\ Policy.symbol <= Policy.portfolio
    /\ Policy.reduced <= Policy.portfolio
    /\ Policy.reduceAt < Policy.offAt

RiskStatus == {"APPROVED", "REDUCED", "REJECTED", "RISK_OFF", "INVALID_INPUT"}
BuySignals == {"BUY_WATCH", "BUY_CONFIRM"}

\* AccountSnapshot; symbolValue and industryValue are the market value of the
\* positions in the signal's symbol and industry (-1: no industry given).
AccountSnapshot ==
    [equity : Nat \ {0}, cash : Nat, marketValue : Nat, frozen : Nat,
     dailyPnl : Int, peak : Nat, losses : Nat,
     symbolValue : Nat, industryValue : Int]
NoIndustry == -1

\* floor_to_lot
WholeLots(quantity) ==
    IF quantity <= 0 THEN 0 ELSE (quantity \div Policy.lot) * Policy.lot

\* Shares at a price that still fit under a share of the equity.
Capacity(account, limit, held, price) ==
    LET room == (account.equity * limit) \div 10000 - held
    IN  WholeLots(IF room <= 0 THEN 0 ELSE room \div price)

Drawdown(account) == ((account.peak - account.equity) * 10000) \div account.peak

PortfolioLimit(account) ==
    IF Drawdown(account) >= Policy.reduceAt THEN Policy.reduced
                                            ELSE Policy.portfolio

\* The smallest of the quantities the rules allow.
Allowed(account, reference, stop) ==
    Min({WholeLots(((account.equity * Policy.risk) \div 10000)
                      \div (reference - stop)),
         WholeLots(account.cash \div reference),
         Capacity(account, Policy.symbol, account.symbolValue, reference),
         Capacity(account, PortfolioLimit(account), account.marketValue,
                  reference)}
        \cup (IF account.industryValue = NoIndustry THEN {}
              ELSE {Capacity(account, Policy.industry, account.industryValue,
                             reference)}))

RiskOff(account) ==
    \/ -account.dailyPnl >= (account.equity * Policy.daily) \div 10000
    \/ account.losses >= Policy.losses
    \/ Drawdown(account) >= Policy.offAt

\* RiskEngine.evaluate
evaluate(signal, account, reference, stop) ==
    LET finish(status, approved) == [status |-> status, approved |-> approved]
    IN  IF signal = "DATA_ERROR" THEN finish("INVALID_INPUT", 0)
        ELSE IF signal \notin BuySignals THEN finish("REJECTED", 0)
        ELSE IF \/ stop >= reference
                \/ reference <= 0
                \/ account.peak <= 0 THEN finish("INVALID_INPUT", 0)
        ELSE IF RiskOff(account) THEN finish("RISK_OFF", 0)
        ELSE LET approved == Allowed(account, reference, stop)
             IN  IF approved < Policy.lot THEN finish("REJECTED", 0)
                 ELSE finish(IF Drawdown(account) >= Policy.reduceAt
                             THEN "REDUCED" ELSE "APPROVED", approved)

\* The decisions that lead to an order (create_order_proposal).
Proposes(signal, decision) ==
    /\ signal \in BuySignals
    /\ decision.status \in {"APPROVED", "REDUCED"}
    /\ decision.approved > 0
=============================================================================
