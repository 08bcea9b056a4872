------------------------------ MODULE Matching ------------------------------
(***************************************************************************)
(* The matching engine of src/app/backtest.py: what one daily bar does to  *)
(* one order.  The backtest engine, the in-memory paper service and the    *)
(* market monitor all fill their orders with it.                           *)
(*                                                                         *)
(* Money and prices are integers, counted in fen (0.01 yuan), the quantum  *)
(* money() rounds to; rates are in basis points.                           *)
(***************************************************************************)
EXTENDS Integers

CONSTANTS
    Rules,      \* [lot, tick, limit]: lot size, price tick, daily price limit
    Fees,       \* [buy, sell, minimum, tax, transfer, otherBuy, otherSell]
    Slippage    \* [buy, sell, participation]

ASSUME RulesAssumption ==
    /\ Rules \in [lot : Nat \ {0}, tick : Nat \ {0}, limit : 1..9999]
    /\ Fees \in [buy : Nat, sell : Nat, minimum : Nat, tax : Nat,
                 transfer : Nat, otherBuy : Nat, otherSell : Nat]
    /\ Slippage \in [buy : Nat, sell : 0..10000, participation : 1..10000]

Sides == {"BUY", "SELL"}
OrderTypes == {"MARKET_ON_NEXT_OPEN", "LIMIT"}

Bar == [open : Nat, high : Nat, low : Nat, close : Nat, volume : Nat,
        suspended : BOOLEAN]

\* One number for "no price" and "no limit price".
NoPrice == 0

Lesser(x, y) == IF x <= y THEN x ELSE y
Greater(x, y) == IF x >= y THEN x ELSE y
Basis == 10000

----------------------------------------------------------------------------
floor_to_lot(quantity) == Greater(0, (quantity \div Rules.lot) * Rules.lot)

\* A price of amount / scale moved to the next tick: up to buy, down to sell.
legal_price(amount, scale, side) ==
    LET ticks == IF side = "BUY"
                 THEN (amount + scale * Rules.tick - 1) \div (scale * Rules.tick)
                 ELSE amount \div (scale * Rules.tick)
    IN  ticks * Rules.tick

\* FeeModel.calculate
calculate(side, value) ==
    LET bps(rate) == (value * rate) \div Basis IN
    [commission |-> Greater(bps(IF side = "BUY" THEN Fees.buy ELSE Fees.sell),
                            Fees.minimum),
     tax |-> IF side = "SELL" THEN bps(Fees.tax) ELSE 0,
     other |-> bps(IF side = "BUY" THEN Fees.otherBuy ELSE Fees.otherSell)
               + bps(Fees.transfer)]

\* SlippageModel.apply
slipped(side, raw) ==
    legal_price(raw * (IF side = "BUY" THEN Basis + Slippage.buy
                                       ELSE Basis - Slippage.sell), Basis, side)

blocked_by_price_limit(side, bar, previous_close) ==
    LET up == legal_price(previous_close * (Basis + Rules.limit), Basis, "BUY")
        down == legal_price(previous_close * (Basis - Rules.limit), Basis, "SELL")
    IN  IF side = "BUY" THEN bar.open >= up /\ bar.low >= up
                        ELSE bar.open <= down /\ bar.high <= down

\* MatchingEngine._raw_price, for an order that is not a LIMIT without price
raw_price(order, bar) ==
    CASE order.type = "MARKET_ON_NEXT_OPEN" -> bar.open
      [] order.side = "BUY" /\ bar.low <= order.limit -> order.limit
      [] order.side = "SELL" /\ bar.high >= order.limit -> order.limit
      [] OTHER -> NoPrice

\* Quantity the bar's volume leaves to an order: whole lots for a buy.
liquidity(order, bar) ==
    LET open == Lesser(order.remaining,
                       floor_to_lot((bar.volume * Slippage.participation) \div Basis))
    IN  IF order.side = "BUY" THEN floor_to_lot(open) ELSE open

cost(price, quantity) ==
    LET fee == calculate("BUY", price * quantity)
    IN  price * quantity + fee.commission + fee.other

\* Quantity a buy can pay for: what the price allows, one lot less when the
\* fees do not fit (and that is not tried again).
affordable(price, quantity, cash) ==
    LET paid == Lesser(quantity, floor_to_lot(cash \div price))
    IN  IF cost(price, paid) > cash THEN floor_to_lot(paid - Rules.lot) ELSE paid

\* BacktestFill
NoFill == [quantity |-> 0]
fill_of(order, price, quantity, session) ==
    [side |-> order.side, quantity |-> quantity, price |-> price,
     value |-> price * quantity, session |-> session,
     fee |-> calculate(order.side, price * quantity)]

\* MatchingEngine.execute: the order's new status and open quantity, and the
\* fill.  cash and available are the portfolio's, for the order's symbol.
execute(order, bar, previous_close, cash, available, session) ==
    LET unfilled(status) ==
            [status |-> status, remaining |-> order.remaining, fill |-> NoFill]
        raw == raw_price(order, bar)
        open == liquidity(order, bar)
        price == slipped(order.side, raw)
        quantity == IF order.side = "SELL" THEN Lesser(open, available)
                                           ELSE affordable(price, open, cash)
    IN  IF order.status # "PENDING" \/ session < order.earliest
          THEN unfilled(order.status)
        ELSE IF session > order.expiry THEN unfilled("EXPIRED")
        ELSE IF bar.suspended \/ bar.volume <= 0 THEN unfilled("BLOCKED_SUSPENSION")
        ELSE IF blocked_by_price_limit(order.side, bar, previous_close)
          THEN unfilled("BLOCKED_PRICE_LIMIT")
        ELSE IF raw = NoPrice THEN unfilled("PENDING")
        ELSE IF open <= 0 THEN unfilled("BLOCKED_LIQUIDITY")
        ELSE IF order.side = "SELL" /\ available <= 0 THEN unfilled("BLOCKED_T1")
        ELSE IF order.side = "BUY" /\ quantity < Rules.lot THEN unfilled("REJECTED")
        ELSE [status |-> IF quantity = order.remaining THEN "FILLED"
                         ELSE "PARTIALLY_FILLED",
              remaining |-> order.remaining - quantity,
              fill |-> fill_of(order, price, quantity, session)]
=============================================================================
