--------------------------- MODULE MatchingProofs ---------------------------
(***************************************************************************)
(* What the matching engine and the risk engine return, for every order,    *)
(* bar, portfolio and configuration: the bounds the books rely on.          *)
(***************************************************************************)
EXTENDS Matching, RiskRules, TLAPS

\* A fill, as the engine makes it.
Fill == [side : Sides, quantity : Nat \ {0}, price : Nat, value : Nat, session : Int,
         fee : [commission : Nat, tax : Nat, other : Nat]]

\* An order that the engine can be asked about.
Matchable ==
    [status : {"PENDING"}, side : Sides, type : OrderTypes, limit : Nat, remaining : Nat,
     earliest : Int, expiry : Int]

\* The rates of the slippage model.
LEMMA SlippageType ==
    /\ Slippage.buy \in Nat
    /\ Slippage.sell \in Int /\ 0 <= Slippage.sell /\ Slippage.sell <= 10000
    /\ Slippage.participation \in Nat
  <1>1. /\ Slippage.buy \in Nat /\ Slippage.sell \in 0..10000
        /\ Slippage.participation \in 1..10000
    BY RulesAssumption
  <1> DEFINE sell == Slippage.sell
             share == Slippage.participation
  <1>2. sell \in 0..10000 /\ share \in 1..10000
    BY <1>1
  <1> HIDE DEF sell, share
  <1>3. sell \in Int /\ 0 <= sell /\ sell <= 10000
    BY <1>2
  <1>4. share \in Nat
    BY <1>2
  <1> QED BY <1>1, <1>3, <1>4 DEF sell, share

\* The ratios of the risk policy that bound a position.
LEMMA PolicyType ==
    /\ Policy.risk \in Nat /\ Policy.symbol \in Nat /\ Policy.reduced \in Nat
    /\ Policy.portfolio \in Nat
  <1>1. Policy.risk \in Nat
    <2>1. Policy.risk \in 0..10000
      BY PolicyAssumption
    <2>2. PICK r \in 0..10000 : r = Policy.risk
      BY <2>1
    <2>3. r \in Nat
      OBVIOUS
    <2> QED BY <2>2, <2>3
  <1>2. Policy.symbol \in Nat
    <2>1. Policy.symbol \in 0..10000
      BY PolicyAssumption
    <2>2. PICK r \in 0..10000 : r = Policy.symbol
      BY <2>1
    <2>3. r \in Nat
      OBVIOUS
    <2> QED BY <2>2, <2>3
  <1>3. Policy.reduced \in Nat
    <2>1. Policy.reduced \in 0..10000
      BY PolicyAssumption
    <2>2. PICK r \in 0..10000 : r = Policy.reduced
      BY <2>1
    <2>3. r \in Nat
      OBVIOUS
    <2> QED BY <2>2, <2>3
  <1>4. Policy.portfolio \in Nat
    <2>1. Policy.portfolio \in 0..10000
      BY PolicyAssumption
    <2>2. PICK r \in 0..10000 : r = Policy.portfolio
      BY <2>1
    <2>3. r \in Nat
      OBVIOUS
    <2> QED BY <2>2, <2>3
  <1> QED BY <1>1, <1>2, <1>3, <1>4

\* Whole lots of a quantity are some of it.
LEMMA LotsFit ==
    ASSUME NEW quantity \in Int
    PROVE  /\ floor_to_lot(quantity) \in Nat
           /\ floor_to_lot(quantity) <= Greater(0, quantity)
  <1>1. Rules.lot \in Nat \ {0}
    BY RulesAssumption
  <1> DEFINE lot == Rules.lot
  <1> HIDE DEF lot
  <1>2. lot \in Nat \ {0}
    BY <1>1 DEF lot
  <1>3. quantity \div lot \in Int /\ (quantity \div lot) * lot <= quantity
        /\ (quantity \div lot) * lot \in Int
    BY <1>2
  <1>4. floor_to_lot(quantity) = Greater(0, (quantity \div lot) * lot)
    BY DEF floor_to_lot, lot
  <1> DEFINE whole == (quantity \div lot) * lot
  <1> HIDE DEF whole
  <1>5. whole \in Int /\ whole <= quantity /\ floor_to_lot(quantity) = Greater(0, whole)
    BY <1>3, <1>4 DEF whole
  <1> QED BY <1>5 DEF Greater

\* A product of natural numbers, in parts per ten thousand, is one.
LEMMA RateType ==
    ASSUME NEW value \in Nat, NEW rate \in Nat
    PROVE  (value * rate) \div Basis \in Nat
  <1>1. value * rate \in Nat
    OBVIOUS
  <1> DEFINE n == value * rate
  <1> HIDE DEF n
  <1>2. n \div 10000 \in Nat
    BY <1>1 DEF n
  <1> QED BY <1>2 DEF Basis, n

\* The fees of a trade are natural numbers.
LEMMA FeesType ==
    ASSUME NEW side \in Sides, NEW value \in Nat
    PROVE  calculate(side, value) \in [commission : Nat, tax : Nat, other : Nat]
  <1> DEFINE bps(rate) == (value * rate) \div Basis
  <1>1. /\ Fees.buy \in Nat /\ Fees.sell \in Nat /\ Fees.minimum \in Nat /\ Fees.tax \in Nat
        /\ Fees.transfer \in Nat /\ Fees.otherBuy \in Nat /\ Fees.otherSell \in Nat
    BY RulesAssumption
  <1>2. /\ bps(Fees.buy) \in Nat /\ bps(Fees.sell) \in Nat /\ bps(Fees.tax) \in Nat
        /\ bps(Fees.transfer) \in Nat /\ bps(Fees.otherBuy) \in Nat
        /\ bps(Fees.otherSell) \in Nat
    <2> HIDE DEF bps
    <2>1. \A rate \in Nat : bps(rate) \in Nat
      BY RateType DEF bps
    <2> QED BY <1>1, <2>1
  <1>3. calculate(side, value) =
          [commission |-> Greater(IF side = "BUY" THEN bps(Fees.buy) ELSE bps(Fees.sell),
                                  Fees.minimum),
           tax |-> IF side = "SELL" THEN bps(Fees.tax) ELSE 0,
           other |-> (IF side = "BUY" THEN bps(Fees.otherBuy) ELSE bps(Fees.otherSell))
                     + bps(Fees.transfer)]
    BY DEF calculate
  <1> HIDE DEF bps
  <1> QED BY <1>1, <1>2, <1>3 DEF Greater

\* Without rates for them there are no other fees.
LEMMA NoOtherFees ==
    ASSUME NEW side \in Sides, NEW value \in Nat,
           Fees.otherBuy = 0, Fees.otherSell = 0, Fees.transfer = 0
    PROVE  calculate(side, value).other = 0
  <1>1. value * 0 = 0 /\ 0 \div 10000 = 0
    OBVIOUS
  <1> QED BY <1>1 DEF calculate, Basis

\* A price moved to a tick is no negative one, and a price to buy at is not zero.
LEMMA SlippedType ==
    ASSUME NEW side \in Sides, NEW raw \in Nat \ {0}
    PROVE  slipped(side, raw) \in Nat /\ (side = "BUY" => slipped(side, raw) # 0)
  <1>1. Rules.tick \in Nat \ {0}
    BY RulesAssumption
  <1> DEFINE tick == Rules.tick
             up == 10000 + Slippage.buy
             down == 10000 - Slippage.sell
             scale == 10000 * tick
  <1>2. tick \in Nat \ {0} /\ up \in Nat \ {0} /\ down \in Nat
    BY <1>1, SlippageType
  <1> HIDE DEF tick, up, down
  <1>3. scale \in Nat \ {0} /\ raw * up \in Nat \ {0} /\ raw * down \in Nat
    BY <1>2
  <1> HIDE DEF scale
  <1>4. CASE side = "BUY"
    <2> DEFINE amount == raw * up
               ticks == (amount + scale - 1) \div scale
    <2>1. slipped(side, raw) = ticks * tick
      BY <1>4 DEF slipped, legal_price, Basis, tick, up, scale
    <2>2. amount + scale - 1 \in Nat /\ amount + scale - 1 >= scale
      BY <1>3
    <2> DEFINE n == amount + scale - 1
    <2> HIDE DEF n
    <2>3. n \in Nat /\ n >= scale
      BY <2>2 DEF n
    <2>4. n \div scale \in Nat /\ n \div scale >= 1
      BY <1>3, <2>3
    <2>5. ticks \in Nat \ {0}
      BY <2>4 DEF n
    <2> HIDE DEF ticks
    <2>6. ticks * tick \in Nat \ {0}
      BY <1>2, <2>5
    <2> QED BY <2>1, <2>6
  <1>5. CASE side = "SELL"
    <2> DEFINE amount == raw * down
               ticks == amount \div scale
    <2>1. slipped(side, raw) = ticks * tick
      BY <1>5 DEF slipped, legal_price, Basis, tick, down, scale
    <2> HIDE DEF amount
    <2>2. amount \in Nat
      BY <1>3 DEF amount
    <2>3. ticks \in Nat
      BY <1>3, <2>2
    <2> HIDE DEF ticks
    <2>4. ticks * tick \in Nat
      BY <1>2, <2>3
    <2> QED BY <1>5, <2>1, <2>4
  <1> QED BY <1>4, <1>5 DEF Sides

\* What the volume of a bar leaves to an order is no more than is open of it.
LEMMA LiquidityFits ==
    ASSUME NEW order \in Matchable, NEW bar \in Bar
    PROVE  liquidity(order, bar) \in Nat /\ liquidity(order, bar) <= order.remaining
  <1> DEFINE share == (bar.volume * Slippage.participation) \div Basis
             open == Lesser(order.remaining, floor_to_lot(share))
  <1>1. order.remaining \in Nat /\ bar.volume \in Nat /\ Slippage.participation \in Nat
    BY SlippageType DEF Matchable, Bar
  <1>2. share \in Nat
    BY <1>1, RateType
  <1> HIDE DEF share
  <1>3. floor_to_lot(share) \in Nat
    BY <1>2, LotsFit
  <1>4. open \in Nat /\ open <= order.remaining
    BY <1>1, <1>3 DEF Lesser
  <1>5. liquidity(order, bar) = IF order.side = "BUY" THEN floor_to_lot(open) ELSE open
    BY DEF liquidity, share
  <1> HIDE DEF open
  <1>6. floor_to_lot(open) \in Nat /\ floor_to_lot(open) <= open
    BY <1>4, LotsFit DEF Greater
  <1> QED BY <1>1, <1>4, <1>5, <1>6

\* A buy is trimmed to what its cash pays for, never beyond what was asked.
LEMMA AffordableFits ==
    ASSUME NEW price \in Nat \ {0}, NEW quantity \in Nat, NEW cash \in Int
    PROVE  affordable(price, quantity, cash) \in Nat
           /\ affordable(price, quantity, cash) <= quantity
  <1> DEFINE paid == Lesser(quantity, floor_to_lot(cash \div price))
  <1>1. cash \div price \in Int
    OBVIOUS
  <1>2. floor_to_lot(cash \div price) \in Nat
    BY <1>1, LotsFit
  <1>3. paid \in Nat /\ paid <= quantity
    BY <1>2 DEF Lesser
  <1>4. affordable(price, quantity, cash) =
          IF cost(price, paid) > cash THEN floor_to_lot(paid - Rules.lot) ELSE paid
    BY DEF affordable
  <1> HIDE DEF paid
  <1>5. Rules.lot \in Nat
    BY RulesAssumption
  <1>6. /\ floor_to_lot(paid - Rules.lot) \in Nat
        /\ floor_to_lot(paid - Rules.lot) <= Greater(0, paid - Rules.lot)
    BY <1>3, <1>5, LotsFit
  <1>7. floor_to_lot(paid - Rules.lot) <= quantity
    BY <1>3, <1>5, <1>6 DEF Greater
  <1> QED BY <1>3, <1>4, <1>6, <1>7

\* What the engine says of an order: it fills a part of what is open, of a sell no more
\* than there is to sell, or names a reason not to and leaves the order as it was.
LEMMA ExecuteType ==
    ASSUME NEW order \in Matchable, NEW bar \in Bar,
           NEW previous \in Nat, NEW cash \in Int, NEW available \in Nat,
           NEW session \in Int
    PROVE  LET result == execute(order, bar, previous, cash, available, session)
           IN  \/ /\ result.fill = NoFill
                  /\ result.remaining = order.remaining
                  /\ result.status \in {"PENDING", "EXPIRED", "BLOCKED_SUSPENSION",
                         "BLOCKED_PRICE_LIMIT", "BLOCKED_LIQUIDITY", "BLOCKED_T1",
                         "REJECTED"}
               \/ /\ result.fill # NoFill
                  /\ result.status = IF result.remaining = 0 THEN "FILLED"
                                     ELSE "PARTIALLY_FILLED"
                  /\ result.fill \in Fill /\ result.fill.side = order.side
                  /\ result.fill.value = result.fill.price * result.fill.quantity
                  /\ result.fill.fee = calculate(order.side, result.fill.value)
                  /\ result.fill.quantity <= order.remaining
                  /\ result.remaining = order.remaining - result.fill.quantity
                  /\ order.side = "SELL" => result.fill.quantity <= available
  <1> DEFINE result == execute(order, bar, previous, cash, available, session)
             raw == raw_price(order, bar)
             open == liquidity(order, bar)
             price == slipped(order.side, raw)
             quantity == IF order.side = "SELL" THEN Lesser(open, available)
                         ELSE affordable(price, open, cash)
             fill == fill_of(order, price, quantity, session)
             stopped == /\ result.fill = NoFill
                        /\ result.remaining = order.remaining
                        /\ result.status \in {"PENDING", "EXPIRED", "BLOCKED_SUSPENSION",
                               "BLOCKED_PRICE_LIMIT", "BLOCKED_LIQUIDITY", "BLOCKED_T1",
                               "REJECTED"}
             met == /\ raw # NoPrice /\ open > 0
                    /\ order.side = "SELL" => available > 0
                    /\ order.side = "BUY" => ~(quantity < Rules.lot)
  <1>1. /\ order.status = "PENDING"
        /\ order.remaining \in Nat /\ order.side \in Sides /\ order.limit \in Nat
        /\ order.earliest \in Int /\ order.expiry \in Int /\ bar.open \in Nat
    BY DEF Matchable, Bar
  <1>3. raw \in Nat
    BY <1>1 DEF raw_price, NoPrice
  <1>4. open \in Nat /\ open <= order.remaining
    BY LiquidityFits
  <1>2. stopped \/ (met /\ result = [status |-> IF quantity = order.remaining THEN "FILLED"
                                              ELSE "PARTIALLY_FILLED",
                                   remaining |-> order.remaining - quantity, fill |-> fill])
    <2> DEFINE early == session < order.earliest
               late == session > order.expiry
               still == bar.suspended \/ bar.volume <= 0
               blocked == blocked_by_price_limit(order.side, bar, previous)
               none == order.side = "SELL" /\ available <= 0
               short == order.side = "BUY" /\ quantity < Rules.lot
               done == [status |-> IF quantity = order.remaining THEN "FILLED"
                                   ELSE "PARTIALLY_FILLED",
                        remaining |-> order.remaining - quantity, fill |-> fill]
               unfilled(status) ==
                  [status |-> status, remaining |-> order.remaining, fill |-> NoFill]
    <2> HIDE DEF raw, open, price, quantity, fill
    <2>1. result = IF early THEN unfilled("PENDING")
                   ELSE IF late THEN unfilled("EXPIRED")
                   ELSE IF still THEN unfilled("BLOCKED_SUSPENSION")
                   ELSE IF blocked THEN unfilled("BLOCKED_PRICE_LIMIT")
                   ELSE IF raw = NoPrice THEN unfilled("PENDING")
                   ELSE IF open <= 0 THEN unfilled("BLOCKED_LIQUIDITY")
                   ELSE IF none THEN unfilled("BLOCKED_T1")
                   ELSE IF short THEN unfilled("REJECTED")
                   ELSE done
      BY <1>1 DEF execute, raw, open, price, quantity, fill
    <2> HIDE DEF result, early, late, still, blocked, none, short, done
    <2>2. \/ \E status \in {"PENDING", "EXPIRED", "BLOCKED_SUSPENSION",
                            "BLOCKED_PRICE_LIMIT", "BLOCKED_LIQUIDITY", "BLOCKED_T1",
                            "REJECTED"} : result = unfilled(status)
          \/ /\ raw # NoPrice /\ ~(open <= 0) /\ ~none /\ ~short
             /\ result = done
      <3> HIDE DEF unfilled
      <3> QED BY <2>1
    <2>3. ~(open <= 0) => open > 0
      <3>1. open \in Int
        BY <1>4
      <3> QED BY <3>1
    <2> QED BY <2>2, <2>3 DEF none, short, done
  <1> SUFFICES ASSUME met, result = [status |-> IF quantity = order.remaining THEN "FILLED"
                                              ELSE "PARTIALLY_FILLED",
                                   remaining |-> order.remaining - quantity, fill |-> fill]
               PROVE  /\ fill # NoFill /\ quantity \in Nat \ {0}
                      /\ fill \in Fill /\ quantity <= order.remaining
                      /\ order.side = "SELL" => quantity <= available
    <2> HIDE DEF met, quantity, price
    <2> QED BY <1>1, <1>2, <1>4 DEF fill_of
  <1>5. price \in Nat /\ (order.side = "BUY" => price # 0)
    BY <1>1, <1>3, SlippedType DEF NoPrice
  <1> HIDE DEF raw, open, price
  <1>6. quantity \in Nat \ {0} /\ quantity <= open
        /\ (order.side = "SELL" => quantity <= available)
    <2>1. CASE order.side = "SELL"
      BY <1>4, <2>1 DEF Lesser
    <2>2. CASE order.side = "BUY"
      <3>1. affordable(price, open, cash) \in Nat /\ affordable(price, open, cash) <= open
        BY <1>4, <1>5, <2>2, AffordableFits
      <3>2. Rules.lot \in Nat \ {0}
        BY RulesAssumption
      <3> QED BY <2>2, <3>1, <3>2
    <2> QED BY <1>1, <2>1, <2>2 DEF Sides
  <1> HIDE DEF quantity
  <1>7. price * quantity \in Nat
    BY <1>5, <1>6
  <1>8. calculate(order.side, price * quantity) \in [commission : Nat, tax : Nat, other : Nat]
    BY <1>1, <1>7, FeesType
  <1>9. fill \in Fill
    BY <1>1, <1>5, <1>6, <1>7, <1>8 DEF fill_of, Fill
  <1>10. fill # NoFill
    <2>1. DOMAIN fill # DOMAIN NoFill
      BY DEF fill_of, NoFill
    <2> QED BY <2>1
  <1> QED BY <1>4, <1>1, <1>6, <1>9, <1>10

\* What the risk engine approves is a number of shares.
LEMMA ApprovedType ==
    ASSUME NEW signal, NEW account, account.equity \in Int, account.cash \in Int,
           account.symbolValue \in Int, account.marketValue \in Int,
           account.industryValue = NoIndustry,
           NEW reference \in Nat \ {0}, NEW stop \in Nat, stop < reference
    PROVE  evaluate(signal, account, reference, stop).approved \in Nat
  <1>1. \A q \in Int : WholeLots(q) \in Nat
    <2> SUFFICES ASSUME NEW q \in Nat PROVE (q \div Policy.lot) * Policy.lot \in Nat
      BY DEF WholeLots
    <2>1. Policy.lot \in Nat \ {0}
      BY PolicyAssumption
    <2> DEFINE lot == Policy.lot
    <2> HIDE DEF lot
    <2>2. lot \in Nat \ {0}
      BY <2>1 DEF lot
    <2>3. (q \div lot) * lot \in Nat
      BY <2>2
    <2> QED BY <2>3 DEF lot
  <1>2. \A limit \in Nat : (account.equity * limit) \div 10000 \in Int
    OBVIOUS
  <1>3. ASSUME NEW limit \in Nat, NEW held \in Int
        PROVE  Capacity(account, limit, held, reference) \in Nat
    <2> DEFINE room == (account.equity * limit) \div 10000 - held
    <2>1. room \in Int
      BY <1>2
    <2>2. Capacity(account, limit, held, reference)
            = WholeLots(IF room <= 0 THEN 0 ELSE room \div reference)
      BY DEF Capacity
    <2> HIDE DEF room
    <2>3. room \div reference \in Int
      BY <2>1
    <2> QED BY <1>1, <2>1, <2>2, <2>3
  <1>4. /\ Policy.risk \in Nat /\ Policy.symbol \in Nat /\ Policy.reduced \in Nat
        /\ Policy.portfolio \in Nat
    BY PolicyType
  <1> DEFINE a == WholeLots(((account.equity * Policy.risk) \div 10000)
                               \div (reference - stop))
             b == WholeLots(account.cash \div reference)
             c == Capacity(account, Policy.symbol, account.symbolValue, reference)
             d == Capacity(account, PortfolioLimit(account), account.marketValue, reference)
  <1>5. a \in Nat
    <2> DEFINE n == (account.equity * Policy.risk) \div 10000
               m == reference - stop
    <2>1. n \in Int /\ m \in Nat \ {0}
      BY <1>2, <1>4
    <2> HIDE DEF n, m
    <2>2. n \div m \in Int
      BY <2>1
    <2>3. WholeLots(n \div m) \in Nat
      BY <1>1, <2>2
    <2> QED BY <2>3 DEF n, m
  <1>6. b \in Nat
    BY <1>1
  <1>7. c \in Nat
    BY <1>3, <1>4
  <1>8. d \in Nat
    <2>1. PortfolioLimit(account) \in Nat
      BY <1>4 DEF PortfolioLimit
    <2> QED BY <1>3, <2>1
  <1>9. Allowed(account, reference, stop) = Min({a, b, c, d} \cup {})
    BY DEF Allowed
  <1> HIDE DEF a, b, c, d
  <1>10. Min({a, b, c, d} \cup {}) \in Nat
    <2>1. \E x \in {a, b, c, d} : \A y \in {a, b, c, d} : x <= y
      BY <1>5, <1>6, <1>7, <1>8
    <2>2. Min({a, b, c, d} \cup {}) \in {a, b, c, d} \cup {}
      BY <2>1 DEF Min
    <2> QED BY <1>5, <1>6, <1>7, <1>8, <2>2
  <1> QED BY <1>9, <1>10 DEF evaluate
=============================================================================
