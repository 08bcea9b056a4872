--------------------------- MODULE BacktestProofs ---------------------------
(***************************************************************************)
(* Proofs about the backtest engine (Backtest), for any symbols, calendar,  *)
(* corporate actions, bars, signals, fees and rules: positions stay whole   *)
(* through purchases, sales and every corporate action, and what was bought *)
(* today is held back; dividends go to the holding at the start of their    *)
(* record date and are paid on their day; no order is filled over an ex     *)
(* date, and nothing of a delisted symbol is held or waits; the drawdown    *)
(* reported is the worst.                                                   *)
(***************************************************************************)
EXTENDS Backtest, MatchingProofs, SetFolds, SequenceTheorems

(* Positions.                                                              *)

\* The buckets of a position hold its shares.
PositionSound(pos) ==
    /\ pos \in BacktestPosition
    /\ pos.available + pos.locked + pos.today = pos.total

\* The fields of a position.
LEMMA PositionFields ==
    ASSUME NEW pos \in BacktestPosition
    PROVE  /\ pos.total \in Nat /\ pos.available \in Nat /\ pos.locked \in Nat
           /\ pos.today \in Nat /\ pos.average \in Nat /\ pos.last \in Nat
           /\ pos.realized \in Int /\ pos.rounded \in Nat /\ pos.lost \in Nat
  BY DEF BacktestPosition

\* money() gives a whole number.
LEMMA MoneyType ==
    ASSUME NEW n \in Int, NEW d \in Nat \ {0}
    PROVE  money(n, d) \in Int /\ (n >= 0 => money(n, d) \in Nat)
  <1>1. \A m \in Int : m \div d \in Int /\ (m >= 0 => m \div d \in Nat)
    OBVIOUS
  <1>2. -n \in Int
    OBVIOUS
  <1>3. n \div d \in Int /\ (n >= 0 => n \div d \in Nat) /\ (-n) \div d \in Int
    BY <1>1, <1>2
  <1> QED BY <1>3 DEF money

\* A price rounded to a tick is no negative one.
LEMMA TickRoundType ==
    ASSUME NEW n \in Nat, NEW d \in Nat \ {0}
    PROVE  price_tick_round(n, d) \in Nat
  <1> DEFINE a == 2 * n + d
             c == 2 * d
  <1>1. a \in Nat /\ c \in Nat \ {0}
    OBVIOUS
  <1>2. a \div c \in Nat
    <2> HIDE DEF a, c
    <2> QED BY <1>1
  <1> QED BY <1>2 DEF price_tick_round

\* A share of a number, rounded down.
LEMMA RatioType ==
    ASSUME NEW n \in Nat, NEW m \in Nat, NEW d \in Nat \ {0}
    PROVE  (n * m) \div d \in Nat
  <1> DEFINE a == n * m
  <1>1. a \in Nat
    OBVIOUS
  <1> HIDE DEF a
  <1>2. a \div d \in Nat
    BY <1>1
  <1> QED BY <1>2 DEF a

\* A new price leaves the shares alone.
LEMMA MarkKept ==
    ASSUME NEW pos, PositionSound(pos), NEW price \in Nat
    PROVE  /\ mark(pos, price) =
                [total |-> pos.total, available |-> pos.available,
                 locked |-> pos.locked, today |-> pos.today,
                 average |-> pos.average, last |-> price,
                 realized |-> pos.realized, rounded |-> pos.rounded,
                 lost |-> pos.lost]
           /\ mark(pos, price) \in BacktestPosition
           /\ PositionSound(mark(pos, price))
  BY DEF mark, BacktestPosition, PositionSound

\* Shares that are bought are in today's bucket.
LEMMA BoughtKept ==
    ASSUME NEW pos, PositionSound(pos), NEW quantity \in Nat \ {0},
           NEW paid \in Nat, NEW price \in Nat
    PROVE  /\ PositionSound(bought(pos, quantity, paid, price))
           /\ bought(pos, quantity, paid, price).today = pos.today + quantity
  <1> DEFINE n == pos.average * pos.total + 100 * paid
             d == pos.total + quantity
             average == price_tick_round(n, d)
             p == bought(pos, quantity, paid, price)
  <1>1. pos \in BacktestPosition
    BY DEF PositionSound
  <1>2. /\ pos.total \in Nat /\ pos.available \in Nat /\ pos.today \in Nat
        /\ pos.locked \in Nat /\ pos.average \in Nat /\ pos.realized \in Int
        /\ pos.rounded \in Nat /\ pos.lost \in Nat
    BY <1>1, PositionFields
  <1>3. n \in Nat /\ d \in Nat \ {0}
    BY <1>2
  <1>4. average \in Nat
    <2> HIDE DEF n, d
    <2> QED BY <1>3, TickRoundType
  <1>5. p = [total |-> pos.total + quantity, available |-> pos.available,
             locked |-> pos.locked, today |-> pos.today + quantity,
             average |-> average, last |-> price, realized |-> pos.realized,
             rounded |-> pos.rounded + pos.total + quantity, lost |-> pos.lost]
    <2>1. p = [mark(pos, price) EXCEPT !.average = average, !.total = @ + quantity,
                                       !.today = @ + quantity,
                                       !.rounded = @ + pos.total + quantity]
      BY DEF bought
    <2>2. /\ mark(pos, price) \in BacktestPosition
          /\ mark(pos, price).total = pos.total
          /\ mark(pos, price).available = pos.available
          /\ mark(pos, price).locked = pos.locked
          /\ mark(pos, price).today = pos.today
          /\ mark(pos, price).last = price
          /\ mark(pos, price).realized = pos.realized
          /\ mark(pos, price).rounded = pos.rounded
          /\ mark(pos, price).lost = pos.lost
      BY MarkKept
    <2> HIDE DEF p, average
    <2> QED BY <2>1, <2>2 DEF BacktestPosition
  <1> HIDE DEF p, average
  <1>6. p \in BacktestPosition
    BY <1>2, <1>4, <1>5 DEF BacktestPosition
  <1>7. p.available + p.locked + p.today = p.total /\ p.today = pos.today + quantity
    BY <1>2, <1>5 DEF PositionSound
  <1> QED BY <1>6, <1>7 DEF PositionSound, p

\* Shares that are sold are of those that can be.
LEMMA SoldKept ==
    ASSUME NEW pos, PositionSound(pos), NEW fill \in Fill,
           fill.quantity <= pos.available, NEW proceeds \in Int
    PROVE  /\ PositionSound(sold(pos, fill, proceeds))
           /\ sold(pos, fill, proceeds).today = pos.today
  <1> DEFINE n == 100 * proceeds - pos.average * fill.quantity
             gain == money(n, 100)
             average == IF pos.total = fill.quantity THEN 0 ELSE pos.average
             last == IF pos.total = fill.quantity THEN 0 ELSE fill.price
             p == sold(pos, fill, proceeds)
  <1>1. pos \in BacktestPosition
    BY DEF PositionSound
  <1>2. /\ pos.total \in Nat /\ pos.available \in Nat /\ pos.today \in Nat
        /\ pos.locked \in Nat /\ pos.average \in Nat /\ pos.realized \in Int
        /\ pos.rounded \in Nat /\ pos.lost \in Nat
    BY <1>1, PositionFields
  <1>3. fill.quantity \in Nat /\ fill.price \in Nat
    BY DEF Fill
  <1>4. n \in Int
    BY <1>2, <1>3
  <1>5. gain \in Int
    <2> HIDE DEF n
    <2> QED BY <1>4, MoneyType
  <1>6. p = [total |-> pos.total - fill.quantity,
             available |-> pos.available - fill.quantity,
             locked |-> pos.locked, today |-> pos.today,
             average |-> average, last |-> last, realized |-> pos.realized + gain,
             rounded |-> pos.rounded + 200, lost |-> pos.lost]
    <2>1. p = [pos EXCEPT !.realized = pos.realized + gain,
                          !.total = pos.total - fill.quantity,
                          !.available = pos.available - fill.quantity,
                          !.average = average, !.last = last,
                          !.rounded = pos.rounded + 200]
      BY <1>1 DEF sold, BacktestPosition
    <2> HIDE DEF p, average, last, gain
    <2> QED BY <1>1, <2>1 DEF BacktestPosition
  <1>7. average \in Nat /\ last \in Nat
    BY <1>2, <1>3
  <1> HIDE DEF p, average, last, gain, n
  <1>8. pos.total - fill.quantity \in Nat /\ pos.available - fill.quantity \in Nat
    BY <1>2, <1>3 DEF PositionSound
  <1>9. p \in BacktestPosition
    BY <1>2, <1>5, <1>6, <1>7, <1>8 DEF BacktestPosition
  <1>10. p.available + p.locked + p.today = p.total /\ p.today = pos.today
    BY <1>2, <1>3, <1>6 DEF PositionSound
  <1> QED BY <1>9, <1>10 DEF PositionSound, p

\* Bonus shares can be sold, or are locked.
LEMMA BonusKept ==
    ASSUME NEW pos, PositionSound(pos), NEW quantity \in Nat,
           NEW locked \in BOOLEAN, NEW price \in Nat
    PROVE  PositionSound(add_bonus_shares(pos, quantity, locked, price))
  <1> DEFINE n == pos.average * pos.total
             d == pos.total + quantity
             average == price_tick_round(n, d)
             held == IF locked THEN pos.locked + quantity ELSE pos.locked
             free == IF locked THEN pos.available ELSE pos.available + quantity
             p == add_bonus_shares(pos, quantity, locked, price)
  <1>1. pos \in BacktestPosition
    BY DEF PositionSound
  <1>2. /\ pos.total \in Nat /\ pos.available \in Nat /\ pos.today \in Nat
        /\ pos.locked \in Nat /\ pos.average \in Nat /\ pos.realized \in Int
        /\ pos.rounded \in Nat /\ pos.lost \in Nat
    BY <1>1, PositionFields
  <1>3. CASE quantity = 0
    BY <1>3 DEF add_bonus_shares
  <1>4. CASE quantity # 0
    <2>1. n \in Nat /\ d \in Nat \ {0}
      BY <1>2, <1>4
    <2>2. average \in Nat
      <3> HIDE DEF n, d
      <3> QED BY <2>1, TickRoundType
    <2>3. p = [total |-> pos.total + quantity, available |-> free,
               locked |-> held, today |-> pos.today,
               average |-> average, last |-> price, realized |-> pos.realized,
               rounded |-> pos.rounded + pos.total + quantity, lost |-> pos.lost]
      <3>1. p = [mark(pos, price) EXCEPT
                   !.total = pos.total + quantity, !.locked = held,
                   !.available = free, !.average = average,
                   !.rounded = @ + pos.total + quantity]
        <4>1. mark(pos, price) =
                [total |-> pos.total, available |-> pos.available,
                 locked |-> pos.locked, today |-> pos.today,
                 average |-> pos.average, last |-> price,
                 realized |-> pos.realized, rounded |-> pos.rounded,
                 lost |-> pos.lost]
          BY MarkKept
        <4>2. ~(quantity <= 0)
          BY <1>4
        <4> QED BY <4>1, <4>2 DEF add_bonus_shares
      <3>2. /\ mark(pos, price) \in BacktestPosition
          /\ mark(pos, price).total = pos.total
          /\ mark(pos, price).available = pos.available
          /\ mark(pos, price).locked = pos.locked
          /\ mark(pos, price).today = pos.today
          /\ mark(pos, price).last = price
          /\ mark(pos, price).realized = pos.realized
          /\ mark(pos, price).rounded = pos.rounded
          /\ mark(pos, price).lost = pos.lost
        BY MarkKept
      <3> HIDE DEF p, average, held, free
      <3> QED BY <3>1, <3>2 DEF BacktestPosition
    <2>4. held \in Nat /\ free \in Nat
      BY <1>2
    <2>5. free + held + pos.today = pos.total + quantity
      BY <1>2 DEF PositionSound
    <2> HIDE DEF p, average, held, free
    <2>6. p \in BacktestPosition
      BY <1>2, <2>2, <2>3, <2>4 DEF BacktestPosition
    <2>7. p.available + p.locked + p.today = p.total
      BY <2>3, <2>5
    <2> QED BY <2>6, <2>7 DEF PositionSound, p
  <1> QED BY <1>3, <1>4

\* A split loses no share to rounding.
LEMMA RescaleKept ==
    ASSUME NEW pos, PositionSound(pos), pos.total # 0, NEW new \in Nat,
           NEW price \in Nat
    PROVE  PositionSound(rescale_quantity(pos, new, price))
  <1> DEFINE first == (pos.available * new) \div pos.total
             second == (pos.locked * new) \div pos.total
             available == Lesser(new, first)
             locked == Lesser(new - available, second)
             today == Greater(0, new - available - locked)
             n == pos.average * pos.total
             average == IF new = 0 THEN 0 ELSE price_tick_round(n, new)
             lost == IF new = 0 THEN pos.lost + n ELSE pos.lost
             p == rescale_quantity(pos, new, price)
  <1>1. pos \in BacktestPosition
    BY DEF PositionSound
  <1>2. /\ pos.total \in Nat \ {0} /\ pos.available \in Nat /\ pos.today \in Nat
        /\ pos.locked \in Nat /\ pos.average \in Nat /\ pos.realized \in Int
        /\ pos.rounded \in Nat /\ pos.lost \in Nat
    BY <1>1, PositionFields
  <1>3. first \in Nat /\ second \in Nat
    BY <1>2, RatioType
  <1>4. average \in Nat /\ lost \in Nat
    <2>1. n \in Nat
      BY <1>2
    <2> HIDE DEF n
    <2> QED BY <1>2, <2>1, TickRoundType
  <1>5. p = [total |-> new, available |-> available, locked |-> locked,
             today |-> today, average |-> average, last |-> price,
             realized |-> pos.realized, rounded |-> pos.rounded + new,
             lost |-> lost]
    <2>1. p = [mark(pos, price) EXCEPT
                 !.total = new, !.available = available, !.locked = locked,
                 !.today = today, !.average = average,
                 !.rounded = pos.rounded + new, !.lost = lost]
      <3>1. mark(pos, price) =
                [total |-> pos.total, available |-> pos.available,
                 locked |-> pos.locked, today |-> pos.today,
                 average |-> pos.average, last |-> price,
                 realized |-> pos.realized, rounded |-> pos.rounded,
                 lost |-> pos.lost]
        BY MarkKept
      <3> QED BY <3>1 DEF rescale_quantity
    <2>2. /\ mark(pos, price) \in BacktestPosition
          /\ mark(pos, price).total = pos.total
          /\ mark(pos, price).available = pos.available
          /\ mark(pos, price).locked = pos.locked
          /\ mark(pos, price).today = pos.today
          /\ mark(pos, price).last = price
          /\ mark(pos, price).realized = pos.realized
          /\ mark(pos, price).rounded = pos.rounded
          /\ mark(pos, price).lost = pos.lost
      BY MarkKept
    <2> HIDE DEF p, average, available, locked, today, lost
    <2> QED BY <2>1, <2>2 DEF BacktestPosition
  <1> HIDE DEF first, second, average, lost
  <1>6. /\ available \in Nat /\ locked \in Nat /\ today \in Nat
        /\ available + locked + today = new
    BY <1>3 DEF Lesser, Greater
  <1> HIDE DEF p, available, locked, today
  <1>7. p \in BacktestPosition
    BY <1>2, <1>4, <1>5, <1>6 DEF BacktestPosition
  <1>8. p.available + p.locked + p.today = p.total
    BY <1>5, <1>6
  <1> QED BY <1>7, <1>8 DEF PositionSound, p

----------------------------------------------------------------------------
(* Trading.                                                                *)

\* A fill, as the run keeps it.
TradeRow == [order : Nat, symbol : Symbols, side : Sides, session : Nat,
             quantity : Nat \ {0}, cash : Int]

\* The portfolio and the orders, while the engine works on them.
TradeBook == [cash : Int, position : [Symbols -> BacktestPosition],
              orders : Seq(BacktestOrder), fills : Seq(TradeRow),
              raised : BOOLEAN]

\* What the fills of a list bought of a symbol today.
Quantities(list) == [i \in DOMAIN list |-> list[i].quantity]
BuysOf(list, s) == {i \in DOMAIN list : /\ list[i].symbol = s
                                        /\ list[i].side = "BUY"
                                        /\ list[i].session = session}
BoughtToday(list, s) == SumFunctionOnSet(Quantities(list), BuysOf(list, s))

\* The book keeps its positions whole and the day's purchases in their bucket, and
\* its cash is not negative, as long as nothing is raised.
Trading(b, n) ==
    /\ b \in TradeBook /\ n <= Len(b.orders)
    /\ \A s \in Symbols : PositionSound(b.position[s])
    /\ \A i \in DOMAIN b.fills : b.fills[i].session <= session
    /\ ~b.raised => /\ b.cash >= 0
                    /\ \A s \in Symbols :
                         b.position[s].today = BoughtToday(b.fills, s)

\* The market of a day.
Market == /\ bars \in [Symbols -> Bar] /\ closes \in [Symbols -> Nat]
          /\ session \in Nat

\* A further fill is one of those of today, of its own symbol.
LEMMA BoughtAppend ==
    ASSUME NEW list \in Seq(TradeRow), NEW f \in TradeRow, f.session = session,
           NEW s \in Symbols
    PROVE  BoughtToday(Append(list, f), s) =
             IF f.symbol = s /\ f.side = "BUY"
             THEN BoughtToday(list, s) + f.quantity
             ELSE BoughtToday(list, s)
  <1> DEFINE more == Append(list, f)
             n == Len(list) + 1
             S == BuysOf(list, s)
             old == Quantities(list)
             new == Quantities(more)
  <1>1. /\ Len(list) \in Nat /\ n \in Nat /\ DOMAIN list = 1..Len(list)
        /\ more \in Seq(TradeRow) /\ DOMAIN more = 1..n
        /\ \A i \in 1..Len(list) : more[i] = list[i] /\ list[i] \in TradeRow
        /\ more[n] = f
    OBVIOUS
  <1>2. /\ DOMAIN more = DOMAIN list \cup {n} /\ n \notin DOMAIN list
        /\ \A i \in DOMAIN list : more[i] = list[i] /\ list[i] \in TradeRow
    BY <1>1
  <1> HIDE DEF more, n
  <1>3. BuysOf(more, s) = IF f.symbol = s /\ f.side = "BUY" THEN S \cup {n} ELSE S
    BY <1>1, <1>2 DEF BuysOf
  <1>4. IsFiniteSet(S) /\ n \notin S
    <2>1. IsFiniteSet(1..Len(list))
      BY <1>1, FS_Interval
    <2>2. S \subseteq 1..Len(list)
      BY <1>1 DEF BuysOf
    <2> QED BY <1>2, <2>1, <2>2, FS_Subset DEF BuysOf
  <1>5. \A x \in S : old[x] \in Int /\ old[x] = new[x]
    BY <1>2 DEF BuysOf, Quantities, TradeRow
  <1>6. SumFunctionOnSet(old, S) = SumFunctionOnSet(new, S)
    <2> HIDE DEF S, old, new
    <2> QED BY <1>4, <1>5, SumSame
  <1>7. new[n] = f.quantity /\ f.quantity \in Int
    <2>1. n \in DOMAIN more /\ more[n] = f
      BY <1>1, <1>2
    <2>2. new[n] = more[n].quantity
      BY <2>1 DEF Quantities
    <2> QED BY <2>1, <2>2 DEF TradeRow
  <1>8. SumFunctionOnSet(new, S \cup {n}) = SumFunctionOnSet(new, S) + new[n]
    <2>1. \A y \in S \cup {n} : new[y] \in Int
      BY <1>5, <1>7
    <2> HIDE DEF S, new
    <2> QED BY <1>4, <2>1, SumAdd
  <1> HIDE DEF S, old, new
  <1> QED BY <1>3, <1>6, <1>7, <1>8 DEF BoughtToday, S, old, new, more

\* The engine's answer to an order of the backtest.
LEMMA AnswerType ==
    ASSUME NEW o \in BacktestOrder, o.status = "PENDING", NEW bar \in Bar,
           NEW previous \in Nat, NEW money_left \in Int, NEW available \in Nat,
           session \in Nat
    PROVE  LET result == execute(o, bar, previous, money_left, available, session)
           IN  /\ result.status \in OrderStatus /\ result.remaining \in Nat
               /\ result.fill # NoFill =>
                    /\ result.fill \in Fill
                    /\ result.fill.value \in Nat
                    /\ result.fill.fee = calculate(o.side, result.fill.value)
                    /\ o.side = "SELL" => result.fill.quantity <= available
  <1> DEFINE result == execute(o, bar, previous, money_left, available, session)
             m == [status |-> "PENDING", side |-> o.side, type |-> o.type,
                   limit |-> o.limit, remaining |-> o.remaining,
                   earliest |-> o.earliest, expiry |-> o.expiry]
  <1>1. /\ o.side \in Sides /\ o.type \in OrderTypes /\ o.limit \in Nat
        /\ o.remaining \in Nat /\ o.earliest \in Int /\ o.expiry \in Int
    BY DEF BacktestOrder
  <1>2. m \in Matchable
    BY <1>1 DEF Matchable
  <1>3. /\ m.status = o.status /\ m.side = o.side /\ m.type = o.type
        /\ m.limit = o.limit /\ m.remaining = o.remaining
        /\ m.earliest = o.earliest /\ m.expiry = o.expiry
    OBVIOUS
  <1> HIDE DEF m
  <1>4. raw_price(m, bar) = raw_price(o, bar) /\ liquidity(m, bar) = liquidity(o, bar)
    BY <1>3 DEF raw_price, liquidity
  <1>5. \A price, quantity : fill_of(m, price, quantity, session)
                             = fill_of(o, price, quantity, session)
    BY <1>3 DEF fill_of
  <1>6. result = execute(m, bar, previous, money_left, available, session)
    BY <1>3, <1>4, <1>5 DEF execute
  <1>7. session \in Int
    OBVIOUS
  <1> HIDE DEF result
  <1>8. \/ /\ result.fill = NoFill
           /\ result.remaining = o.remaining
           /\ result.status \in {"PENDING", "EXPIRED", "BLOCKED_SUSPENSION",
                  "BLOCKED_PRICE_LIMIT", "BLOCKED_LIQUIDITY", "BLOCKED_T1",
                  "REJECTED"}
        \/ /\ result.fill # NoFill
           /\ result.status = IF result.remaining = 0 THEN "FILLED"
                              ELSE "PARTIALLY_FILLED"
           /\ result.fill \in Fill
           /\ result.fill.fee = calculate(o.side, result.fill.value)
           /\ result.fill.quantity <= o.remaining
           /\ result.remaining = o.remaining - result.fill.quantity
           /\ o.side = "SELL" => result.fill.quantity <= available
    <2> DEFINE r == execute(m, bar, previous, money_left, available, session)
    <2>1. \/ /\ r.fill = NoFill
             /\ r.remaining = m.remaining
             /\ r.status \in {"PENDING", "EXPIRED", "BLOCKED_SUSPENSION",
                    "BLOCKED_PRICE_LIMIT", "BLOCKED_LIQUIDITY", "BLOCKED_T1",
                    "REJECTED"}
          \/ /\ r.fill # NoFill
             /\ r.status = IF r.remaining = 0 THEN "FILLED" ELSE "PARTIALLY_FILLED"
             /\ r.fill \in Fill
             /\ r.fill.fee = calculate(m.side, r.fill.value)
             /\ r.fill.quantity <= m.remaining
             /\ r.remaining = m.remaining - r.fill.quantity
             /\ m.side = "SELL" => r.fill.quantity <= available
      BY <1>2, <1>7, ExecuteType
    <2> HIDE DEF r
    <2> QED BY <1>3, <1>6, <2>1 DEF r
  <1>9. result.fill \in Fill => result.fill.quantity \in Nat /\ result.fill.value \in Nat
    BY DEF Fill
  <1>10. result.status \in OrderStatus
    BY <1>8 DEF OrderStatus
  <1>11. result.remaining \in Nat
    BY <1>1, <1>8, <1>9
  <1> QED BY <1>8, <1>9, <1>10, <1>11 DEF result

\* An order of a list is changed.
LEMMA OrderSet ==
    ASSUME NEW list \in Seq(BacktestOrder), NEW i \in DOMAIN list,
           NEW o \in BacktestOrder
    PROVE  /\ [list EXCEPT ![i] = o] \in Seq(BacktestOrder)
           /\ Len([list EXCEPT ![i] = o]) = Len(list)
  OBVIOUS

\* The engine's answer, on the order.
Seen(b, i, status, remaining) ==
    [b EXCEPT !.orders[i].status = status, !.orders[i].remaining = remaining]

\* The engine's answer is kept on the order, and is nothing to the portfolio.
LEMMA SeenKept ==
    ASSUME NEW b, NEW n \in Nat, Trading(b, n), NEW i \in DOMAIN b.orders,
           NEW status \in OrderStatus, NEW remaining \in Nat
    PROVE  LET c == Seen(b, i, status, remaining)
           IN  /\ Trading(c, n) /\ Len(c.orders) = Len(b.orders)
               /\ c.cash = b.cash /\ c.position = b.position
               /\ c.fills = b.fills /\ c.raised = b.raised
  <1> DEFINE list == b.orders
             o == [list[i] EXCEPT !.status = status, !.remaining = remaining]
             changed == [list EXCEPT ![i] = o]
             c == Seen(b, i, status, remaining)
  <1>1. b \in TradeBook
    BY DEF Trading
  <1>2. /\ list \in Seq(BacktestOrder) /\ list[i] \in BacktestOrder
        /\ DOMAIN list = 1..Len(list)
    BY <1>1 DEF TradeBook
  <1>3. o \in BacktestOrder
    <2> HIDE DEF list
    <2> QED BY <1>2 DEF BacktestOrder
  <1>4. changed \in Seq(BacktestOrder) /\ Len(changed) = Len(list)
    <2> HIDE DEF o, list
    <2>1. i \in DOMAIN list
      BY DEF list
    <2> QED BY <1>2, <1>3, <2>1, OrderSet
  <1>5. c = [b EXCEPT !.orders = changed]
    <2>1. changed = [[list EXCEPT ![i].status = status] EXCEPT ![i].remaining = remaining]
      <3> HIDE DEF list
      <3>1. i \in DOMAIN list
        BY DEF list
      <3> QED BY <1>2, <3>1
    <2>2. c = [b EXCEPT !.orders =
                 [[list EXCEPT ![i].status = status] EXCEPT ![i].remaining = remaining]]
      BY <1>1 DEF TradeBook, Seen
    <2> HIDE DEF c, changed
    <2> QED BY <2>1, <2>2
  <1> HIDE DEF changed, c, o
  <1>6. /\ c \in TradeBook /\ c.orders = changed /\ c.cash = b.cash
        /\ c.position = b.position /\ c.fills = b.fills /\ c.raised = b.raised
    BY <1>1, <1>4, <1>5 DEF TradeBook
  <1>7. Trading(c, n)
    BY <1>4, <1>6 DEF Trading
  <1> QED BY <1>4, <1>6, <1>7 DEF c

\* A trade: the position is whole after it, and a purchase is one of today's.
LEMMA TradeKept ==
    ASSUME NEW b, NEW n \in Nat, Trading(b, n), ~b.raised, session \in Nat,
           NEW s \in Symbols, NEW pos, PositionSound(pos), NEW side \in Sides,
           NEW quantity \in Nat \ {0},
           pos.today = b.position[s].today + (IF side = "BUY" THEN quantity ELSE 0),
           NEW left \in Nat, NEW i \in Nat, NEW flow \in Int
    PROVE  Trading([cash |-> left, position |-> [b.position EXCEPT ![s] = pos],
                    orders |-> b.orders,
                    fills |-> Append(b.fills,
                                [order |-> i, symbol |-> s, side |-> side,
                                 session |-> session, quantity |-> quantity,
                                 cash |-> flow]),
                    raised |-> FALSE], n)
  <1> DEFINE f == [order |-> i, symbol |-> s, side |-> side, session |-> session,
                   quantity |-> quantity, cash |-> flow]
             list == Append(b.fills, f)
             folio == [b.position EXCEPT ![s] = pos]
             c == [cash |-> left, position |-> folio, orders |-> b.orders,
                   fills |-> list, raised |-> FALSE]
  <1>1. /\ b \in TradeBook /\ n <= Len(b.orders) /\ b.fills \in Seq(TradeRow)
        /\ b.orders \in Seq(BacktestOrder)
        /\ b.position \in [Symbols -> BacktestPosition]
        /\ \A t \in Symbols : b.position[t].today = BoughtToday(b.fills, t)
        /\ \A t \in Symbols : PositionSound(b.position[t])
        /\ \A j \in DOMAIN b.fills : b.fills[j].session <= session
    BY DEF Trading, TradeBook
  <1>2. f \in TradeRow /\ f.session = session
    BY DEF TradeRow
  <1>3. /\ f.symbol = s /\ f.side = side /\ f.quantity = quantity
    OBVIOUS
  <1> HIDE DEF f
  <1>4. /\ list \in Seq(TradeRow)
        /\ \A j \in DOMAIN list : list[j] = f \/ (j \in DOMAIN b.fills /\ list[j] = b.fills[j])
    <2> DEFINE old == b.fills
    <2>1. old \in Seq(TradeRow)
      BY <1>1
    <2> HIDE DEF old
    <2>2. /\ Append(old, f) \in Seq(TradeRow)
          /\ \A j \in DOMAIN Append(old, f) : Append(old, f)[j] = f
               \/ (j \in DOMAIN old /\ Append(old, f)[j] = old[j])
      BY <1>2, <2>1
    <2> QED BY <2>2 DEF old
  <1>5. \A j \in DOMAIN list : list[j].session <= session
    BY <1>1, <1>2, <1>4
  <1>6. \A t \in Symbols : BoughtToday(list, t) =
            IF t = s /\ side = "BUY" THEN BoughtToday(b.fills, t) + quantity
            ELSE BoughtToday(b.fills, t)
    BY <1>1, <1>2, <1>3, BoughtAppend
  <1> HIDE DEF list
  <1>7. /\ folio \in [Symbols -> BacktestPosition]
        /\ \A t \in Symbols : PositionSound(folio[t])
        /\ \A t \in Symbols : folio[t] = IF t = s THEN pos ELSE b.position[t]
    BY <1>1 DEF PositionSound
  <1> HIDE DEF folio
  <1>8. \A t \in Symbols : folio[t].today = BoughtToday(list, t)
    <2> SUFFICES ASSUME NEW t \in Symbols PROVE folio[t].today = BoughtToday(list, t)
      OBVIOUS
    <2>1. b.position[t].today \in Nat
      BY <1>1, PositionFields
    <2>2. CASE t = s
      BY <1>1, <1>6, <1>7, <2>1, <2>2
    <2>3. CASE t # s
      BY <1>1, <1>6, <1>7, <2>3
    <2> QED BY <2>2, <2>3
  <1>9. c \in TradeBook
    BY <1>1, <1>4, <1>7 DEF TradeBook
  <1>10. Trading(c, n)
    BY <1>1, <1>5, <1>7, <1>8, <1>9 DEF Trading
  <1> QED BY <1>10 DEF c, folio, list, f

\* What a fill costs, or brings.
LEMMA FillMoney ==
    ASSUME NEW fill \in Fill
    PROVE  total_cost(fill) \in Nat /\ net_proceeds(fill) \in Int
  <1>1. /\ fill.value \in Nat /\ fill.fee \in [commission : Nat, tax : Nat, other : Nat]
    BY DEF Fill
  <1>2. fill.fee.commission \in Nat /\ fill.fee.tax \in Nat /\ fill.fee.other \in Nat
    BY <1>1
  <1> QED BY <1>1, <1>2 DEF total_cost, net_proceeds

\* A fill in the list of fills, and what it did to the cash.
Noted(b, s, side, fill, i, before) ==
    [b EXCEPT !.fills = Append(@,
        [order |-> i, symbol |-> s, side |-> side, session |-> session,
         quantity |-> fill.quantity, cash |-> b.cash - before])]

\* A purchase that the cash does not pay for is raised, and else it is a trade.
LEMMA BuyKept ==
    ASSUME NEW b, NEW n \in Nat, Trading(b, n), ~b.raised, session \in Nat,
           NEW s \in Symbols, NEW fill \in Fill, NEW i \in Nat, NEW before \in Int
    PROVE  LET a == apply_buy(b, s, fill)
           IN  IF a.raised THEN Trading(a, n)
               ELSE Trading(Noted(a, s, "BUY", fill, i, before), n)
  <1> DEFINE a == apply_buy(b, s, fill)
             paid == total_cost(fill)
             left == b.cash - paid
             old == b.position[s]
             new == bought(old, fill.quantity, paid, fill.price)
             folio == [b.position EXCEPT ![s] = new]
  <1>1. /\ b \in TradeBook /\ b.cash \in Int /\ b.fills \in Seq(TradeRow)
        /\ b.position \in [Symbols -> BacktestPosition]
        /\ PositionSound(old)
    BY DEF Trading, TradeBook
  <1>2. paid \in Nat
    BY FillMoney
  <1>3. fill.quantity \in Nat \ {0} /\ fill.price \in Nat
    BY DEF Fill
  <1>4. left \in Int
    BY <1>1, <1>2
  <1>5. PositionSound(new) /\ new.today = old.today + fill.quantity
    <2> HIDE DEF old, paid
    <2> QED BY <1>1, <1>2, <1>3, BoughtKept
  <1>6. CASE b.cash < paid
    <2>1. a = [b EXCEPT !.cash = left, !.raised = TRUE]
      BY <1>1, <1>6 DEF apply_buy, TradeBook
    <2> HIDE DEF a, left
    <2>2. /\ a \in TradeBook /\ a.raised /\ a.orders = b.orders
          /\ a.fills = b.fills /\ a.position = b.position
      BY <1>1, <1>4, <2>1 DEF TradeBook
    <2>3. Trading(a, n)
      BY <2>2 DEF Trading
    <2> QED BY <2>2, <2>3 DEF a
  <1>7. CASE ~(b.cash < paid)
    <2>1. a = [b EXCEPT !.cash = left, !.position[s] = new]
      BY <1>1, <1>7 DEF apply_buy, TradeBook
    <2>2. left \in Nat
      BY <1>1, <1>2, <1>7
    <2>3. a = [cash |-> left, position |-> folio, orders |-> b.orders,
               fills |-> b.fills, raised |-> FALSE]
      <3>1. a = [b EXCEPT !.cash = left, !.position = folio]
        <4> HIDE DEF a, left, new
        <4> QED BY <1>1, <2>1 DEF TradeBook
      <3>2. b.raised = FALSE
        BY <1>1 DEF TradeBook
      <3> HIDE DEF a, left, folio
      <3> QED BY <1>1, <3>1, <3>2 DEF TradeBook
    <2> DEFINE f == [order |-> i, symbol |-> s, side |-> "BUY", session |-> session,
                     quantity |-> fill.quantity, cash |-> left - before]
               c == [cash |-> left, position |-> folio, orders |-> b.orders,
                     fills |-> Append(b.fills, f), raised |-> FALSE]
    <2>4. Trading(c, n)
      <3>1. "BUY" \in Sides /\ left - before \in Int
        BY <1>4 DEF Sides
      <3> HIDE DEF left, new
      <3> QED BY <1>3, <1>5, <2>2, <3>1, TradeKept
    <2>5. ~a.raised /\ Noted(a, s, "BUY", fill, i, before) = c
      <3>1. a.cash = left /\ a.fills = b.fills /\ ~a.raised
        <4> HIDE DEF a, left, folio
        <4> QED BY <2>3
      <3>2. Noted(a, s, "BUY", fill, i, before)
              = [a EXCEPT !.fills = Append(b.fills, f)]
        <4> HIDE DEF a, left
        <4> QED BY <3>1 DEF Noted
      <3>3. [a EXCEPT !.fills = Append(b.fills, f)] = c
        <4> DEFINE more == Append(b.fills, f)
        <4> HIDE DEF more, left, folio, a, new
        <4>1. /\ a.cash = left /\ a.position = folio /\ a.orders = b.orders
              /\ a.fills = b.fills /\ a.raised = FALSE
          BY <2>3
        <4>2. folio \in [Symbols -> BacktestPosition]
          BY <1>1, <1>5 DEF PositionSound, folio
        <4>3. a \in TradeBook
          BY <1>1, <2>3, <2>2, <4>2 DEF TradeBook
        <4>4. [a EXCEPT !.fills = more] =
                [cash |-> left, position |-> folio, orders |-> b.orders,
                 fills |-> more, raised |-> FALSE]
          <5> DEFINE e == [a EXCEPT !.fills = more]
          <5>1. e = [a EXCEPT !.fills = more]
            OBVIOUS
          <5> HIDE DEF e
          <5>2. e = [cash |-> left, position |-> folio, orders |-> b.orders,
                     fills |-> more, raised |-> FALSE]
            BY <4>1, <4>3, <5>1 DEF TradeBook
          <5> QED BY <5>2 DEF e
        <4> QED BY <4>4 DEF more
      <3> QED BY <3>1, <3>2, <3>3
    <2> HIDE DEF a, c
    <2> QED BY <2>4, <2>5 DEF a
  <1> QED BY <1>6, <1>7

\* A sale takes of the shares that can be sold.
LEMMA SellKept ==
    ASSUME NEW b, NEW n \in Nat, Trading(b, n), ~b.raised, session \in Nat,
           NEW s \in Symbols, NEW fill \in Fill,
           fill.quantity <= b.position[s].available,
           NEW i \in Nat, NEW before \in Int
    PROVE  LET a == apply_sell(b, s, fill)
           IN  IF a.raised THEN Trading(a, n)
               ELSE Trading(Noted(a, s, "SELL", fill, i, before), n)
  <1> DEFINE a == apply_sell(b, s, fill)
             brings == net_proceeds(fill)
             left == b.cash + brings
             raised == left < 0
             old == b.position[s]
             new == sold(old, fill, brings)
             folio == [b.position EXCEPT ![s] = new]
  <1>1. /\ b \in TradeBook /\ b.cash \in Int /\ b.fills \in Seq(TradeRow)
        /\ b.position \in [Symbols -> BacktestPosition]
        /\ PositionSound(old)
    BY DEF Trading, TradeBook
  <1>2. brings \in Int
    BY FillMoney
  <1>3. fill.quantity \in Nat \ {0} /\ fill.price \in Nat
    BY DEF Fill
  <1>4. left \in Int
    BY <1>1, <1>2
  <1>5. PositionSound(new) /\ new.today = old.today
    <2> HIDE DEF old, brings
    <2>1. fill.quantity <= old.available
      BY DEF old
    <2> QED BY <1>1, <1>2, <2>1, SoldKept
  <1>6. a = [cash |-> left, position |-> folio, orders |-> b.orders,
             fills |-> b.fills, raised |-> raised]
    <2>1. a = [b EXCEPT !.cash = left, !.position[s] = new, !.raised = raised]
      BY <1>1 DEF apply_sell, TradeBook
    <2>2. a = [b EXCEPT !.cash = left, !.position = folio, !.raised = raised]
      <3> HIDE DEF a, left, new, raised
      <3> QED BY <1>1, <2>1 DEF TradeBook
    <2> HIDE DEF a, left, folio, raised
    <2> QED BY <1>1, <2>2 DEF TradeBook
  <1>7. raised \in BOOLEAN /\ (~raised => left \in Nat)
    BY <1>4
  <1>8. /\ folio \in [Symbols -> BacktestPosition]
        /\ \A t \in Symbols : PositionSound(folio[t])
    <2>1. \A t \in Symbols : PositionSound(b.position[t])
      BY DEF Trading
    <2> HIDE DEF new
    <2> QED BY <1>1, <1>5, <2>1 DEF PositionSound
  <1>9. CASE raised
    <2> HIDE DEF a, left, folio, raised
    <2>1. a \in TradeBook /\ a.raised
      BY <1>1, <1>4, <1>6, <1>7, <1>8, <1>9 DEF TradeBook
    <2>2. a.orders = b.orders /\ a.fills = b.fills /\ a.position = folio
      BY <1>6
    <2>3. Trading(a, n)
      BY <1>8, <2>1, <2>2 DEF Trading
    <2> QED BY <2>1, <2>3 DEF a
  <1>10. CASE ~raised
    <2>1. left \in Nat /\ raised = FALSE
      BY <1>7, <1>10
    <2> DEFINE f == [order |-> i, symbol |-> s, side |-> "SELL", session |-> session,
                     quantity |-> fill.quantity, cash |-> left - before]
               c == [cash |-> left, position |-> folio, orders |-> b.orders,
                     fills |-> Append(b.fills, f), raised |-> FALSE]
    <2>2. new.today = old.today + (IF "SELL" = "BUY" THEN fill.quantity ELSE 0)
      <3>1. old.today \in Nat
        BY <1>1, PositionFields DEF PositionSound
      <3> HIDE DEF old, new
      <3> QED BY <1>5, <3>1
    <2>4. Trading(c, n)
      <3>1. "SELL" \in Sides /\ left - before \in Int
        BY <1>4 DEF Sides
      <3> HIDE DEF left, new
      <3> QED BY <1>3, <1>5, <2>1, <2>2, <3>1, TradeKept
    <2>5. ~a.raised /\ Noted(a, s, "SELL", fill, i, before) = c
      <3>1. a.cash = left /\ a.fills = b.fills /\ ~a.raised
        <4> HIDE DEF a, left, folio, raised
        <4> QED BY <1>6, <1>10
      <3>2. Noted(a, s, "SELL", fill, i, before)
              = [a EXCEPT !.fills = Append(b.fills, f)]
        <4> HIDE DEF a, left
        <4> QED BY <3>1 DEF Noted
      <3>3. [a EXCEPT !.fills = Append(b.fills, f)] = c
        <4> DEFINE more == Append(b.fills, f)
        <4> HIDE DEF more, left, folio, a, raised, new
        <4>1. /\ a.cash = left /\ a.position = folio /\ a.orders = b.orders
              /\ a.fills = b.fills /\ a.raised = FALSE
          BY <1>6, <2>1
        <4>2. folio \in [Symbols -> BacktestPosition]
          BY <1>8
        <4>3. a \in TradeBook
          BY <1>1, <1>4, <1>6, <1>7, <4>2 DEF TradeBook
        <4>4. [a EXCEPT !.fills = more] =
                [cash |-> left, position |-> folio, orders |-> b.orders,
                 fills |-> more, raised |-> FALSE]
          <5> DEFINE e == [a EXCEPT !.fills = more]
          <5>1. e = [a EXCEPT !.fills = more]
            OBVIOUS
          <5> HIDE DEF e
          <5>2. e = [cash |-> left, position |-> folio, orders |-> b.orders,
                     fills |-> more, raised |-> FALSE]
            BY <4>1, <4>3, <5>1 DEF TradeBook
          <5> QED BY <5>2 DEF e
        <4> QED BY <4>4 DEF more
      <3> QED BY <3>1, <3>2, <3>3
    <2> HIDE DEF a, c
    <2> QED BY <2>4, <2>5 DEF a
  <1> QED BY <1>9, <1>10

\* Once something is raised, the cash and the day's purchases are no matter.
LEMMA ExecutedKept ==
    ASSUME NEW b, NEW n \in Nat, Trading(b, n), Market,
           NEW i \in DOMAIN b.orders, b.orders[i].status = "PENDING"
    PROVE  Trading(Executed(b, i), n)
  <1> DEFINE o == b.orders[i]
             s == o.symbol
             available == b.position[s].available
             result == execute(o, bars[s], closes[s], b.cash, available, session)
             seen == Seen(b, i, result.status, result.remaining)
             applied == IF o.side = "BUY" THEN apply_buy(seen, s, result.fill)
                                          ELSE apply_sell(seen, s, result.fill)
             noted == Noted(applied, s, o.side, result.fill, i, b.cash)
  <1>1. Executed(b, i) = IF b.raised THEN b
                         ELSE IF result.fill = NoFill THEN seen
                         ELSE IF applied.raised THEN applied
                         ELSE noted
    BY DEF Executed, Noted, Seen
  <1>2. /\ b \in TradeBook /\ b.orders \in Seq(BacktestOrder) /\ o \in BacktestOrder
        /\ b.cash \in Int /\ b.position \in [Symbols -> BacktestPosition]
        /\ i \in Nat
    BY DEF Trading, TradeBook
  <1>3. s \in Symbols /\ o.side \in Sides
    BY <1>2 DEF BacktestOrder
  <1>4. available \in Nat
    <2>1. b.position[s] \in BacktestPosition
      BY <1>2, <1>3
    <2> QED BY <2>1, PositionFields
  <1>5. bars[s] \in Bar /\ closes[s] \in Nat /\ session \in Nat
    BY <1>3 DEF Market
  <1>6. /\ result.status \in OrderStatus /\ result.remaining \in Nat
        /\ result.fill # NoFill =>
             /\ result.fill \in Fill
             /\ o.side = "SELL" => result.fill.quantity <= available
    <2>1. o.status = "PENDING"
      OBVIOUS
    <2> HIDE DEF o, available
    <2> QED BY <1>2, <1>4, <1>5, <2>1, AnswerType
  <1> HIDE DEF result
  <1>7. /\ Trading(seen, n) /\ seen.cash = b.cash /\ seen.position = b.position
        /\ seen.raised = b.raised
    BY <1>6, SeenKept
  <1> HIDE DEF seen, o
  <1>8. ASSUME ~b.raised, result.fill # NoFill
        PROVE  IF applied.raised THEN Trading(applied, n) ELSE Trading(noted, n)
    <2>1. ~seen.raised
      BY <1>7, <1>8
    <2>2. CASE o.side = "BUY"
      <3>1. LET a == apply_buy(seen, s, result.fill)
            IN  IF a.raised THEN Trading(a, n)
                ELSE Trading(Noted(a, s, "BUY", result.fill, i, b.cash), n)
        <4> HIDE DEF s
        <4> QED BY <1>2, <1>3, <1>5, <1>6, <1>7, <1>8, <2>1, BuyKept
      <3> QED BY <2>2, <3>1
    <2>3. CASE o.side = "SELL"
      <3>1. result.fill.quantity <= seen.position[s].available
        BY <1>6, <1>7, <1>8, <2>3
      <3>2. LET a == apply_sell(seen, s, result.fill)
            IN  IF a.raised THEN Trading(a, n)
                ELSE Trading(Noted(a, s, "SELL", result.fill, i, b.cash), n)
        <4> HIDE DEF s
        <4> QED BY <1>2, <1>3, <1>5, <1>6, <1>7, <1>8, <2>1, <3>1, SellKept
      <3> QED BY <2>3, <3>2
    <2> QED BY <1>3, <2>2, <2>3 DEF Sides
  <1> HIDE DEF applied, noted
  <1> QED BY <1>1, <1>7, <1>8

\* An order that is placed is behind the others.
LEMMA PlacedKept ==
    ASSUME NEW b, NEW n \in Nat, Trading(b, n), NEW o \in BacktestOrder
    PROVE  LET c == [b EXCEPT !.orders = Append(@, o)]
           IN  /\ Trading(c, n) /\ Len(b.orders) + 1 \in DOMAIN c.orders
               /\ c.orders[Len(b.orders) + 1] = o
               /\ c.raised = b.raised
  <1> DEFINE list == b.orders
             more == Append(list, o)
             c == [b EXCEPT !.orders = Append(@, o)]
  <1>1. b \in TradeBook /\ list \in Seq(BacktestOrder) /\ n <= Len(list)
    BY DEF Trading, TradeBook
  <1>2. /\ more \in Seq(BacktestOrder) /\ n <= Len(more)
        /\ Len(list) + 1 \in DOMAIN more /\ more[Len(list) + 1] = o
    <2> HIDE DEF list
    <2> QED BY <1>1
  <1>3. c = [b EXCEPT !.orders = more]
    BY <1>1 DEF TradeBook
  <1> HIDE DEF more, c
  <1>4. /\ c \in TradeBook /\ c.orders = more /\ c.cash = b.cash
        /\ c.position = b.position /\ c.fills = b.fills /\ c.raised = b.raised
    BY <1>1, <1>2, <1>3 DEF TradeBook
  <1>5. Trading(c, n)
    BY <1>2, <1>4 DEF Trading
  <1> QED BY <1>2, <1>4, <1>5 DEF c

\* A new order is one.
LEMMA NewOrderType ==
    ASSUME NEW s \in Symbols, NEW side \in Sides, NEW type \in OrderTypes,
           NEW quantity \in Nat, NEW earliest \in Nat, NEW expiry \in Nat,
           NEW limit \in Nat, session \in Nat
    PROVE  LET o == new_order(s, side, type, quantity, earliest, expiry, limit)
           IN  /\ o \in BacktestOrder /\ o.status = "PENDING"
               /\ [o EXCEPT !.status = "BLOCKED_T1"] \in BacktestOrder
  BY DEF new_order, BacktestOrder, OrderStatus

\* The price of an exit.
LEMMA ExitPriceType ==
    ASSUME NEW pos \in BacktestPosition, NEW bar
    PROVE  ExitPrice(pos, bar) \in Nat
  <1>1. pos.average \in Nat
    BY PositionFields
  <1>2. /\ (pos.average * 95) \div 10000 \in Nat
        /\ (pos.average * 105) \div 10000 \in Nat
    BY <1>1
  <1> QED BY <1>2 DEF ExitPrice, NoPrice

\* A symbol's exit.
LEMMA ExitedKept ==
    ASSUME NEW b, NEW n \in Nat, Trading(b, n), Market, NEW s \in Symbols
    PROVE  Trading(Exited(b, s), n)
  <1> DEFINE pos == b.position[s]
             price == ExitPrice(pos, bars[s])
             sell(quantity) == new_order(s, "SELL", "LIMIT", quantity, session,
                                         session, price)
             blocked == [sell(pos.total) EXCEPT !.status = "BLOCKED_T1"]
             free == sell(pos.available)
             held == [b EXCEPT !.orders = Append(@, blocked)]
             placed == [b EXCEPT !.orders = Append(@, free)]
  <1>1. Exited(b, s) = IF b.raised \/ pos.total <= 0 \/ price = NoPrice THEN b
                       ELSE IF pos.available <= 0 THEN held
                       ELSE Executed(placed, Len(b.orders) + 1)
    BY DEF Exited
  <1>2. pos \in BacktestPosition /\ session \in Nat
    BY DEF Trading, TradeBook, Market
  <1>3. pos.total \in Nat /\ pos.available \in Nat /\ price \in Nat
    BY <1>2, PositionFields, ExitPriceType
  <1>4. "SELL" \in Sides /\ "LIMIT" \in OrderTypes
    BY DEF Sides, OrderTypes
  <1> HIDE DEF price, pos
  <1>5. /\ blocked \in BacktestOrder /\ free \in BacktestOrder
        /\ free.status = "PENDING"
    <2>1. \A q \in Nat : /\ sell(q) \in BacktestOrder /\ sell(q).status = "PENDING"
                         /\ [sell(q) EXCEPT !.status = "BLOCKED_T1"] \in BacktestOrder
      BY <1>2, <1>3, <1>4, NewOrderType
    <2> HIDE DEF sell
    <2> QED BY <1>3, <2>1
  <1> HIDE DEF blocked, free
  <1>6. Trading(held, n)
    BY <1>5, PlacedKept
  <1>7. /\ Trading(placed, n) /\ Len(b.orders) + 1 \in DOMAIN placed.orders
        /\ placed.orders[Len(b.orders) + 1] = free
    BY <1>5, PlacedKept
  <1> HIDE DEF held, placed
  <1>8. Trading(Executed(placed, Len(b.orders) + 1), n)
    BY <1>5, <1>7, ExecutedKept
  <1> QED BY <1>1, <1>6, <1>8

\* The books that are sound.
TradingBooks(n) == {b \in TradeBook : Trading(b, n)}

\* An open order's turn.
OpenStep(b, i) == IF Pending(b, i) THEN Executed(b, i) ELSE b

\* An order's turn keeps the book sound.
LEMMA OpenStepKept ==
    ASSUME NEW b, NEW n \in Nat, Trading(b, n), Market, NEW i \in 1..n
    PROVE  Trading(OpenStep(b, i), n)
  <1>1. i \in DOMAIN b.orders
    <2>1. b.orders \in Seq(BacktestOrder) /\ n <= Len(b.orders)
      BY DEF Trading, TradeBook
    <2> QED BY <2>1
  <1> QED BY <1>1, ExecutedKept DEF OpenStep, Pending

\* The loop of _execute_open_orders, over the orders of idx.
OpenIter(base, idx) ==
    CHOOSE iter : iter = [t \in SUBSET DOMAIN idx |->
        IF t = {} THEN base ELSE OpenStep(iter[t \ {Max(t)}], idx[Max(t)])]

\* The turns of n orders.
Turns(n) == [1..n -> 1..n]

\* The loop takes one order after the other.
LEMMA OpenIterDef ==
    ASSUME NEW n \in Nat, NEW base, NEW idx, Trading(base, n), Market,
           idx \in Turns(n)
    PROVE  \A t \in SUBSET DOMAIN idx : OpenIter(base, idx)[t] =
             IF t = {} THEN base ELSE OpenStep(OpenIter(base, idx)[t \ {Max(t)}], idx[Max(t)])
  <1> DEFINE S == DOMAIN idx
             V == TradingBooks(n)
             pick == [t \in SUBSET S |-> Max(t)]
             op == [x \in S \X V |-> OpenStep(x[2], idx[x[1]])]
             step(iter) == [t \in SUBSET S |->
               IF t = {} THEN base ELSE OpenStep(iter[t \ {Max(t)}], idx[Max(t)])]
  <1>0. idx \in [1..n -> 1..n]
    BY DEF Turns
  <1>1. base \in V
    BY DEF TradingBooks, Trading
  <1>2. IsFiniteSet(S) /\ Picks(pick, S)
    <2>1. S = 1..n /\ n \in Nat
      BY <1>0
    <2> HIDE DEF S, pick
    <2>2. pick = [t \in SUBSET (1..n) |-> Max(t)]
      BY <2>1 DEF pick
    <2> QED BY <2>1, <2>2, MaxPicks
  <1>4. \A x \in S, v \in V : OpenStep(v, idx[x]) \in V
    <2> SUFFICES ASSUME NEW x \in S, NEW v \in V PROVE OpenStep(v, idx[x]) \in V
      OBVIOUS
    <2>1. Trading(v, n) /\ idx[x] \in 1..n
      BY <1>0 DEF TradingBooks
    <2>2. Trading(OpenStep(v, idx[x]), n)
      BY <2>1, OpenStepKept
    <2> QED BY <2>2 DEF TradingBooks, Trading
  <1>5. op \in [S \X V -> V]
    BY <1>4
  <1>6. PICK g \in [SUBSET S -> V] : Folds(g, S, base, pick, op)
    <2> HIDE DEF S, V, pick, op
    <2> QED BY <1>1, <1>2, <1>5, FoldExists
  <1>7. ASSUME NEW t \in SUBSET S
        PROVE  g[t] = step(g)[t]
    <2>1. CASE t = {}
      BY <2>1, <1>6 DEF Folds
    <2>2. CASE t # {}
      <3> DEFINE x == pick[t]
                 v == g[t \ {x}]
      <3>1. g[t] = op[<<x, v>>]
        BY <2>2, <1>6 DEF Folds
      <3>2. x = Max(t) /\ x \in S /\ v \in V
        BY <2>2, <1>2, <1>6 DEF Picks
      <3> HIDE DEF x, v, S, V
      <3>3. op[<<x, v>>] = OpenStep(v, idx[x])
        BY <3>2
      <3> QED BY <2>2, <3>1, <3>2, <3>3 DEF x, v
    <2> QED BY <2>1, <2>2
  <1>8. g = step(g)
    BY <1>7
  <1> DEFINE I == OpenIter(base, idx)
  <1>9. I = step(I)
    BY <1>8 DEF OpenIter
  <1>10. \A t \in SUBSET S : I[t] = step(I)[t]
    BY <1>9
  <1> QED BY <1>10

\* What holds of the book before the loop, and is kept by each turn, holds after
\* it.
LEMMA OpenLoop ==
    ASSUME NEW n \in Nat, NEW base, NEW idx, Trading(base, n), Market,
           idx \in Turns(n), NEW V, base \in V,
           \A v \in V, i \in 1..n : Trading(v, n) => OpenStep(v, i) \in V
    PROVE  LET b == OpenIter(base, idx)[DOMAIN idx] IN b \in V /\ Trading(b, n)
  <1> DEFINE S == DOMAIN idx
             I == OpenIter(base, idx)
             T == {t \in SUBSET S : I[t] \in V /\ Trading(I[t], n)}
  <1>1. \A x \in S : \A v \in V : Trading(v, n) =>
            OpenStep(v, idx[x]) \in V /\ Trading(OpenStep(v, idx[x]), n)
    <2> SUFFICES ASSUME NEW x \in S, NEW v \in V, Trading(v, n)
                 PROVE  OpenStep(v, idx[x]) \in V /\ Trading(OpenStep(v, idx[x]), n)
      OBVIOUS
    <2>1. idx[x] \in 1..n
      BY DEF Turns
    <2> QED BY <2>1, OpenStepKept
  <1>2. \A t \in SUBSET S : I[t] = IF t = {} THEN base ELSE OpenStep(I[t \ {Max(t)}], idx[Max(t)])
    BY OpenIterDef
  <1>3. IsFiniteSet(S) /\ S \subseteq Int
    <2>1. S = 1..n
      BY DEF Turns
    <2> QED BY <2>1, FS_Interval
  <1> HIDE DEF I, S
  <1>4. {} \in T
    BY <1>2
  <1>5. ASSUME NEW t \in SUBSET S, Max(t) \in t, t \ {Max(t)} \in T PROVE t \in T
    <2>1. /\ I[t \ {Max(t)}] \in V /\ Trading(I[t \ {Max(t)}], n)
          /\ Max(t) \in S /\ t # {}
      BY <1>5
    <2>2. I[t] = OpenStep(I[t \ {Max(t)}], idx[Max(t)])
      BY <1>2, <2>1
    <2>3. I[t] \in V /\ Trading(I[t], n)
      BY <1>1, <2>1, <2>2
    <2> QED BY <2>3
  <1>6. S \in T
    <2> HIDE DEF T
    <2> QED BY <1>3, <1>4, <1>5, MaxInduction
  <1> QED BY <1>6 DEF S, I

\* The open orders are executed.
LEMMA OpenOrdersKept ==
    ASSUME NEW n \in Nat, NEW base, NEW idx, Trading(base, n), Market,
           idx \in Turns(n)
    PROVE  Trading(OpenIter(base, idx)[DOMAIN idx], n)
  <1> DEFINE V == TradingBooks(n)
  <1>1. base \in V /\ \A v \in V, i \in 1..n : OpenStep(v, i) \in V
    <2>1. base \in V
      BY DEF TradingBooks, Trading
    <2>2. ASSUME NEW v \in V, NEW i \in 1..n PROVE OpenStep(v, i) \in V
      <3>1. Trading(OpenStep(v, i), n)
        BY OpenStepKept DEF TradingBooks
      <3> QED BY <3>1 DEF TradingBooks, Trading
    <2> QED BY <2>1, <2>2
  <1> HIDE DEF V
  <1> QED BY <1>1, OpenLoop

\* The loop of _process_exits, over the symbols.
ExitIter(base) ==
    CHOOSE iter : iter = [t \in SUBSET Symbols |->
        IF t = {} THEN base ELSE Exited(iter[t \ {Max(t)}], Max(t))]

\* The loop takes one symbol after the other.
LEMMA ExitIterDef ==
    ASSUME NEW n \in Nat, NEW base, Trading(base, n), Market
    PROVE  \A t \in SUBSET Symbols : ExitIter(base)[t] =
             IF t = {} THEN base ELSE Exited(ExitIter(base)[t \ {Max(t)}], Max(t))
  <1> DEFINE S == Symbols
             V == TradingBooks(n)
             pick == [t \in SUBSET S |-> Max(t)]
             op == [x \in S \X V |-> Exited(x[2], x[1])]
             step(iter) == [t \in SUBSET S |->
               IF t = {} THEN base ELSE Exited(iter[t \ {Max(t)}], Max(t))]
  <1>1. base \in V
    BY DEF TradingBooks, Trading
  <1>2. IsFiniteSet(S) /\ Picks(pick, S)
    <2>1. IsFiniteSet(S) /\ S \subseteq Int
      BY ConfigAssumption
    <2>2. ASSUME NEW t \in SUBSET S, t # {} PROVE Max(t) \in t
      <3>1. IsFiniteSet(t) /\ t \subseteq Int
        BY <2>1, FS_Subset
      <3> QED BY <2>2, <3>1, MaxIn
    <2> QED BY <2>1, <2>2 DEF Picks
  <1>4. \A x \in S, v \in V : Exited(v, x) \in V
    <2> SUFFICES ASSUME NEW x \in S, NEW v \in V PROVE Exited(v, x) \in V
      OBVIOUS
    <2>1. Trading(Exited(v, x), n)
      BY ExitedKept DEF TradingBooks
    <2> QED BY <2>1 DEF TradingBooks, Trading
  <1>5. op \in [S \X V -> V]
    BY <1>4
  <1>6. PICK g \in [SUBSET S -> V] : Folds(g, S, base, pick, op)
    <2> HIDE DEF S, V, pick, op
    <2> QED BY <1>1, <1>2, <1>5, FoldExists
  <1>7. ASSUME NEW t \in SUBSET S
        PROVE  g[t] = step(g)[t]
    <2>1. CASE t = {}
      BY <2>1, <1>6 DEF Folds
    <2>2. CASE t # {}
      <3> DEFINE x == pick[t]
                 v == g[t \ {x}]
      <3>1. g[t] = op[<<x, v>>]
        BY <2>2, <1>6 DEF Folds
      <3>2. x = Max(t) /\ x \in S /\ v \in V
        BY <2>2, <1>2, <1>6 DEF Picks
      <3> HIDE DEF x, v, S, V
      <3>3. op[<<x, v>>] = Exited(v, x)
        BY <3>2
      <3> QED BY <2>2, <3>1, <3>2, <3>3 DEF x, v
    <2> QED BY <2>1, <2>2
  <1>8. g = step(g)
    BY <1>7
  <1> DEFINE I == ExitIter(base)
  <1>9. I = step(I)
    BY <1>8 DEF ExitIter
  <1>10. \A t \in SUBSET S : I[t] = step(I)[t]
    BY <1>9
  <1> QED BY <1>10

\* What holds of the book before the loop, and is kept by each exit, holds after
\* it.
LEMMA ExitLoop ==
    ASSUME NEW n \in Nat, NEW base, Trading(base, n), Market, NEW V, base \in V,
           \A v \in V, s \in Symbols : Trading(v, n) => Exited(v, s) \in V
    PROVE  LET b == ExitIter(base)[Symbols] IN b \in V /\ Trading(b, n)
  <1> DEFINE S == Symbols
             I == ExitIter(base)
             T == {t \in SUBSET S : I[t] \in V /\ Trading(I[t], n)}
  <1>1. \A x \in S : \A v \in V : Trading(v, n) =>
            Exited(v, x) \in V /\ Trading(Exited(v, x), n)
    BY ExitedKept
  <1>2. \A t \in SUBSET S : I[t] = IF t = {} THEN base ELSE Exited(I[t \ {Max(t)}], Max(t))
    BY ExitIterDef
  <1>3. IsFiniteSet(S) /\ S \subseteq Int
    BY ConfigAssumption
  <1> HIDE DEF I, S
  <1>4. {} \in T
    BY <1>2
  <1>5. ASSUME NEW t \in SUBSET S, Max(t) \in t, t \ {Max(t)} \in T PROVE t \in T
    <2>1. /\ I[t \ {Max(t)}] \in V /\ Trading(I[t \ {Max(t)}], n)
          /\ Max(t) \in S /\ t # {}
      BY <1>5
    <2>2. I[t] = Exited(I[t \ {Max(t)}], Max(t))
      BY <1>2, <2>1
    <2>3. I[t] \in V /\ Trading(I[t], n)
      BY <1>1, <2>1, <2>2
    <2> QED BY <2>3
  <1>6. S \in T
    <2> HIDE DEF T
    <2> QED BY <1>3, <1>4, <1>5, MaxInduction
  <1> QED BY <1>6 DEF S, I

\* The exits are taken.
LEMMA ExitsKept ==
    ASSUME NEW n \in Nat, NEW base, Trading(base, n), Market
    PROVE  Trading(ExitIter(base)[Symbols], n)
  <1> DEFINE V == TradingBooks(n)
  <1>1. base \in V /\ \A v \in V, s \in Symbols : Exited(v, s) \in V
    <2>1. base \in V
      BY DEF TradingBooks, Trading
    <2>2. ASSUME NEW v \in V, NEW s \in Symbols PROVE Exited(v, s) \in V
      <3>1. Trading(Exited(v, s), n)
        BY ExitedKept DEF TradingBooks
      <3> QED BY <3>1 DEF TradingBooks, Trading
    <2> QED BY <2>1, <2>2
  <1> HIDE DEF V
  <1> QED BY <1>1, ExitLoop

----------------------------------------------------------------------------
(* Corporate actions.                                                      *)

\* The portfolio, while the day's corporate actions are applied.
ActionBook == [cash : Int, position : [Symbols -> BacktestPosition],
               orders : Seq(BacktestOrder),
               entitlements : Seq(DividendEntitlement), raised : BOOLEAN]
Acting == {b \in ActionBook : \A s \in Symbols : PositionSound(b.position[s])}

\* The fields of an action.
LEMMA ActionFields ==
    ASSUME NEW a \in CorporateAction
    PROVE  /\ a.id \in Nat /\ a.type \in ActionTypes /\ a.symbol \in Symbols
           /\ a.record \in Nat /\ a.ex \in Nat /\ a.payment \in Nat
           /\ a.tradable \in Nat /\ a.cash \in Nat /\ a.num \in Nat
           /\ a.den \in Nat \ {0}
           /\ a.type = "SYMBOL_CHANGE" => a.to \in Symbols
  BY DEF CorporateAction

\* A dividend is not taxed by more than it is.
LEMMA TaxFits ==
    ASSUME NEW gross \in Nat
    PROVE  gross - (gross * DividendTax) \div Basis \in Nat
  <1> DEFINE tax == DividendTax
             part == gross * tax
             q == part \div 10000
  <1>1. tax \in Nat /\ tax <= 10000
    BY ConfigAssumption DEF Basis
  <1> HIDE DEF tax
  <1>2. part \in Nat /\ part <= 10000 * gross
    BY <1>1, Z3
  <1> HIDE DEF part
  <1>3. q \in Nat /\ q <= gross
    BY <1>2
  <1>4. gross - q \in Nat
    <2> HIDE DEF q
    <2> QED BY <1>3
  <1> QED BY <1>4 DEF q, part, tax, Basis

\* An entitlement is made of the shares that are held.
LEMMA EntitledKept ==
    ASSUME NEW b \in Acting, NEW a \in CorporateAction, NEW day
    PROVE  Entitled(b, a, day) \in Acting
  <1> DEFINE n == eligible(b, a)
             gross == n * a.cash
             net == gross - (gross * DividendTax) \div Basis
             payment == IF a.payment = 0 THEN a.ex ELSE a.payment
             e == [action |-> a.id, quantity |-> n, net |-> net,
                   payment |-> payment, status |-> "CREATED"]
             list == Append(b.entitlements, e)
             c == [b EXCEPT !.entitlements = list]
  <1>1. /\ b \in ActionBook /\ b.entitlements \in Seq(DividendEntitlement)
        /\ \A s \in Symbols : PositionSound(b.position[s])
    BY DEF Acting, ActionBook
  <1>2. /\ a.id \in Nat /\ a.cash \in Nat /\ payment \in Nat /\ a.symbol \in Symbols
    BY ActionFields
  <1>3. n \in Nat
    BY <1>1, <1>2, PositionFields DEF eligible, PositionSound
  <1>4. gross \in Nat
    BY <1>2, <1>3
  <1>5. net \in Nat
    <2> HIDE DEF gross
    <2> QED BY <1>4, TaxFits
  <1> HIDE DEF n, payment, net
  <1>6. e \in DividendEntitlement
    BY <1>2, <1>3, <1>5 DEF DividendEntitlement
  <1> HIDE DEF e
  <1>7. list \in Seq(DividendEntitlement)
    BY <1>1, <1>6
  <1>8. Entitled(b, a, day) = b \/ Entitled(b, a, day) = c
    <2>1. c = [b EXCEPT !.entitlements = Append(@, e)]
      BY <1>1 DEF ActionBook
    <2> HIDE DEF c
    <2> QED BY <2>1 DEF Entitled, e, net, gross, n, payment
  <1> HIDE DEF list
  <1>9. c \in ActionBook /\ c.position = b.position
    BY <1>1, <1>7 DEF ActionBook
  <1>10. c \in Acting
    <2> HIDE DEF c
    <2> QED BY <1>1, <1>9 DEF Acting
  <1> QED BY <1>8, <1>10

\* A position of the book is replaced by a whole one.
LEMMA FolioSet ==
    ASSUME NEW folio \in [Symbols -> BacktestPosition], NEW s \in Symbols,
           NEW pos, PositionSound(pos),
           \A t \in Symbols : PositionSound(folio[t])
    PROVE  /\ [folio EXCEPT ![s] = pos] \in [Symbols -> BacktestPosition]
           /\ \A t \in Symbols : PositionSound([folio EXCEPT ![s] = pos][t])
  BY DEF PositionSound

\* Bonus shares, splits and reverse splits.
LEMMA AdjustedKept ==
    ASSUME NEW b \in Acting, NEW a \in CorporateAction,
           a.type \in BonusTypes \cup ScaleTypes,
           NEW day \in Nat, NEW close \in Nat
    PROVE  Adjusted(b, a, day, close) \in Acting
  <1> DEFINE s == a.symbol
             pos == b.position[s]
             added == (pos.total * a.num) \div a.den
             fewer == (pos.total * a.den) \div a.num
             locked == a.tradable > day
             new == CASE a.type \in BonusTypes ->
                           add_bonus_shares(pos, added, locked, close)
                      [] a.type = "SPLIT" -> rescale_quantity(pos, added, close)
                      [] a.type = "REVERSE_SPLIT" ->
                           rescale_quantity(pos, fewer, close)
             failed == [b EXCEPT !.raised = TRUE]
             changed == [b EXCEPT !.position[s] = new]
             folio == [b.position EXCEPT ![s] = new]
  <1>1. /\ b \in ActionBook /\ b.position \in [Symbols -> BacktestPosition]
        /\ \A t \in Symbols : PositionSound(b.position[t])
    BY DEF Acting, ActionBook
  <1>2. /\ s \in Symbols /\ a.num \in Nat /\ a.den \in Nat \ {0}
        /\ locked \in BOOLEAN /\ a.tradable \in Nat
    BY ActionFields
  <1>3. PositionSound(pos) /\ pos.total \in Nat
    BY <1>1, <1>2, PositionFields DEF PositionSound
  <1>4. added \in Nat
    BY <1>2, <1>3, RatioType
  <1>5. CASE pos.total <= 0
    BY <1>5 DEF Adjusted
  <1>6. CASE pos.total > 0 /\ a.type = "REVERSE_SPLIT" /\ a.num = 0
    <2>1. Adjusted(b, a, day, close) = failed
      <3>1. ~(pos.total <= 0)
        BY <1>3, <1>6
      <3> QED BY <1>6, <3>1 DEF Adjusted
    <2>2. failed \in ActionBook /\ failed.position = b.position
      BY <1>1 DEF ActionBook
    <2> HIDE DEF failed
    <2>3. failed \in Acting
      BY <1>1, <2>2 DEF Acting
    <2> QED BY <2>1, <2>3
  <1>7. CASE pos.total > 0 /\ ~(a.type = "REVERSE_SPLIT" /\ a.num = 0)
    <2>1. ~(pos.total <= 0) /\ pos.total # 0
      BY <1>3, <1>7
    <2>2. PositionSound(new)
      <3>1. CASE a.type \in BonusTypes
        <4>1. new = add_bonus_shares(pos, added, locked, close)
          BY <3>1 DEF BonusTypes
        <4> HIDE DEF new, pos, added, locked
        <4> QED BY <1>2, <1>3, <1>4, <4>1, BonusKept
      <3>2. CASE a.type = "SPLIT"
        <4>1. new = rescale_quantity(pos, added, close)
          BY <3>2 DEF BonusTypes
        <4> HIDE DEF new, pos, added
        <4> QED BY <1>3, <1>4, <2>1, <4>1, RescaleKept
      <3>3. CASE a.type = "REVERSE_SPLIT"
        <4>1. new = rescale_quantity(pos, fewer, close)
          BY <3>3 DEF BonusTypes
        <4>2. a.num \in Nat \ {0}
          BY <1>2, <1>7, <3>3
        <4>3. fewer \in Nat
          BY <1>2, <1>3, <4>2, RatioType
        <4> HIDE DEF new, pos, fewer
        <4> QED BY <1>3, <2>1, <4>1, <4>3, RescaleKept
      <3> QED BY <3>1, <3>2, <3>3 DEF ScaleTypes
    <2>3. Adjusted(b, a, day, close) = changed
      BY <1>1, <1>2, <1>7, <2>1 DEF Adjusted, ActionBook
    <2>4. changed = [b EXCEPT !.position = folio]
      <3> HIDE DEF changed, new, s
      <3>1. changed = [b EXCEPT !.position[s] = new]
        BY DEF changed
      <3> QED BY <1>1, <3>1 DEF ActionBook
    <2>5. /\ folio \in [Symbols -> BacktestPosition]
          /\ \A t \in Symbols : PositionSound(folio[t])
      <3> HIDE DEF new, s
      <3> QED BY <1>1, <1>2, <2>2, FolioSet
    <2> HIDE DEF changed, folio
    <2>6. changed \in ActionBook /\ changed.position = folio
      BY <1>1, <2>4, <2>5 DEF ActionBook
    <2>7. changed \in Acting
      BY <2>5, <2>6 DEF Acting
    <2> QED BY <2>3, <2>7
  <1> QED BY <1>3, <1>5, <1>6, <1>7

\* A symbol change moves the position and the orders.
LEMMA RenamedKept ==
    ASSUME NEW b \in Acting, NEW a \in CorporateAction, a.type = "SYMBOL_CHANGE"
    PROVE  Renamed(b, a) \in Acting
  <1> DEFINE pos == b.position[a.symbol]
             folio == IF pos = NoPosition THEN b.position
                      ELSE [b.position EXCEPT ![a.symbol] = NoPosition, ![a.to] = pos]
             list == [i \in DOMAIN b.orders |->
                        IF b.orders[i].symbol = a.symbol
                        THEN [b.orders[i] EXCEPT !.symbol = a.to] ELSE b.orders[i]]
             c == Renamed(b, a)
  <1>1. /\ b \in ActionBook /\ b.position \in [Symbols -> BacktestPosition]
        /\ b.orders \in Seq(BacktestOrder)
        /\ \A t \in Symbols : PositionSound(b.position[t])
    BY DEF Acting, ActionBook
  <1>2. a.symbol \in Symbols /\ a.to \in Symbols
    BY ActionFields
  <1>3. PositionSound(NoPosition)
    BY DEF NoPosition, PositionSound, BacktestPosition
  <1>4. PositionSound(pos)
    BY <1>1, <1>2
  <1>5. /\ folio \in [Symbols -> BacktestPosition]
        /\ \A t \in Symbols : PositionSound(folio[t])
    <2> DEFINE once == [b.position EXCEPT ![a.symbol] = NoPosition]
    <2>1. /\ once \in [Symbols -> BacktestPosition]
          /\ \A t \in Symbols : PositionSound(once[t])
      BY <1>1, <1>2, <1>3, FolioSet
    <2>2. folio = b.position \/ folio = [once EXCEPT ![a.to] = pos]
      OBVIOUS
    <2> HIDE DEF once, folio, pos
    <2>3. /\ [once EXCEPT ![a.to] = pos] \in [Symbols -> BacktestPosition]
          /\ \A t \in Symbols : PositionSound([once EXCEPT ![a.to] = pos][t])
      BY <1>2, <1>4, <2>1, FolioSet
    <2> QED BY <1>1, <2>2, <2>3
  <1>6. list \in Seq(BacktestOrder)
    <2> DEFINE old == b.orders
    <2>1. old \in Seq(BacktestOrder) /\ DOMAIN old = 1..Len(old) /\ Len(old) \in Nat
      BY <1>1
    <2> HIDE DEF old
    <2>2. \A i \in DOMAIN old : old[i] \in BacktestOrder
                                /\ [old[i] EXCEPT !.symbol = a.to] \in BacktestOrder
      <3>1. \A o \in BacktestOrder : [o EXCEPT !.symbol = a.to] \in BacktestOrder
        BY <1>2 DEF BacktestOrder
      <3>2. \A i \in DOMAIN old : old[i] \in BacktestOrder
        BY <2>1
      <3> QED BY <3>1, <3>2
    <2>3. [i \in DOMAIN old |-> IF old[i].symbol = a.symbol
                                THEN [old[i] EXCEPT !.symbol = a.to] ELSE old[i]]
            \in [1..Len(old) -> BacktestOrder]
      BY <2>1, <2>2
    <2>4. list \in [1..Len(old) -> BacktestOrder]
      BY <2>3 DEF old
    <2> HIDE DEF list
    <2> QED BY <2>1, <2>4
  <1>7. c = [b EXCEPT !.position = folio, !.orders = list]
    BY <1>1 DEF Renamed, ActionBook
  <1> HIDE DEF c, folio, list
  <1>8. c \in ActionBook /\ c.position = folio
    BY <1>1, <1>5, <1>6, <1>7 DEF ActionBook
  <1>9. c \in Acting
    BY <1>5, <1>8 DEF Acting
  <1> QED BY <1>9 DEF c

\* Orders that are cancelled stay orders.
LEMMA CancelledType ==
    ASSUME NEW list \in Seq(BacktestOrder), NEW s
    PROVE  CancelledOrders(list, s) \in Seq(BacktestOrder)
  <1>1. DOMAIN list = 1..Len(list) /\ Len(list) \in Nat
    OBVIOUS
  <1>2. \A i \in DOMAIN list :
            /\ list[i] \in BacktestOrder
            /\ [list[i] EXCEPT !.status = "CANCELLED_CORPORATE_ACTION"] \in BacktestOrder
    <2>1. \A o \in BacktestOrder :
             [o EXCEPT !.status = "CANCELLED_CORPORATE_ACTION"] \in BacktestOrder
      BY DEF BacktestOrder, OrderStatus
    <2>2. \A i \in DOMAIN list : list[i] \in BacktestOrder
      OBVIOUS
    <2> QED BY <2>1, <2>2
  <1>3. CancelledOrders(list, s) \in [1..Len(list) -> BacktestOrder]
    BY <1>1, <1>2 DEF CancelledOrders
  <1> HIDE DEF CancelledOrders
  <1> QED BY <1>1, <1>3

\* An action on its ex date.
LEMMA EffectiveKept ==
    ASSUME NEW b \in Acting, NEW a \in CorporateAction, NEW day \in Nat,
           NEW today \in [Symbols -> Bar]
    PROVE  Effective(b, a, day, today) \in Acting
  <1> DEFINE c == Effective(b, a, day, today)
             maybe == [b EXCEPT !.raised = FailClosed]
             failed == [b EXCEPT !.raised = TRUE]
             cancelled == [b EXCEPT !.orders = CancelledOrders(b.orders, a.symbol)]
  <1>1. /\ b \in ActionBook /\ b.orders \in Seq(BacktestOrder)
        /\ \A t \in Symbols : PositionSound(b.position[t])
    BY DEF Acting, ActionBook
  <1>2. a.type \in ActionTypes /\ a.symbol \in Symbols
    BY ActionFields
  <1>3. today[a.symbol].close \in Nat
    BY <1>2 DEF Bar
  <1>4. CASE a.type = "CASH_DIVIDEND"
    BY <1>4 DEF Effective, BonusTypes, ScaleTypes
  <1>5. CASE a.type = "RIGHTS_ISSUE"
    <2>1. c = maybe
      BY <1>5 DEF Effective, BonusTypes, ScaleTypes
    <2>2. maybe \in ActionBook /\ maybe.position = b.position
      BY <1>1, ConfigAssumption DEF ActionBook
    <2> HIDE DEF maybe
    <2>3. maybe \in Acting
      BY <1>1, <2>2 DEF Acting
    <2> QED BY <2>1, <2>3
  <1>6. CASE a.type = "DELISTING"
    <2>1. c = failed \/ c = cancelled
      <3>1. c = IF b.position[a.symbol].total > 0 THEN failed
                ELSE [b EXCEPT !.orders = CancelledOrders(@, a.symbol)]
        BY <1>6 DEF Effective, BonusTypes, ScaleTypes
      <3>2. [b EXCEPT !.orders = CancelledOrders(@, a.symbol)] = cancelled
        BY <1>1 DEF ActionBook
      <3> HIDE DEF c, failed, cancelled
      <3> QED BY <3>1, <3>2
    <2>2. failed \in ActionBook /\ failed.position = b.position
      BY <1>1 DEF ActionBook
    <2>3. cancelled \in ActionBook /\ cancelled.position = b.position
      <3>1. CancelledOrders(b.orders, a.symbol) \in Seq(BacktestOrder)
        BY <1>1, CancelledType
      <3> QED BY <1>1, <3>1 DEF ActionBook
    <2> HIDE DEF failed, cancelled, c
    <2>4. failed \in Acting /\ cancelled \in Acting
      BY <1>1, <2>2, <2>3 DEF Acting
    <2> QED BY <2>1, <2>4 DEF c
  <1>7. CASE a.type = "SYMBOL_CHANGE"
    BY <1>7, RenamedKept DEF Effective, BonusTypes, ScaleTypes
  <1>8. CASE a.type \in BonusTypes \cup ScaleTypes
    <2>1. c = Adjusted(b, a, day, today[a.symbol].close)
      BY <1>8 DEF Effective, BonusTypes, ScaleTypes
    <2> QED BY <1>3, <1>8, <2>1, AdjustedKept
  <1> QED BY <1>2, <1>4, <1>5, <1>6, <1>7, <1>8 DEF ActionTypes

\* An action's turn.
LEMMA ProcessedKept ==
    ASSUME NEW b \in Acting, NEW a \in CorporateAction, NEW day \in Nat,
           NEW today \in [Symbols -> Bar]
    PROVE  Processed(b, a, day, today) \in Acting
  <1> DEFINE recorded == IF a.type = "CASH_DIVIDEND" /\ a.record = day
                         THEN Entitled(b, a, day) ELSE b
  <1>1. recorded \in Acting
    BY EntitledKept
  <1>2. Processed(b, a, day, today) = IF b.raised THEN b
            ELSE IF a.ex = day THEN Effective(recorded, a, day, today) ELSE recorded
    BY DEF Processed
  <1> HIDE DEF recorded
  <1>3. Effective(recorded, a, day, today) \in Acting
    BY <1>1, EffectiveKept
  <1> QED BY <1>1, <1>2, <1>3

\* The loop of _process_corporate_actions, over a list of actions.
ActionIter(base, list, day, today) ==
    CHOOSE iter : iter = [t \in SUBSET DOMAIN list |->
        IF t = {} THEN base ELSE Processed(iter[t \ {Max(t)}], list[Max(t)], day, today)]

\* The loop takes one action after the other.
ActionsFollow(iter, base, list, day, today) ==
    \A t \in SUBSET DOMAIN list : iter[t] =
        IF t = {} THEN base
        ELSE Processed(iter[t \ {Max(t)}], list[Max(t)], day, today)

\* There is such a loop.
LEMMA ActionIterDef ==
    ASSUME NEW base \in Acting, NEW list \in Seq(CorporateAction), NEW day \in Nat,
           NEW today \in [Symbols -> Bar]
    PROVE  ActionsFollow(ActionIter(base, list, day, today), base, list, day, today)
  <1> DEFINE S == DOMAIN list
             V == Acting
             pick == [t \in SUBSET S |-> Max(t)]
             op == [x \in S \X V |-> Processed(x[2], list[x[1]], day, today)]
             step(iter) == [t \in SUBSET S |->
               IF t = {} THEN base ELSE Processed(iter[t \ {Max(t)}], list[Max(t)], day, today)]
  <1>1. base \in V
    OBVIOUS
  <1>2. IsFiniteSet(S) /\ Picks(pick, S)
    <2>1. S = 1..Len(list) /\ Len(list) \in Nat
      OBVIOUS
    <2> HIDE DEF S, pick
    <2>2. pick = [t \in SUBSET (1..Len(list)) |-> Max(t)]
      BY <2>1 DEF pick
    <2> QED BY <2>1, <2>2, MaxPicks
  <1>4. \A x \in S, v \in V : Processed(v, list[x], day, today) \in V
    <2> SUFFICES ASSUME NEW x \in S, NEW v \in V PROVE Processed(v, list[x], day, today) \in V
      OBVIOUS
    <2>1. list[x] \in CorporateAction
      OBVIOUS
    <2> QED BY <2>1, ProcessedKept
  <1>5. op \in [S \X V -> V]
    BY <1>4
  <1>6. PICK g \in [SUBSET S -> V] : Folds(g, S, base, pick, op)
    <2> HIDE DEF S, V, pick, op
    <2> QED BY <1>1, <1>2, <1>5, FoldExists
  <1>7. ASSUME NEW t \in SUBSET S
        PROVE  g[t] = step(g)[t]
    <2>1. CASE t = {}
      BY <2>1, <1>6 DEF Folds
    <2>2. CASE t # {}
      <3> DEFINE x == pick[t]
                 v == g[t \ {x}]
      <3>1. g[t] = op[<<x, v>>]
        BY <2>2, <1>6 DEF Folds
      <3>2. x = Max(t) /\ x \in S /\ v \in V
        BY <2>2, <1>2, <1>6 DEF Picks
      <3> HIDE DEF x, v, S, V
      <3>3. op[<<x, v>>] = Processed(v, list[x], day, today)
        BY <3>2
      <3> QED BY <2>2, <3>1, <3>2, <3>3 DEF x, v
    <2> QED BY <2>1, <2>2
  <1>8. g = step(g)
    BY <1>7
  <1> DEFINE I == ActionIter(base, list, day, today)
  <1>9. I = step(I)
    BY <1>8 DEF ActionIter
  <1>10. \A t \in SUBSET S : I[t] = step(I)[t]
    BY <1>9
  <1> QED BY <1>10 DEF ActionsFollow

\* A relation between the actions that have had their turn and the portfolio holds
\* before the loop, and each action's turn keeps it.
ActionsCarry(R, base, list, day, today) ==
    /\ <<{}, base>> \in R
    /\ \A t \in SUBSET DOMAIN list : \A x \in t : \A v \in Acting :
          <<t \ {x}, v>> \in R => <<t, Processed(v, list[x], day, today)>> \in R

\* Such a relation holds after the loop.
LEMMA ActionLoop ==
    ASSUME NEW base \in Acting, NEW list \in Seq(CorporateAction), NEW day \in Nat,
           NEW today \in [Symbols -> Bar], NEW R,
           ActionsCarry(R, base, list, day, today)
    PROVE  LET b == ActionIter(base, list, day, today)[DOMAIN list]
           IN  b \in Acting /\ <<DOMAIN list, b>> \in R
  <1> DEFINE S == DOMAIN list
             I == ActionIter(base, list, day, today)
  <1>0. ActionsFollow(I, base, list, day, today)
    BY ActionIterDef
  <1> DEFINE T == {t \in SUBSET S : I[t] \in Acting /\ <<t, I[t]>> \in R}
  <1>1. \A x \in S : \A v \in Acting : Processed(v, list[x], day, today) \in Acting
    <2>1. \A x \in S : list[x] \in CorporateAction
      OBVIOUS
    <2> QED BY <2>1, ProcessedKept
  <1>2. \A t \in SUBSET S : I[t] = IF t = {} THEN base ELSE Processed(I[t \ {Max(t)}], list[Max(t)], day, today)
    BY <1>0 DEF ActionsFollow
  <1>3. IsFiniteSet(S) /\ S \subseteq Int
    <2>1. S = 1..Len(list) /\ Len(list) \in Nat
      OBVIOUS
    <2> QED BY <2>1, FS_Interval
  <1>4. \A t \in SUBSET S : \A x \in t : \A v \in Acting :
            <<t \ {x}, v>> \in R => <<t, Processed(v, list[x], day, today)>> \in R
    BY DEF ActionsCarry
  <1> HIDE DEF I, S
  <1>5. {} \in T
    BY <1>2 DEF ActionsCarry
  <1>6. ASSUME NEW t \in SUBSET S, Max(t) \in t, t \ {Max(t)} \in T PROVE t \in T
    <2>1. /\ I[t \ {Max(t)}] \in Acting /\ <<t \ {Max(t)}, I[t \ {Max(t)}]>> \in R
          /\ Max(t) \in S /\ t # {}
      BY <1>6
    <2>2. I[t] = Processed(I[t \ {Max(t)}], list[Max(t)], day, today)
      BY <1>2, <2>1
    <2>3. I[t] \in Acting /\ <<t, I[t]>> \in R
      BY <1>1, <1>4, <1>6, <2>1, <2>2
    <2> QED BY <2>3
  <1>7. S \in T
    <2> HIDE DEF T
    <2> QED BY <1>3, <1>5, <1>6, MaxInduction
  <1> QED BY <1>7 DEF S, I

\* The day's actions are applied.
LEMMA ActionsKept ==
    ASSUME NEW base \in Acting, NEW list \in Seq(CorporateAction), NEW day \in Nat,
           NEW today \in [Symbols -> Bar]
    PROVE  ActionIter(base, list, day, today)[DOMAIN list] \in Acting
  <1> DEFINE R == (SUBSET DOMAIN list) \X Acting
  <1>1. ActionsCarry(R, base, list, day, today)
    <2>1. \A x \in DOMAIN list : list[x] \in CorporateAction
      OBVIOUS
    <2> QED BY <2>1, ProcessedKept DEF ActionsCarry
  <1> HIDE DEF R
  <1> QED BY <1>1, ActionLoop

----------------------------------------------------------------------------
(* The other steps of a day.                                               *)

\* release_t1 empties today's buckets.
LEMMA ReleasedT1Kept ==
    ASSUME NEW folio \in [Symbols -> BacktestPosition],
           \A s \in Symbols : PositionSound(folio[s])
    PROVE  /\ ReleasedT1(folio) \in [Symbols -> BacktestPosition]
           /\ \A s \in Symbols : PositionSound(ReleasedT1(folio)[s])
           /\ \A s \in Symbols : ReleasedT1(folio)[s].today = 0
  <1>1. ASSUME NEW s \in Symbols
        PROVE  LET p == ReleasedT1(folio)[s] IN PositionSound(p) /\ p.today = 0
    <2> DEFINE old == folio[s]
               free == old.available + old.today
               p == ReleasedT1(folio)[s]
    <2>1. old \in BacktestPosition /\ PositionSound(old)
      OBVIOUS
    <2>2. p = [old EXCEPT !.available = free, !.today = 0]
      BY DEF ReleasedT1, BacktestPosition
    <2>3. /\ old.total \in Nat /\ old.available \in Nat /\ old.locked \in Nat
          /\ old.today \in Nat
      BY <2>1, PositionFields
    <2>4. free \in Nat /\ free + old.locked = old.total
      BY <2>1, <2>3 DEF PositionSound
    <2> HIDE DEF p, free, old
    <2>5. /\ p \in BacktestPosition /\ p.available = free /\ p.today = 0
          /\ p.locked = old.locked /\ p.total = old.total
      BY <2>1, <2>2, <2>4 DEF BacktestPosition
    <2>6. p.available + p.locked + p.today = p.total
      BY <2>3, <2>4, <2>5
    <2> QED BY <2>5, <2>6 DEF PositionSound, p
  <1>2. ReleasedT1(folio) = [s \in Symbols |-> ReleasedT1(folio)[s]]
    BY DEF ReleasedT1
  <1> HIDE DEF ReleasedT1
  <1> QED BY <1>1, <1>2 DEF PositionSound

\* Locked shares are released into those that can be sold.
LEMMA ReleasedLockedKept ==
    ASSUME NEW folio \in [Symbols -> BacktestPosition],
           \A s \in Symbols : PositionSound(folio[s]) /\ folio[s].today = 0
    PROVE  /\ ReleasedLocked(folio) \in [Symbols -> BacktestPosition]
           /\ \A s \in Symbols : PositionSound(ReleasedLocked(folio)[s])
           /\ \A s \in Symbols : ReleasedLocked(folio)[s].today = 0
  <1>1. ASSUME NEW s \in Symbols
        PROVE  LET p == ReleasedLocked(folio)[s] IN PositionSound(p) /\ p.today = 0
    <2> DEFINE old == folio[s]
               free == old.available + old.locked
               new == [old EXCEPT !.available = free, !.locked = 0]
               p == ReleasedLocked(folio)[s]
    <2>1. old \in BacktestPosition /\ PositionSound(old) /\ old.today = 0
      OBVIOUS
    <2>2. p = old \/ p = new
      BY DEF ReleasedLocked, BacktestPosition
    <2>3. /\ old.total \in Nat /\ old.available \in Nat /\ old.locked \in Nat
          /\ old.today \in Nat
      BY <2>1, PositionFields
    <2>4. free \in Nat /\ free + old.today = old.total
      BY <2>1, <2>3 DEF PositionSound
    <2> HIDE DEF p, free, old
    <2>5. /\ new \in BacktestPosition /\ new.available = free /\ new.locked = 0
          /\ new.today = old.today /\ new.total = old.total
      BY <2>1, <2>4 DEF BacktestPosition
    <2> HIDE DEF new
    <2>6. new.available + new.locked + new.today = new.total
      BY <2>3, <2>4, <2>5
    <2> QED BY <2>1, <2>2, <2>5, <2>6 DEF PositionSound, p
  <1>2. ReleasedLocked(folio) = [s \in Symbols |-> ReleasedLocked(folio)[s]]
    BY DEF ReleasedLocked
  <1> HIDE DEF ReleasedLocked
  <1> QED BY <1>1, <1>2 DEF PositionSound

\* The loop of _pay_dividends, over a list of entitlements.
PayIter(base, list) ==
    CHOOSE iter : iter = [t \in SUBSET DOMAIN list |->
        IF t = {} THEN base ELSE (IF Due(list[Max(t)]) THEN iter[t \ {Max(t)}] + list[Max(t)].net ELSE iter[t \ {Max(t)}])]

\* The loop takes one entitlement after the other.
LEMMA PayIterDef ==
    ASSUME NEW base \in Nat, NEW list \in Seq(DividendEntitlement)
    PROVE  \A t \in SUBSET DOMAIN list : PayIter(base, list)[t] =
             IF t = {} THEN base ELSE (IF Due(list[Max(t)]) THEN PayIter(base, list)[t \ {Max(t)}] + list[Max(t)].net ELSE PayIter(base, list)[t \ {Max(t)}])
  <1> DEFINE S == DOMAIN list
             V == Nat
             pick == [t \in SUBSET S |-> Max(t)]
             op == [x \in S \X V |-> (IF Due(list[x[1]]) THEN x[2] + list[x[1]].net ELSE x[2])]
             step(iter) == [t \in SUBSET S |->
               IF t = {} THEN base ELSE (IF Due(list[Max(t)]) THEN iter[t \ {Max(t)}] + list[Max(t)].net ELSE iter[t \ {Max(t)}])]
  <1>1. base \in V
    OBVIOUS
  <1>2. IsFiniteSet(S) /\ Picks(pick, S)
    <2>1. S = 1..Len(list) /\ Len(list) \in Nat
      OBVIOUS
    <2> HIDE DEF S, pick
    <2>2. pick = [t \in SUBSET (1..Len(list)) |-> Max(t)]
      BY <2>1 DEF pick
    <2> QED BY <2>1, <2>2, MaxPicks
  <1>4. \A x \in S, v \in V : (IF Due(list[x]) THEN v + list[x].net ELSE v) \in V
    <2> SUFFICES ASSUME NEW x \in S, NEW v \in V PROVE (IF Due(list[x]) THEN v + list[x].net ELSE v) \in V
      OBVIOUS
    <2>1. list[x] \in DividendEntitlement
      OBVIOUS
    <2>2. list[x].net \in Nat
      BY <2>1 DEF DividendEntitlement
    <2> QED BY <2>2
  <1>5. op \in [S \X V -> V]
    BY <1>4
  <1>6. PICK g \in [SUBSET S -> V] : Folds(g, S, base, pick, op)
    <2> HIDE DEF S, V, pick, op
    <2> QED BY <1>1, <1>2, <1>5, FoldExists
  <1>7. ASSUME NEW t \in SUBSET S
        PROVE  g[t] = step(g)[t]
    <2>1. CASE t = {}
      BY <2>1, <1>6 DEF Folds
    <2>2. CASE t # {}
      <3> DEFINE x == pick[t]
                 v == g[t \ {x}]
      <3>1. g[t] = op[<<x, v>>]
        BY <2>2, <1>6 DEF Folds
      <3>2. x = Max(t) /\ x \in S /\ v \in V
        BY <2>2, <1>2, <1>6 DEF Picks
      <3> HIDE DEF x, v, S, V
      <3>3. op[<<x, v>>] = (IF Due(list[x]) THEN v + list[x].net ELSE v)
        BY <3>2
      <3> QED BY <2>2, <3>1, <3>2, <3>3 DEF x, v
    <2> QED BY <2>1, <2>2
  <1>8. g = step(g)
    BY <1>7
  <1> DEFINE I == PayIter(base, list)
  <1>9. I = step(I)
    BY <1>8 DEF PayIter
  <1>10. \A t \in SUBSET S : I[t] = step(I)[t]
    BY <1>9
  <1> QED BY <1>10

\* Dividends are money that comes in.
LEMMA PaysKept ==
    ASSUME NEW base \in Nat, NEW list \in Seq(DividendEntitlement)
    PROVE  PayIter(base, list)[DOMAIN list] \in Nat
  <1> DEFINE S == DOMAIN list
             V == Nat
             I == PayIter(base, list)
             T == {t \in SUBSET S : I[t] \in V}
  <1>1. base \in V
    OBVIOUS
  <1>2. \A x \in S, v \in V : (IF Due(list[x]) THEN v + list[x].net ELSE v) \in V
    <2> SUFFICES ASSUME NEW x \in S, NEW v \in V PROVE (IF Due(list[x]) THEN v + list[x].net ELSE v) \in V
      OBVIOUS
    <2>1. list[x] \in DividendEntitlement
      OBVIOUS
    <2>2. list[x].net \in Nat
      BY <2>1 DEF DividendEntitlement
    <2> QED BY <2>2
  <1>3. \A t \in SUBSET S : I[t] = IF t = {} THEN base ELSE (IF Due(list[Max(t)]) THEN I[t \ {Max(t)}] + list[Max(t)].net ELSE I[t \ {Max(t)}])
    BY PayIterDef
  <1>4. IsFiniteSet(S) /\ S \subseteq Int
    <2>1. S = 1..Len(list) /\ Len(list) \in Nat
      OBVIOUS
    <2> QED BY <2>1, FS_Interval
  <1> HIDE DEF I, V, S
  <1>5. {} \in T
    BY <1>1, <1>3
  <1>6. ASSUME NEW t \in SUBSET S, Max(t) \in t, t \ {Max(t)} \in T PROVE t \in T
    <2>1. I[t \ {Max(t)}] \in V /\ Max(t) \in S /\ t # {}
      BY <1>6
    <2>2. I[t] = (IF Due(list[Max(t)]) THEN I[t \ {Max(t)}] + list[Max(t)].net ELSE I[t \ {Max(t)}])
      BY <1>3, <2>1
    <2>3. I[t] \in V
      BY <1>2, <2>1, <2>2
    <2> QED BY <2>3
  <1>7. S \in T
    <2> HIDE DEF T
    <2> QED BY <1>4, <1>5, <1>6, MaxInduction
  <1> QED BY <1>7 DEF S, V, I

\* The loop of _cancel_orders_for_corporate_actions, over a list of actions.
CancelIter(base, list) ==
    CHOOSE iter : iter = [t \in SUBSET DOMAIN list |->
        IF t = {} THEN base ELSE (IF list[Max(t)].ex = session /\ list[Max(t)].type \in Cancelling
                 THEN CancelledOrders(iter[t \ {Max(t)}], list[Max(t)].symbol) ELSE iter[t \ {Max(t)}])]

\* The loop takes one action after the other.
LEMMA CancelIterDef ==
    ASSUME NEW base \in Seq(BacktestOrder), NEW list \in Seq(CorporateAction)
    PROVE  \A t \in SUBSET DOMAIN list : CancelIter(base, list)[t] =
             IF t = {} THEN base ELSE (IF list[Max(t)].ex = session /\ list[Max(t)].type \in Cancelling
                 THEN CancelledOrders(CancelIter(base, list)[t \ {Max(t)}], list[Max(t)].symbol) ELSE CancelIter(base, list)[t \ {Max(t)}])
  <1> DEFINE S == DOMAIN list
             V == Seq(BacktestOrder)
             pick == [t \in SUBSET S |-> Max(t)]
             op == [x \in S \X V |-> (IF list[x[1]].ex = session /\ list[x[1]].type \in Cancelling
                 THEN CancelledOrders(x[2], list[x[1]].symbol) ELSE x[2])]
             step(iter) == [t \in SUBSET S |->
               IF t = {} THEN base ELSE (IF list[Max(t)].ex = session /\ list[Max(t)].type \in Cancelling
                 THEN CancelledOrders(iter[t \ {Max(t)}], list[Max(t)].symbol) ELSE iter[t \ {Max(t)}])]
  <1>1. base \in V
    OBVIOUS
  <1>2. IsFiniteSet(S) /\ Picks(pick, S)
    <2>1. S = 1..Len(list) /\ Len(list) \in Nat
      OBVIOUS
    <2> HIDE DEF S, pick
    <2>2. pick = [t \in SUBSET (1..Len(list)) |-> Max(t)]
      BY <2>1 DEF pick
    <2> QED BY <2>1, <2>2, MaxPicks
  <1>4. \A x \in S, v \in V : (IF list[x].ex = session /\ list[x].type \in Cancelling
                 THEN CancelledOrders(v, list[x].symbol) ELSE v) \in V
    <2> SUFFICES ASSUME NEW x \in S, NEW v \in V PROVE (IF list[x].ex = session /\ list[x].type \in Cancelling
                 THEN CancelledOrders(v, list[x].symbol) ELSE v) \in V
      OBVIOUS
    <2> QED BY CancelledType
  <1>5. op \in [S \X V -> V]
    BY <1>4
  <1>6. PICK g \in [SUBSET S -> V] : Folds(g, S, base, pick, op)
    <2> HIDE DEF S, V, pick, op
    <2> QED BY <1>1, <1>2, <1>5, FoldExists
  <1>7. ASSUME NEW t \in SUBSET S
        PROVE  g[t] = step(g)[t]
    <2>1. CASE t = {}
      BY <2>1, <1>6 DEF Folds
    <2>2. CASE t # {}
      <3> DEFINE x == pick[t]
                 v == g[t \ {x}]
      <3>1. g[t] = op[<<x, v>>]
        BY <2>2, <1>6 DEF Folds
      <3>2. x = Max(t) /\ x \in S /\ v \in V
        BY <2>2, <1>2, <1>6 DEF Picks
      <3> HIDE DEF x, v, S, V
      <3>3. op[<<x, v>>] = (IF list[x].ex = session /\ list[x].type \in Cancelling
                 THEN CancelledOrders(v, list[x].symbol) ELSE v)
        BY <3>2
      <3> QED BY <2>2, <3>1, <3>2, <3>3 DEF x, v
    <2> QED BY <2>1, <2>2
  <1>8. g = step(g)
    BY <1>7
  <1> DEFINE I == CancelIter(base, list)
  <1>9. I = step(I)
    BY <1>8 DEF CancelIter
  <1>10. \A t \in SUBSET S : I[t] = step(I)[t]
    BY <1>9
  <1> QED BY <1>10

\* A relation between the actions that have had their turn and the orders holds
\* before the loop, and each action's turn keeps it.
CancelsCarry(R, base, list) ==
    /\ <<{}, base>> \in R
    /\ \A t \in SUBSET DOMAIN list : \A x \in t : \A v \in Seq(BacktestOrder) :
          <<t \ {x}, v>> \in R =>
              <<t, IF list[x].ex = session /\ list[x].type \in Cancelling
                   THEN CancelledOrders(v, list[x].symbol) ELSE v>> \in R

\* Such a relation holds after the loop.
LEMMA CancelLoop ==
    ASSUME NEW base \in Seq(BacktestOrder), NEW list \in Seq(CorporateAction),
           NEW R, CancelsCarry(R, base, list)
    PROVE  LET b == CancelIter(base, list)[DOMAIN list]
           IN  b \in Seq(BacktestOrder) /\ <<DOMAIN list, b>> \in R
  <1> DEFINE S == DOMAIN list
             V == Seq(BacktestOrder)
             cancel(v, x) == IF list[x].ex = session /\ list[x].type \in Cancelling
                             THEN CancelledOrders(v, list[x].symbol) ELSE v
             I == CancelIter(base, list)
             T == {t \in SUBSET S : I[t] \in V /\ <<t, I[t]>> \in R}
  <1>1. \A x \in S, v \in V : cancel(v, x) \in V
    BY CancelledType
  <1>2. \A t \in SUBSET S : I[t] = IF t = {} THEN base ELSE cancel(I[t \ {Max(t)}], Max(t))
    BY CancelIterDef
  <1>3. IsFiniteSet(S) /\ S \subseteq Int
    <2>1. S = 1..Len(list) /\ Len(list) \in Nat
      OBVIOUS
    <2> QED BY <2>1, FS_Interval
  <1>4. \A t \in SUBSET S : \A x \in t : \A v \in V :
            <<t \ {x}, v>> \in R => <<t, cancel(v, x)>> \in R
    BY DEF CancelsCarry
  <1> HIDE DEF I, V, S, cancel
  <1>5. {} \in T
    BY <1>2 DEF CancelsCarry, V
  <1>6. ASSUME NEW t \in SUBSET S, Max(t) \in t, t \ {Max(t)} \in T PROVE t \in T
    <2>1. /\ I[t \ {Max(t)}] \in V /\ <<t \ {Max(t)}, I[t \ {Max(t)}]>> \in R
          /\ Max(t) \in S /\ t # {}
      BY <1>6
    <2>2. I[t] = cancel(I[t \ {Max(t)}], Max(t))
      BY <1>2, <2>1
    <2>3. I[t] \in V /\ <<t, I[t]>> \in R
      BY <1>1, <1>4, <1>6, <2>1, <2>2
    <2> QED BY <2>3
  <1>7. S \in T
    <2> HIDE DEF T
    <2> QED BY <1>3, <1>5, <1>6, MaxInduction
  <1> QED BY <1>7 DEF S, V, I

\* Orders that are cancelled stay orders.
LEMMA CancelsKept ==
    ASSUME NEW base \in Seq(BacktestOrder), NEW list \in Seq(CorporateAction)
    PROVE  CancelIter(base, list)[DOMAIN list] \in Seq(BacktestOrder)
  <1> DEFINE R == (SUBSET DOMAIN list) \X Seq(BacktestOrder)
  <1>1. CancelsCarry(R, base, list)
    BY CancelledType DEF CancelsCarry
  <1> HIDE DEF R
  <1> QED BY <1>1, CancelLoop

\* A smallest day of a calendar is one of its days.
LEMMA MinIn ==
    ASSUME NEW S, IsFiniteSet(S), S \subseteq Nat, S # {}
    PROVE  Min(S) \in S /\ \A y \in S : Min(S) <= y
  <1> DEFINE f == [x \in S |-> -x]
             N == {f[x] : x \in S}
             m == Max(N)
  <1>1. IsFiniteSet(N) /\ N \subseteq Int /\ N # {}
    <2>1. IsFiniteSet(N)
      <3> HIDE DEF f
      <3> QED BY ImageFinite
    <2>2. \A x \in S : f[x] \in Int
      OBVIOUS
    <2>3. N \subseteq Int /\ N # {}
      <3> HIDE DEF f
      <3> QED BY <2>2
    <2> QED BY <2>1, <2>3
  <1>2. m \in N /\ \A y \in N : m >= y
    <2> HIDE DEF N
    <2> QED BY <1>1, MaxIn
  <1> HIDE DEF m
  <1>3. PICK x \in S : m = -x
    BY <1>2
  <1>4. \A y \in S : x <= y
    <2> SUFFICES ASSUME NEW y \in S PROVE x <= y
      OBVIOUS
    <2>1. -y \in N
      OBVIOUS
    <2>2. -x >= -y
      BY <1>2, <1>3, <2>1
    <2> QED BY <2>2
  <1>5. \E u \in S : \A y \in S : u <= y
    BY <1>4
  <1> QED BY <1>5 DEF Min

----------------------------------------------------------------------------
(* Equity.                                                                 *)

\* What positions are worth is not negative.
LEMMA ValueType ==
    ASSUME NEW folio \in [Symbols -> BacktestPosition]
    PROVE  SumFunctionOnSet([s \in Symbols |-> market_value(folio[s])], Symbols) \in Nat
  <1> DEFINE f == [s \in Symbols |-> market_value(folio[s])]
  <1>1. \A s \in Symbols : f[s] \in Nat
    <2> SUFFICES ASSUME NEW s \in Symbols PROVE f[s] \in Nat
      OBVIOUS
    <2>1. folio[s].last \in Nat /\ folio[s].total \in Nat
      BY PositionFields
    <2> QED BY <2>1 DEF market_value
  <1>2. IsFiniteSet(Symbols)
    BY ConfigAssumption
  <1> HIDE DEF f
  <1>3. SumFunctionOnSet(f, Symbols) \in Nat
    BY <1>1, <1>2, SumNat
  <1> QED BY <1>3 DEF f

----------------------------------------------------------------------------
(* The evening's orders.                                                   *)

\* The last day an order is good for is a day of the calendar.
LEMMA ExpiryType ==
    ASSUME session \in Nat, Cardinality(Later(Days, session)) >= Expiry,
           Later(Days, session) # {}
    PROVE  /\ expiry_session \in Nat
           /\ Min(Later(Days, session)) \in Nat
  <1> DEFINE L == Later(Days, session)
             far(d) == {e \in L : e <= d}
             R == {d \in L : Cardinality(far(d)) >= Expiry}
             last == Max(L)
  <1>1. IsFiniteSet(L) /\ L \subseteq Nat /\ L # {}
    BY ConfigAssumption, FS_Subset DEF Later
  <1>2. last \in L /\ \A y \in L : last >= y
    <2> HIDE DEF L
    <2>1. L \subseteq Int
      BY <1>1
    <2> QED BY <1>1, <2>1, MaxIn
  <1>3. far(last) = L
    <2> HIDE DEF L, last
    <2> QED BY <1>1, <1>2
  <1>4. last \in R
    BY <1>2, <1>3
  <1>5. IsFiniteSet(R) /\ R \subseteq Nat /\ R # {}
    <2>1. R \subseteq L
      OBVIOUS
    <2> HIDE DEF R, L
    <2> QED BY <1>1, <1>4, <2>1, FS_Subset
  <1>6. Min(R) \in R
    <2> HIDE DEF R
    <2> QED BY <1>5, MinIn
  <1>7. expiry_session = Min(R)
    BY DEF expiry_session
  <1>8. Min(L) \in L
    <2> HIDE DEF L
    <2> QED BY <1>1, MinIn
  <1> HIDE DEF R, L
  <1> QED BY <1>1, <1>5, <1>6, <1>7, <1>8 DEF L

\* What the risk engine approves of a signal is a number of shares.
LEMMA DecisionType ==
    ASSUME NEW signal, NEW s \in Symbols, NEW reference \in Nat, NEW stop \in Nat,
           position \in [Symbols -> BacktestPosition], cash \in Int, peak \in Int
    PROVE  evaluate(signal, Snapshot(s), reference, stop).approved \in Nat
  <1> DEFINE snap == Snapshot(s)
  <1>1. total_market_value \in Nat
    BY ValueType DEF total_market_value
  <1>2. position[s].last \in Nat /\ position[s].total \in Nat
    BY PositionFields
  <1>3. market_value(position[s]) \in Nat
    BY <1>2 DEF market_value
  <1>4. total_equity \in Int
    BY <1>1 DEF total_equity
  <1>5. /\ snap.equity = Greater(total_equity, 1) /\ snap.cash = Greater(cash, 0)
        /\ snap.symbolValue = market_value(position[s])
        /\ snap.marketValue = total_market_value /\ snap.industryValue = NoIndustry
    BY DEF Snapshot
  <1>6. /\ snap.equity \in Int /\ snap.cash \in Int /\ snap.symbolValue \in Int
        /\ snap.marketValue \in Int
    BY <1>1, <1>3, <1>4, <1>5 DEF Greater
  <1> HIDE DEF snap
  <1>7. CASE reference # 0 /\ stop < reference
    <2>1. evaluate(signal, snap, reference, stop).approved \in Nat
      BY <1>5, <1>6, <1>7, ApprovedType
    <2> QED BY <2>1 DEF snap
  <1>8. CASE ~(reference # 0 /\ stop < reference)
    <2>1. stop >= reference \/ reference <= 0
      BY <1>8
    <2>2. evaluate(signal, snap, reference, stop).approved = 0
      BY <2>1 DEF evaluate
    <2> QED BY <2>2 DEF snap
  <1> QED BY <1>7, <1>8

\* From book b to book c the evening has placed at most one order of a symbol that
\* is not delisted, or raised.
Offered(b, c, s) ==
    \/ c = b
    \/ \E q \in BOOLEAN : c = [b EXCEPT !.raised = q]
    \/ \E o \in BacktestOrder :
          /\ o.symbol = s /\ o.created = session /\ ~is_delisted(s)
          /\ c = [b EXCEPT !.orders = Append(@, o)]

\* A symbol's evening.
LEMMA GeneratedKept ==
    ASSUME NEW b \in TradeBook, NEW s \in Symbols, NEW signal, Market,
           position \in [Symbols -> BacktestPosition], cash \in Int, peak \in Int,
           Later(Days, session) # {}
    PROVE  /\ Generated(b, s, signal) \in TradeBook
           /\ Offered(b, Generated(b, s, signal), s)
  <1> DEFINE reference == bars[s].close
             stop == (reference * StopRate) \div Basis
             decision == evaluate(signal, Snapshot(s), reference, stop)
             quantity == floor_to_lot(decision.approved)
             o == new_order(s, "BUY", "MARKET_ON_NEXT_OPEN", quantity,
                            Min(Later(Days, session)), expiry_session, NoPrice)
             gone == [b EXCEPT !.raised = b.position[s].total > 0]
             failed == [b EXCEPT !.raised = TRUE]
             more == Append(b.orders, o)
             placed == [b EXCEPT !.orders = Append(@, o)]
             few == Cardinality(Later(Days, session)) < Expiry
             c == Generated(b, s, signal)
  <1>1. c = IF b.raised THEN b
            ELSE IF is_delisted(s) THEN gone
            ELSE IF ~Proposes(signal, decision) \/ quantity < Rules.lot THEN b
            ELSE IF few THEN failed ELSE placed
    BY DEF Generated
  <1>2. bars[s].close \in Nat /\ session \in Nat
    BY DEF Market, Bar
  <1>3. stop \in Nat
    <2>1. StopRate \in Nat
      BY ConfigAssumption
    <2>2. reference \in Nat /\ Basis \in Nat \ {0}
      BY <1>2 DEF Basis
    <2> HIDE DEF reference, decision
    <2>3. (reference * StopRate) \div Basis \in Nat
      BY <2>1, <2>2, RatioType
    <2> QED BY <2>3
  <1> HIDE DEF stop
  <1>4. decision.approved \in Nat
    BY <1>2, <1>3, DecisionType
  <1> HIDE DEF decision
  <1>5. quantity \in Nat
    BY <1>4, LotsFit
  <1> HIDE DEF quantity
  <1>6. ~few => o \in BacktestOrder /\ o.symbol = s /\ o.created = session
    <2> SUFFICES ASSUME ~few
                 PROVE  o \in BacktestOrder /\ o.symbol = s /\ o.created = session
      OBVIOUS
    <2>1. Cardinality(Later(Days, session)) >= Expiry
      <3>1. IsFiniteSet(Later(Days, session)) /\ Expiry \in Nat
        BY ConfigAssumption, FS_Subset DEF Later
      <3>2. Cardinality(Later(Days, session)) \in Nat
        BY <3>1, FS_CardinalityType
      <3> QED BY <3>1, <3>2
    <2>2. expiry_session \in Nat /\ Min(Later(Days, session)) \in Nat
      BY <1>2, <2>1, ExpiryType
    <2>3. "BUY" \in Sides /\ "MARKET_ON_NEXT_OPEN" \in OrderTypes /\ NoPrice \in Nat
      BY DEF Sides, OrderTypes, NoPrice
    <2>4. o \in BacktestOrder
      BY <1>2, <1>5, <2>2, <2>3, NewOrderType
    <2>5. o.symbol = s /\ o.created = session
      BY DEF new_order
    <2> QED BY <2>4, <2>5
  <1> HIDE DEF o, few
  <1>7. gone \in TradeBook /\ failed \in TradeBook
    <2>1. (b.position[s].total > 0) \in BOOLEAN
      OBVIOUS
    <2> QED BY <2>1 DEF TradeBook
  <1>8. ~few => placed \in TradeBook
    <2> SUFFICES ASSUME ~few PROVE placed \in TradeBook
      OBVIOUS
    <2>1. b.orders \in Seq(BacktestOrder)
      BY DEF TradeBook
    <2>2. more \in Seq(BacktestOrder)
      BY <1>6, <2>1
    <2>3. placed = [b EXCEPT !.orders = more]
      BY DEF TradeBook
    <2> HIDE DEF more
    <2> QED BY <2>2, <2>3 DEF TradeBook
  <1> DEFINE raising == {[b EXCEPT !.raised = q] : q \in BOOLEAN}
  <1>9. gone \in raising /\ failed \in raising
    <2>1. (b.position[s].total > 0) \in BOOLEAN
      OBVIOUS
    <2> QED BY <2>1
  <1>10. ~few => placed = [b EXCEPT !.orders = Append(@, o)]
    OBVIOUS
  <1> HIDE DEF gone, failed, placed, c, decision, quantity
  <1>11. c \in TradeBook
    BY <1>1, <1>7, <1>8
  <1>12. \/ c = b \/ c \in raising
         \/ ~few /\ ~is_delisted(s) /\ c = placed
    BY <1>1, <1>9
  <1>13. c \in raising => \E q \in BOOLEAN : c = [b EXCEPT !.raised = q]
    OBVIOUS
  <1> HIDE DEF raising
  <1> QED BY <1>6, <1>10, <1>11, <1>12, <1>13 DEF c, Offered

\* The loop of _generate_next_session_orders, over the listed symbols.
GenerateIter(base, signals) ==
    CHOOSE iter : iter = [t \in SUBSET Listed |->
        IF t = {} THEN base ELSE Generated(iter[t \ {Max(t)}], Max(t), signals[Max(t)])]

\* The loop takes one symbol after the other.
LEMMA GenerateIterDef ==
    ASSUME NEW base \in TradeBook, NEW signals, Market,
           position \in [Symbols -> BacktestPosition], cash \in Int, peak \in Int,
           Later(Days, session) # {}
    PROVE  \A t \in SUBSET Listed : GenerateIter(base, signals)[t] =
             IF t = {} THEN base ELSE Generated(GenerateIter(base, signals)[t \ {Max(t)}], Max(t), signals[Max(t)])
  <1> DEFINE S == Listed
             V == TradeBook
             pick == [t \in SUBSET S |-> Max(t)]
             op == [x \in S \X V |-> Generated(x[2], x[1], signals[x[1]])]
             step(iter) == [t \in SUBSET S |->
               IF t = {} THEN base ELSE Generated(iter[t \ {Max(t)}], Max(t), signals[Max(t)])]
  <1>1. base \in V
    OBVIOUS
  <1>2. IsFiniteSet(S) /\ Picks(pick, S)
    <2>1. IsFiniteSet(S) /\ S \subseteq Int
      <3>1. /\ IsFiniteSet(Symbols) /\ Symbols \subseteq Nat
            /\ Listed \subseteq Symbols
        BY ConfigAssumption
      <3>2. IsFiniteSet(Listed)
        BY <3>1, FS_Subset
      <3> QED BY <3>1, <3>2
    <2>2. ASSUME NEW t \in SUBSET S, t # {} PROVE Max(t) \in t
      <3>1. IsFiniteSet(t) /\ t \subseteq Int
        BY <2>1, FS_Subset
      <3> QED BY <2>2, <3>1, MaxIn
    <2> QED BY <2>1, <2>2 DEF Picks
  <1>4. \A x \in S, v \in V : Generated(v, x, signals[x]) \in V
    <2> SUFFICES ASSUME NEW x \in S, NEW v \in V PROVE Generated(v, x, signals[x]) \in V
      OBVIOUS
    <2>1. x \in Symbols
      BY ConfigAssumption
    <2> QED BY <2>1, GeneratedKept
  <1>5. op \in [S \X V -> V]
    BY <1>4
  <1>6. PICK g \in [SUBSET S -> V] : Folds(g, S, base, pick, op)
    <2> HIDE DEF S, V, pick, op
    <2> QED BY <1>1, <1>2, <1>5, FoldExists
  <1>7. ASSUME NEW t \in SUBSET S
        PROVE  g[t] = step(g)[t]
    <2>1. CASE t = {}
      BY <2>1, <1>6 DEF Folds
    <2>2. CASE t # {}
      <3> DEFINE x == pick[t]
                 v == g[t \ {x}]
      <3>1. g[t] = op[<<x, v>>]
        BY <2>2, <1>6 DEF Folds
      <3>2. x = Max(t) /\ x \in S /\ v \in V
        BY <2>2, <1>2, <1>6 DEF Picks
      <3> HIDE DEF x, v, S, V
      <3>3. op[<<x, v>>] = Generated(v, x, signals[x])
        BY <3>2
      <3> QED BY <2>2, <3>1, <3>2, <3>3 DEF x, v
    <2> QED BY <2>1, <2>2
  <1>8. g = step(g)
    BY <1>7
  <1> DEFINE I == GenerateIter(base, signals)
  <1>9. I = step(I)
    BY <1>8 DEF GenerateIter
  <1>10. \A t \in SUBSET S : I[t] = step(I)[t]
    BY <1>9
  <1> QED BY <1>10

\* What holds of the book before the loop, and is kept by each symbol's turn,
\* holds after it.
LEMMA GenerateLoop ==
    ASSUME NEW base \in TradeBook, NEW signals, Market,
           position \in [Symbols -> BacktestPosition], cash \in Int, peak \in Int,
           Later(Days, session) # {}, NEW V, base \in V,
           \A v \in V \cap TradeBook, s \in Listed : Generated(v, s, signals[s]) \in V
    PROVE  GenerateIter(base, signals)[Listed] \in V \cap TradeBook
  <1> DEFINE S == Listed
             I == GenerateIter(base, signals)
             W == V \cap TradeBook
             T == {t \in SUBSET S : I[t] \in W}
  <1>1. \A x \in S, v \in W : Generated(v, x, signals[x]) \in W
    <2> SUFFICES ASSUME NEW x \in S, NEW v \in W PROVE Generated(v, x, signals[x]) \in W
      OBVIOUS
    <2>1. x \in Symbols
      BY ConfigAssumption
    <2>2. Generated(v, x, signals[x]) \in TradeBook
      BY <2>1, GeneratedKept
    <2> QED BY <2>2
  <1>2. \A t \in SUBSET S : I[t] = IF t = {} THEN base ELSE Generated(I[t \ {Max(t)}], Max(t), signals[Max(t)])
    BY GenerateIterDef
  <1>3. IsFiniteSet(S) /\ S \subseteq Int
    <2>1. IsFiniteSet(Symbols) /\ Symbols \subseteq Nat /\ Listed \subseteq Symbols
      BY ConfigAssumption
    <2>2. IsFiniteSet(Listed)
      BY <2>1, FS_Subset
    <2> QED BY <2>1, <2>2
  <1>4. base \in W
    OBVIOUS
  <1> HIDE DEF I, W, S
  <1>5. {} \in T
    BY <1>2, <1>4
  <1>6. ASSUME NEW t \in SUBSET S, Max(t) \in t, t \ {Max(t)} \in T PROVE t \in T
    <2>1. I[t \ {Max(t)}] \in W /\ Max(t) \in S /\ t # {}
      BY <1>6
    <2>2. I[t] = Generated(I[t \ {Max(t)}], Max(t), signals[Max(t)])
      BY <1>2, <2>1
    <2>3. I[t] \in W
      BY <1>1, <2>1, <2>2
    <2> QED BY <2>3
  <1>7. S \in T
    <2> HIDE DEF T
    <2> QED BY <1>3, <1>5, <1>6, MaxInduction
  <1> QED BY <1>7 DEF S, W, I

\* The next session's orders are placed.
LEMMA GeneratesKept ==
    ASSUME NEW base \in TradeBook, NEW signals, Market,
           position \in [Symbols -> BacktestPosition], cash \in Int, peak \in Int,
           Later(Days, session) # {}
    PROVE  GenerateIter(base, signals)[Listed] \in TradeBook
  <1> DEFINE V == TradeBook
  <1>1. base \in V /\ \A v \in V, s \in Listed : Generated(v, s, signals[s]) \in V
    BY GeneratedKept, ConfigAssumption
  <1>2. \A v \in V \cap TradeBook, s \in Listed : Generated(v, s, signals[s]) \in V
    BY <1>1
  <1> HIDE DEF V
  <1>3. GenerateIter(base, signals)[Listed] \in V \cap TradeBook
    BY <1>1, <1>2, GenerateLoop
  <1> QED BY <1>3

----------------------------------------------------------------------------
(* The invariant.                                                          *)

Steps == {"CORPORATE_ACTIONS", "RELEASE", "DIVIDENDS", "CANCEL", "OPEN",
          "EXITS", "CLOSE", "SIGNALS", "COMPLETED", "FAILED", "SAVED"}

Types ==
    /\ pc \in Steps /\ run \in RunIds /\ session \in {0} \cup Period
    /\ actions \in ActionLists /\ bars \in BarSets /\ closes \in [Symbols -> Nat]
    /\ cash \in Int /\ peak \in Nat
    /\ position \in [Symbols -> BacktestPosition]
    /\ orders \in Seq(BacktestOrder) /\ fills \in Seq(TradeRow)
    /\ entitlements \in Seq(DividendEntitlement) /\ daily \in Seq(Nat)

\* A backtest that goes on has not spent more than it had.
CashKept == pc \notin {"FAILED", "SAVED"} => cash >= 0

\* A day that begins is one of the period, and later than the fills.
DaysPass ==
    /\ pc = "CORPORATE_ACTIONS" => Later(Period, session) # {}
    /\ \A i \in DOMAIN fills : fills[i].session <= session
    /\ pc \in {"RELEASE", "DIVIDENDS", "CANCEL", "OPEN"} =>
         \A i \in DOMAIN fills : fills[i].session < session

\* Today's buckets are emptied before the day's trading.
Emptied == pc \in {"DIVIDENDS", "CANCEL", "OPEN"} =>
             \A s \in Symbols : position[s].today = 0

\* They then hold what the day's fills bought.
Filled == pc \in {"EXITS", "CLOSE", "SIGNALS"} =>
            \A s \in Symbols : position[s].today = BoughtToday(fills, s)

BacktestSound ==
    /\ Types /\ \A s \in Symbols : PositionSound(position[s])
    /\ CashKept /\ DaysPass /\ Emptied /\ Filled

\* What the steps of a day are given.
LEMMA SoundParts ==
    ASSUME BacktestSound
    PROVE  /\ Market /\ session \in Nat
           /\ actions \in Seq(CorporateAction)
           /\ Period \subseteq Nat /\ IsFiniteSet(Period)
  <1>1. Period \subseteq Days /\ Days \subseteq Nat \ {0} /\ IsFiniteSet(Days)
    BY ConfigAssumption
  <1>2. IsFiniteSet(Period)
    BY <1>1, FS_Subset
  <1>3. session \in Nat
    BY <1>1 DEF BacktestSound, Types
  <1>4. bars \in [Symbols -> Bar] /\ actions \in Seq(CorporateAction)
    BY ConfigAssumption DEF BacktestSound, Types
  <1> QED BY <1>1, <1>2, <1>3, <1>4 DEF Market, BacktestSound, Types

\* The day of a fill.
LEMMA FillDays ==
    ASSUME BacktestSound, NEW i \in DOMAIN fills
    PROVE  fills[i].session \in Nat /\ fills[i].session <= session
  <1>1. fills \in Seq(TradeRow)
    BY DEF BacktestSound, Types
  <1>2. fills[i] \in TradeRow
    BY <1>1
  <1> QED BY <1>2 DEF BacktestSound, DaysPass, TradeRow

\* A fresh run.
LEMMA StartSound ==
    ASSUME pc = "CORPORATE_ACTIONS", run \in RunIds, session = 0,
           actions \in ActionLists, bars \in BarSets,
           closes = [s \in Symbols |-> FirstClose],
           cash = InitialCash, peak = InitialCash,
           position = [s \in Symbols |-> NoPosition],
           orders = <<>>, fills = <<>>, entitlements = <<>>, daily = <<>>
    PROVE  BacktestSound
  <1>1. /\ InitialCash \in Nat /\ FirstClose \in Nat /\ Period \subseteq Nat \ {0}
        /\ Period # {}
    BY ConfigAssumption
  <1>2. PositionSound(NoPosition)
    BY DEF NoPosition, PositionSound, BacktestPosition
  <1>3. Types
    BY <1>1, <1>2 DEF Types, Steps, PositionSound
  <1>4. \A s \in Symbols : PositionSound(position[s])
    BY <1>2
  <1>5. Later(Period, session) # {}
    <2>1. PICK d \in Period : TRUE
      BY <1>1
    <2>2. d > 0
      BY <1>1, <2>1
    <2> QED BY <2>1, <2>2 DEF Later
  <1>6. DaysPass
    BY <1>5 DEF DaysPass
  <1>7. CashKept /\ Emptied /\ Filled
    BY <1>1 DEF CashKept, Emptied, Filled
  <1> QED BY <1>3, <1>4, <1>6, <1>7 DEF BacktestSound

\* The first run starts from nothing.
LEMMA InitSound ==
    ASSUME Init
    PROVE  BacktestSound
  <1>1. RunIds \subseteq Nat /\ IsFiniteSet(RunIds) /\ RunIds # {}
    BY ConfigAssumption
  <1>2. Min(RunIds) \in RunIds
    BY <1>1, MinIn
  <1> QED BY <1>2, StartSound DEF Init

\* The first step of a day.
LEMMA CorporateSound ==
    ASSUME BacktestSound, ProcessCorporateActions
    PROVE  BacktestSound'
  <1> DEFINE day == Min(Later(Period, session))
             start == [cash |-> cash, position |-> position, orders |-> orders,
                       entitlements |-> entitlements, raised |-> FALSE]
             after(today) == ActionIter(start, actions, day, today)[DOMAIN actions]
  <1>1. PICK today \in BarSets :
          /\ pc = "CORPORATE_ACTIONS"
          /\ session' = day
          /\ bars' = today
          /\ closes' = IF session = 0 THEN closes
                       ELSE [s \in Symbols |-> bars[s].close]
          /\ position' = after(today).position
          /\ orders' = after(today).orders
          /\ entitlements' = after(today).entitlements
          /\ pc' = IF after(today).raised THEN "FAILED" ELSE "RELEASE"
          /\ UNCHANGED <<cash, peak, fills, daily, Config>>
    BY DEF ProcessCorporateActions, FoldLeft, MapThenFoldSet, ActionIter
  <1>2. /\ Market /\ session \in Nat /\ actions \in Seq(CorporateAction)
        /\ Period \subseteq Nat /\ IsFiniteSet(Period)
    BY SoundParts
  <1>3. day \in Period /\ day \in Nat /\ day > session
    <2>1. /\ Later(Period, session) \subseteq Period
          /\ Later(Period, session) # {}
      BY <1>1 DEF Later, BacktestSound, DaysPass
    <2>2. IsFiniteSet(Later(Period, session)) /\ Later(Period, session) \subseteq Nat
      BY <1>2, <2>1, FS_Subset
    <2>3. day \in Later(Period, session)
      BY <2>1, <2>2, MinIn
    <2> HIDE DEF day
    <2> QED BY <1>2, <2>3 DEF Later
  <1>4. today \in [Symbols -> Bar]
    BY ConfigAssumption
  <1>5. start \in Acting
    BY DEF BacktestSound, Types, Acting, ActionBook
  <1> DEFINE b == after(today)
  <1>6. b \in Acting
    <2> HIDE DEF start, day
    <2> QED BY <1>2, <1>3, <1>4, <1>5, ActionsKept
  <1> HIDE DEF b, day
  <1>7. /\ b.position \in [Symbols -> BacktestPosition]
        /\ b.orders \in Seq(BacktestOrder)
        /\ b.entitlements \in Seq(DividendEntitlement)
        /\ \A s \in Symbols : PositionSound(b.position[s])
    BY <1>6 DEF Acting, ActionBook
  <1>8. closes' \in [Symbols -> Nat]
    <2>1. \A s \in Symbols : bars[s].close \in Nat
      BY <1>2 DEF Market, Bar
    <2> QED BY <1>1, <2>1 DEF BacktestSound, Types
  <1>9. /\ position' = b.position /\ orders' = b.orders
        /\ entitlements' = b.entitlements
        /\ pc' \in {"FAILED", "RELEASE"}
    BY <1>1 DEF b
  <1>10. Types'
    BY <1>1, <1>3, <1>7, <1>8, <1>9 DEF BacktestSound, Types, Steps, Config
  <1>11. CashKept'
    BY <1>1, <1>9 DEF BacktestSound, CashKept
  <1>12. DaysPass'
    <2>1. \A i \in DOMAIN fills : fills[i].session < day
      <3> SUFFICES ASSUME NEW i \in DOMAIN fills PROVE fills[i].session < day
        OBVIOUS
      <3>1. fills[i].session \in Nat /\ fills[i].session <= session
        BY FillDays
      <3> QED BY <1>2, <1>3, <3>1
    <2>2. \A i \in DOMAIN fills : fills[i].session <= day
      <3> SUFFICES ASSUME NEW i \in DOMAIN fills PROVE fills[i].session <= day
        OBVIOUS
      <3>1. fills[i].session \in Nat
        BY FillDays
      <3> QED BY <1>3, <2>1, <3>1
    <2> QED BY <1>1, <1>9, <2>1, <2>2 DEF DaysPass
  <1>13. Emptied' /\ Filled'
    BY <1>9 DEF Emptied, Filled
  <1>14. (\A s \in Symbols : PositionSound(position[s]))'
    BY <1>7, <1>9
  <1> QED BY <1>10, <1>11, <1>12, <1>13, <1>14 DEF BacktestSound

\* Shares are released.
LEMMA ReleaseSound ==
    ASSUME BacktestSound, ReleaseShares
    PROVE  BacktestSound'
  <1> DEFINE once == ReleasedT1(position)
             folio == ReleasedLocked(once)
  <1>1. /\ pc = "RELEASE" /\ pc' = "DIVIDENDS" /\ position' = folio
        /\ UNCHANGED <<session, bars, closes, cash, peak, orders, fills,
                       entitlements, daily, run, actions, database>>
    BY DEF ReleaseShares, Config
  <1>2. /\ once \in [Symbols -> BacktestPosition]
        /\ \A s \in Symbols : PositionSound(once[s]) /\ once[s].today = 0
    BY ReleasedT1Kept DEF BacktestSound, Types
  <1> HIDE DEF once
  <1>3. /\ folio \in [Symbols -> BacktestPosition]
        /\ \A s \in Symbols : PositionSound(folio[s])
        /\ \A s \in Symbols : folio[s].today = 0
    BY <1>2, ReleasedLockedKept
  <1> HIDE DEF folio
  <1>4. Types'
    BY <1>1, <1>3 DEF BacktestSound, Types, Steps
  <1>5. CashKept' /\ DaysPass'
    BY <1>1 DEF BacktestSound, CashKept, DaysPass
  <1>6. Emptied' /\ Filled'
    BY <1>1, <1>3 DEF Emptied, Filled
  <1>7. (\A s \in Symbols : PositionSound(position[s]))'
    BY <1>1, <1>3
  <1> QED BY <1>4, <1>5, <1>6, <1>7 DEF BacktestSound

\* Dividends are paid.
LEMMA PaySound ==
    ASSUME BacktestSound, PayDividends
    PROVE  BacktestSound'
  <1> DEFINE left == PayIter(cash, entitlements)[DOMAIN entitlements]
             list == [i \in DOMAIN entitlements |->
                        IF Due(entitlements[i])
                        THEN [entitlements[i] EXCEPT !.status = "PAID"]
                        ELSE entitlements[i]]
  <1>1. /\ pc = "DIVIDENDS" /\ pc' = "CANCEL" /\ cash' = left /\ entitlements' = list
        /\ UNCHANGED <<session, bars, closes, peak, position, orders, fills,
                       daily, run, actions, database>>
    BY DEF PayDividends, Config, FoldLeft, MapThenFoldSet, PayIter
  <1>2. entitlements \in Seq(DividendEntitlement) /\ cash \in Nat
    BY <1>1 DEF BacktestSound, Types, CashKept
  <1>3. left \in Nat
    BY <1>2, PaysKept
  <1> HIDE DEF left
  <1>4. list \in Seq(DividendEntitlement)
    <2>1. DOMAIN entitlements = 1..Len(entitlements) /\ Len(entitlements) \in Nat
      BY <1>2
    <2>2. \A e \in DividendEntitlement :
             [e EXCEPT !.status = "PAID"] \in DividendEntitlement
      BY DEF DividendEntitlement
    <2>3. \A i \in DOMAIN entitlements : entitlements[i] \in DividendEntitlement
      BY <1>2
    <2>4. list \in [1..Len(entitlements) -> DividendEntitlement]
      BY <2>1, <2>2, <2>3
    <2> HIDE DEF list
    <2> QED BY <2>1, <2>4
  <1> HIDE DEF list
  <1>5. Types'
    BY <1>1, <1>3, <1>4 DEF BacktestSound, Types, Steps
  <1>6. CashKept' /\ DaysPass'
    BY <1>1, <1>3 DEF BacktestSound, CashKept, DaysPass
  <1>7. Emptied' /\ Filled'
    BY <1>1 DEF BacktestSound, Emptied, Filled
  <1>8. (\A s \in Symbols : PositionSound(position[s]))'
    BY <1>1 DEF BacktestSound
  <1> QED BY <1>5, <1>6, <1>7, <1>8 DEF BacktestSound

\* Orders are cancelled.
LEMMA CancelSound ==
    ASSUME BacktestSound, CancelOrders
    PROVE  BacktestSound'
  <1> DEFINE list == CancelIter(orders, actions)[DOMAIN actions]
  <1>1. /\ pc = "CANCEL" /\ pc' = "OPEN" /\ orders' = list
        /\ UNCHANGED <<session, bars, closes, cash, peak, position, fills,
                       entitlements, daily, run, actions, database>>
    BY DEF CancelOrders, Config, FoldLeft, MapThenFoldSet, CancelIter
  <1>2. orders \in Seq(BacktestOrder) /\ actions \in Seq(CorporateAction)
    BY SoundParts DEF BacktestSound, Types
  <1>3. list \in Seq(BacktestOrder)
    BY <1>2, CancelsKept
  <1> HIDE DEF list
  <1>4. Types'
    BY <1>1, <1>3 DEF BacktestSound, Types, Steps
  <1>5. CashKept' /\ DaysPass'
    BY <1>1 DEF BacktestSound, CashKept, DaysPass
  <1>6. Emptied' /\ Filled'
    BY <1>1 DEF BacktestSound, Emptied, Filled
  <1>7. (\A s \in Symbols : PositionSound(position[s]))'
    BY <1>1 DEF BacktestSound
  <1> QED BY <1>4, <1>5, <1>6, <1>7 DEF BacktestSound

\* What the trading of a day leaves behind.
LEMMA CommitSound ==
    ASSUME BacktestSound, pc \in {"OPEN", "EXITS"}, NEW b, Trading(b, 0),
           NEW next \in {"EXITS", "CLOSE"}, Commit(b, next)
    PROVE  BacktestSound'
  <1>1. /\ cash' = b.cash /\ position' = b.position /\ orders' = b.orders
        /\ fills' = b.fills /\ pc' = IF b.raised THEN "FAILED" ELSE next
        /\ UNCHANGED <<session, bars, closes, peak, entitlements, daily,
                       run, actions, database>>
    BY DEF Commit, Config
  <1>2. /\ b.cash \in Int /\ b.position \in [Symbols -> BacktestPosition]
        /\ b.orders \in Seq(BacktestOrder) /\ b.fills \in Seq(TradeRow)
        /\ \A s \in Symbols : PositionSound(b.position[s])
        /\ \A i \in DOMAIN b.fills : b.fills[i].session <= session
    BY DEF Trading, TradeBook
  <1>3. ~b.raised => /\ b.cash >= 0
                     /\ \A s \in Symbols : b.position[s].today = BoughtToday(b.fills, s)
    BY DEF Trading
  <1>4. Types'
    BY <1>1, <1>2 DEF BacktestSound, Types, Steps
  <1>5. CashKept' /\ DaysPass'
    BY <1>1, <1>2, <1>3 DEF CashKept, DaysPass
  <1>6. Emptied' /\ Filled'
    <2>1. \A s \in Symbols : BoughtToday(fills, s)' = BoughtToday(b.fills, s)
      BY <1>1 DEF BoughtToday, BuysOf, Quantities
    <2> QED BY <1>1, <1>3, <2>1 DEF Emptied, Filled
  <1>7. (\A s \in Symbols : PositionSound(position[s]))'
    BY <1>1, <1>2
  <1> QED BY <1>4, <1>5, <1>6, <1>7 DEF BacktestSound

\* What the day's orders are executed on: nothing has been bought today before.
LEMMA OpenBook ==
    ASSUME BacktestSound, pc = "OPEN"
    PROVE  Trading(book, Len(orders))
  <1> DEFINE n == Len(orders)
  <1>0. Market /\ n \in Nat
    BY SoundParts DEF BacktestSound, Types
  <1>1. /\ book.cash = cash /\ book.position = position /\ book.orders = orders
        /\ book.fills = fills /\ book.raised = FALSE
    BY DEF book
  <1>2. book \in TradeBook
    BY DEF book, TradeBook, BacktestSound, Types
  <1>3. \A s \in Symbols : position[s].today = BoughtToday(fills, s)
    <2> SUFFICES ASSUME NEW s \in Symbols PROVE position[s].today = BoughtToday(fills, s)
      OBVIOUS
    <2>1. position[s].today = 0
      BY DEF BacktestSound, Emptied
    <2>2. BuysOf(fills, s) = {}
      <3>1. \A i \in DOMAIN fills : fills[i].session < session
        BY DEF BacktestSound, DaysPass
      <3>2. \A i \in DOMAIN fills : fills[i].session \in Nat
        BY FillDays
      <3>3. \A i \in DOMAIN fills : fills[i].session # session
        BY <1>0, <3>1, <3>2 DEF Market
      <3> QED BY <3>3 DEF BuysOf
    <2> QED BY <2>1, <2>2, SumEmpty DEF BoughtToday
  <1>4. cash >= 0
    BY DEF BacktestSound, CashKept
  <1>5. /\ \A s \in Symbols : PositionSound(position[s])
        /\ \A i \in DOMAIN fills : fills[i].session <= session
    BY DEF BacktestSound, DaysPass
  <1>6. n <= Len(book.orders)
    BY <1>0, <1>1
  <1> QED BY <1>1, <1>2, <1>3, <1>4, <1>5, <1>6 DEF Trading

\* The day's open orders are executed: nothing has been bought today before.
LEMMA OpenSound ==
    ASSUME BacktestSound, ExecuteOpenOrders
    PROVE  BacktestSound'
  <1> DEFINE idx == [i \in DOMAIN orders |-> i]
             n == Len(orders)
             b == OpenIter(book, idx)[DOMAIN idx]
  <1>1. pc = "OPEN" /\ Commit(b, "EXITS")
    BY DEF ExecuteOpenOrders, FoldLeft, MapThenFoldSet, OpenIter, OpenStep
  <1>2. /\ Market /\ n \in Nat /\ idx \in Turns(n)
    BY SoundParts DEF BacktestSound, Types, Turns
  <1>3. Trading(book, n)
    BY <1>1, OpenBook
  <1> HIDE DEF idx, n
  <1>4. Trading(b, n)
    BY <1>2, <1>3, OpenOrdersKept
  <1> HIDE DEF b
  <1>5. Trading(b, 0)
    BY <1>4 DEF Trading, TradeBook
  <1> QED BY <1>1, <1>5, CommitSound

\* What the exits are taken from: today's buckets hold what was bought today.
LEMMA ExitsBook ==
    ASSUME BacktestSound, pc = "EXITS"
    PROVE  Trading(book, 0)
  <1>1. /\ book.cash = cash /\ book.position = position /\ book.orders = orders
        /\ book.fills = fills /\ book.raised = FALSE
    BY DEF book
  <1>2. book \in TradeBook
    BY DEF book, TradeBook, BacktestSound, Types
  <1>3. /\ \A s \in Symbols : position[s].today = BoughtToday(fills, s)
        /\ cash >= 0
    BY DEF BacktestSound, Filled, CashKept
  <1>4. /\ \A s \in Symbols : PositionSound(position[s])
        /\ \A i \in DOMAIN fills : fills[i].session <= session
    BY DEF BacktestSound, DaysPass
  <1>5. 0 <= Len(book.orders)
    BY <1>1 DEF BacktestSound, Types
  <1> QED BY <1>1, <1>2, <1>3, <1>4, <1>5 DEF Trading

\* The exits are taken, of what was there before today.
LEMMA ExitsSound ==
    ASSUME BacktestSound, ProcessExits
    PROVE  BacktestSound'
  <1> DEFINE b == ExitIter(book)[Symbols]
  <1>1. pc = "EXITS" /\ Commit(b, "CLOSE")
    BY DEF ProcessExits, MapThenFoldSet, ExitIter
  <1>2. Trading(book, 0)
    BY <1>1, ExitsBook
  <1>3. Trading(b, 0)
    BY <1>2, SoundParts, ExitsKept
  <1> HIDE DEF b
  <1> QED BY <1>1, <1>3, CommitSound

\* The portfolio is marked to the day's closes.
LEMMA MarkSound ==
    ASSUME BacktestSound, MarkToMarket
    PROVE  BacktestSound'
  <1> DEFINE marked == [s \in Symbols |-> IF position[s].total > 0
                                          THEN mark(position[s], bars[s].close)
                                          ELSE position[s]]
             value == SumFunctionOnSet([s \in Symbols |-> market_value(marked[s])], Symbols)
  <1>1. /\ pc = "CLOSE" /\ pc' = "SIGNALS" /\ position' = marked
        /\ peak' = Greater(peak, cash + value)
        /\ UNCHANGED <<session, bars, closes, cash, orders, fills,
                       entitlements, daily, run, actions, database>>
    BY DEF MarkToMarket, Config
  <1>2. Market
    BY SoundParts
  <1>3. \A s \in Symbols : /\ PositionSound(marked[s])
                           /\ marked[s].today = position[s].today
    <2> SUFFICES ASSUME NEW s \in Symbols
                 PROVE  /\ PositionSound(marked[s])
                        /\ marked[s].today = position[s].today
      OBVIOUS
    <2>1. PositionSound(position[s])
      BY DEF BacktestSound
    <2>2. bars[s].close \in Nat
      BY <1>2 DEF Market, Bar
    <2>3. /\ PositionSound(mark(position[s], bars[s].close))
          /\ mark(position[s], bars[s].close).today = position[s].today
      BY <2>1, <2>2, MarkKept
    <2> QED BY <2>1, <2>3
  <1>4. marked \in [Symbols -> BacktestPosition]
    <2>1. \A s \in Symbols : marked[s] \in BacktestPosition
      BY <1>3 DEF PositionSound
    <2> QED BY <2>1
  <1> HIDE DEF marked
  <1>5. value \in Nat
    BY <1>4, ValueType
  <1> HIDE DEF value
  <1>6. peak' \in Nat
    <2>1. peak \in Nat /\ cash \in Nat
      BY <1>1 DEF BacktestSound, Types, CashKept
    <2> QED BY <1>1, <1>5, <2>1 DEF Greater
  <1>7. Types'
    BY <1>1, <1>4, <1>6 DEF BacktestSound, Types, Steps
  <1>8. CashKept' /\ DaysPass'
    BY <1>1 DEF BacktestSound, CashKept, DaysPass
  <1>9. Emptied' /\ Filled'
    <2>1. \A s \in Symbols : BoughtToday(fills, s)' = BoughtToday(fills, s)
      BY <1>1 DEF BoughtToday, BuysOf, Quantities
    <2>2. \A s \in Symbols : position[s].today = BoughtToday(fills, s)
      BY <1>1 DEF BacktestSound, Filled
    <2> QED BY <1>1, <1>3, <2>1, <2>2 DEF Emptied, Filled
  <1>10. (\A s \in Symbols : PositionSound(position[s]))'
    BY <1>1, <1>3
  <1> QED BY <1>7, <1>8, <1>9, <1>10 DEF BacktestSound

\* The next session's orders are placed, and the day's equity recorded.
LEMMA GenerateSound ==
    ASSUME BacktestSound, GenerateNextSessionOrders
    PROVE  BacktestSound'
  <1> DEFINE after(signals) == IF Later(Days, session) = {} THEN book
                               ELSE GenerateIter(book, signals)[Listed]
  <1>1. PICK signals \in SignalSets :
          /\ pc = "SIGNALS"
          /\ orders' = after(signals).orders
          /\ daily' = IF after(signals).raised THEN daily
                      ELSE Append(daily, total_equity)
          /\ pc' = IF after(signals).raised THEN "FAILED"
                   ELSE IF Later(Period, session) = {} THEN "COMPLETED"
                   ELSE "CORPORATE_ACTIONS"
          /\ UNCHANGED <<session, bars, closes, cash, peak, position, fills,
                         entitlements, run, actions, database>>
    BY DEF GenerateNextSessionOrders, Config, MapThenFoldSet, GenerateIter
  <1>2. /\ position \in [Symbols -> BacktestPosition] /\ cash \in Nat /\ peak \in Nat
        /\ daily \in Seq(Nat)
    BY <1>1 DEF BacktestSound, Types, CashKept
  <1>3. book \in TradeBook
    BY DEF book, TradeBook, BacktestSound, Types
  <1> DEFINE b == after(signals)
  <1>4. b \in TradeBook
    <2>1. CASE Later(Days, session) = {}
      BY <1>3, <2>1
    <2>2. CASE Later(Days, session) # {}
      <3>1. Market /\ cash \in Int /\ peak \in Int
        BY <1>2, SoundParts
      <3>2. GenerateIter(book, signals)[Listed] \in TradeBook
        BY <1>2, <1>3, <2>2, <3>1, GeneratesKept
      <3> QED BY <2>2, <3>2
    <2> QED BY <2>1, <2>2
  <1> HIDE DEF b
  <1>5. /\ orders' = b.orders /\ b.orders \in Seq(BacktestOrder)
        /\ daily' = IF b.raised THEN daily ELSE Append(daily, total_equity)
        /\ pc' = IF b.raised THEN "FAILED"
                 ELSE IF Later(Period, session) = {} THEN "COMPLETED"
                 ELSE "CORPORATE_ACTIONS"
    BY <1>1, <1>4 DEF b, TradeBook
  <1>6. daily' \in Seq(Nat)
    <2>1. total_market_value \in Nat
      BY <1>2, ValueType DEF total_market_value
    <2>2. total_equity \in Nat
      BY <1>2, <2>1 DEF total_equity
    <2> QED BY <1>2, <1>5, <2>2
  <1>7. pc' \in {"FAILED", "COMPLETED", "CORPORATE_ACTIONS"}
    BY <1>5
  <1>8. Types'
    BY <1>1, <1>5, <1>6, <1>7 DEF BacktestSound, Types, Steps
  <1>9. CashKept' /\ DaysPass'
    <2>1. pc' = "CORPORATE_ACTIONS" => Later(Period, session) # {}
      BY <1>5
    <2>2. \A i \in DOMAIN fills : fills[i].session <= session
      BY DEF BacktestSound, DaysPass
    <2>3. UNCHANGED <<session, fills, cash>>
      BY <1>1
    <2> QED BY <1>2, <1>7, <2>1, <2>2, <2>3 DEF CashKept, DaysPass, Later
  <1>10. Emptied' /\ Filled'
    BY <1>7 DEF Emptied, Filled
  <1>11. (\A s \in Symbols : PositionSound(position[s]))'
    BY <1>1 DEF BacktestSound
  <1> QED BY <1>8, <1>9, <1>10, <1>11 DEF BacktestSound

\* The result is saved.
LEMMA SaveSound ==
    ASSUME BacktestSound, SaveBacktestRun
    PROVE  BacktestSound'
  <1>1. /\ pc' = "SAVED"
        /\ UNCHANGED <<run, session, actions, bars, closes, cash, peak,
                       position, orders, fills, entitlements, daily>>
    BY DEF SaveBacktestRun
  <1>2. Types'
    BY <1>1 DEF BacktestSound, Types, Steps
  <1>3. CashKept' /\ DaysPass'
    BY <1>1 DEF BacktestSound, CashKept, DaysPass
  <1>4. Emptied' /\ Filled'
    BY <1>1 DEF Emptied, Filled
  <1>5. (\A s \in Symbols : PositionSound(position[s]))'
    BY <1>1 DEF BacktestSound
  <1> QED BY <1>2, <1>3, <1>4, <1>5 DEF BacktestSound

\* Another run starts from nothing, like the first.
LEMMA NewRunSound ==
    ASSUME NewRun
    PROVE  BacktestSound'
  <1>1. /\ InitialCash \in Nat /\ FirstClose \in Nat /\ Period \subseteq Nat \ {0}
        /\ Period # {}
    BY ConfigAssumption
  <1>2. PositionSound(NoPosition)
    BY DEF NoPosition, PositionSound, BacktestPosition
  <1>3. Types'
    BY <1>1, <1>2 DEF NewRun, Types, Steps, PositionSound
  <1>4. (\A s \in Symbols : PositionSound(position[s]))'
    BY <1>2 DEF NewRun
  <1>5. Later(Period, 0) # {}
    <2>1. PICK d \in Period : TRUE
      BY <1>1
    <2>2. d > 0
      BY <1>1, <2>1
    <2> QED BY <2>1, <2>2 DEF Later
  <1>6. DaysPass'
    BY <1>5 DEF NewRun, DaysPass, Later
  <1>7. CashKept' /\ Emptied' /\ Filled'
    BY <1>1 DEF NewRun, CashKept, Emptied, Filled
  <1> QED BY <1>3, <1>4, <1>6, <1>7 DEF BacktestSound

\* Nothing happens.
LEMMA StutterSound ==
    ASSUME BacktestSound, UNCHANGED vars
    PROVE  BacktestSound'
  <1>1. UNCHANGED <<pc, run, session, actions, bars, closes, cash, peak, position,
                    orders, fills, entitlements, daily, database>>
    BY DEF vars
  <1>2. Types'
    BY <1>1 DEF BacktestSound, Types
  <1>3. CashKept' /\ DaysPass'
    BY <1>1 DEF BacktestSound, CashKept, DaysPass
  <1>4. Emptied' /\ Filled'
    <2>1. \A s \in Symbols : BoughtToday(fills, s)' = BoughtToday(fills, s)
      BY <1>1 DEF BoughtToday, BuysOf, Quantities
    <2> QED BY <1>1, <2>1 DEF BacktestSound, Emptied, Filled
  <1>5. (\A s \in Symbols : PositionSound(position[s]))'
    BY <1>1 DEF BacktestSound
  <1> QED BY <1>2, <1>3, <1>4, <1>5 DEF BacktestSound

----------------------------------------------------------------------------
(* The results.                                                            *)

\* Whatever a backtest goes through, its portfolio is sound: positions hold
\* what their buckets hold, today's what the day's fills bought, and cash is
\* not negative while the backtest goes on.
THEOREM BacktestInvariant == Spec => []BacktestSound
  <1>1. Init => BacktestSound
    BY InitSound
  <1>2. BacktestSound /\ [Next]_vars => BacktestSound'
    <2> SUFFICES ASSUME BacktestSound, [Next]_vars PROVE BacktestSound'
      OBVIOUS
    <2>1. CASE ProcessCorporateActions
      BY <2>1, CorporateSound
    <2>2. CASE ReleaseShares
      BY <2>2, ReleaseSound
    <2>3. CASE PayDividends
      BY <2>3, PaySound
    <2>4. CASE CancelOrders
      BY <2>4, CancelSound
    <2>5. CASE ExecuteOpenOrders
      BY <2>5, OpenSound
    <2>6. CASE ProcessExits
      BY <2>6, ExitsSound
    <2>7. CASE MarkToMarket
      BY <2>7, MarkSound
    <2>8. CASE GenerateNextSessionOrders
      BY <2>8, GenerateSound
    <2>9. CASE SaveBacktestRun
      BY <2>9, SaveSound
    <2>10. CASE NewRun
      BY <2>10, NewRunSound
    <2>11. CASE Rest \/ UNCHANGED vars
      BY <2>11, StutterSound DEF Rest
    <2> QED BY <2>1, <2>2, <2>3, <2>4, <2>5, <2>6, <2>7, <2>8, <2>9, <2>10,
              <2>11 DEF Next
  <1> QED BY <1>1, <1>2, PTL DEF Spec

\* Through purchases, sales, splits, bonus shares, dividends and changes of
\* symbol every share of a backtest is in one bucket, and what was bought today
\* is held back until the next session (T+1).
THEOREM SharesStayWhole == Spec => []PositionsKept
  <1>1. BacktestSound => PositionsKept
    <2> SUFFICES ASSUME BacktestSound PROVE PositionsKept
      OBVIOUS
    <2>1. TypeOK
      BY DEF BacktestSound, Types, Steps, TypeOK
    <2>2. SharesInBuckets
      BY DEF BacktestSound, PositionSound, SharesInBuckets
    <2>3. TodayHeldBack
      BY DEF BacktestSound, Filled, TodayHeldBack, BoughtToday, BuysOf, Quantities
    <2> QED BY <2>1, <2>2, <2>3 DEF PositionsKept
  <1> QED BY <1>1, BacktestInvariant, PTL

----------------------------------------------------------------------------
(* Trades: what an order's turn changes.                                   *)

\* The bought shares, and no others.
LEMMA BuyShape ==
    ASSUME NEW b \in TradeBook, NEW s \in Symbols, NEW fill \in Fill, NEW i \in Nat,
           NEW before \in Int
    PROVE  LET a == apply_buy(b, s, fill)
               c == Noted(a, s, "BUY", fill, i, before)
               f == [order |-> i, symbol |-> s, side |-> "BUY", session |-> session,
                     quantity |-> fill.quantity, cash |-> a.cash - before]
           IN  /\ a.orders = b.orders /\ a.fills = b.fills /\ c.orders = b.orders
               /\ \A t \in Symbols \ {s} : /\ a.position[t] = b.position[t]
                                           /\ c.position[t] = b.position[t]
               /\ ~a.raised =>
                     /\ c.fills = Append(b.fills, f) /\ a.cash \in Int
                     /\ c.position[s].total = b.position[s].total + fill.quantity
  <1> DEFINE a == apply_buy(b, s, fill)
             paid == total_cost(fill)
             left == b.cash - paid
             new == bought(b.position[s], fill.quantity, paid, fill.price)
             folio == [b.position EXCEPT ![s] = new]
             f == [order |-> i, symbol |-> s, side |-> "BUY", session |-> session,
                   quantity |-> fill.quantity, cash |-> a.cash - before]
             more == Append(b.fills, f)
             c == Noted(a, s, "BUY", fill, i, before)
  <1>1. /\ b.cash \in Int /\ b.position \in [Symbols -> BacktestPosition]
        /\ b.position[s] \in BacktestPosition
    BY DEF TradeBook
  <1>2. left \in Int
    BY <1>1, FillMoney
  <1>3. /\ a.orders = b.orders /\ a.fills = b.fills
        /\ DOMAIN a = DOMAIN b
        /\ a.cash = left
        /\ \/ a.raised /\ a.position = b.position
           \/ a.position = folio
    <2>1. CASE b.cash < paid
      <3>1. a = [b EXCEPT !.cash = left, !.raised = TRUE]
        BY <1>1, <2>1 DEF apply_buy, TradeBook
      <3> HIDE DEF a, left
      <3> QED BY <3>1 DEF TradeBook
    <2>2. CASE ~(b.cash < paid)
      <3>1. a = [b EXCEPT !.cash = left, !.position[s] = new]
        BY <1>1, <2>2 DEF apply_buy, TradeBook
      <3>2. a = [b EXCEPT !.cash = left, !.position = folio]
        <4> HIDE DEF a, left, new
        <4> QED BY <1>1, <3>1 DEF TradeBook
      <3> HIDE DEF a, left, folio
      <3> QED BY <3>2 DEF TradeBook
    <2> QED BY <2>1, <2>2
  <1>4. new.total = b.position[s].total + fill.quantity
    <2> DEFINE old == b.position[s]
    <2>1. old \in BacktestPosition
      BY <1>1
    <2> HIDE DEF old, paid
    <2>2. bought(old, fill.quantity, paid, fill.price).total = old.total + fill.quantity
      BY <2>1 DEF bought, mark, BacktestPosition
    <2> QED BY <2>2 DEF old
  <1> HIDE DEF a, left, new
  <1>5. c = [a EXCEPT !.fills = more]
    BY <1>3 DEF Noted, TradeBook
  <1> HIDE DEF c, more
  <1>6. c.orders = a.orders /\ c.position = a.position /\ c.fills = more
    BY <1>3, <1>5 DEF TradeBook
  <1>7. /\ folio[s] = new
        /\ \A t \in Symbols \ {s} : folio[t] = b.position[t]
    BY <1>1
  <1> HIDE DEF folio
  <1> QED BY <1>2, <1>3, <1>4, <1>6, <1>7 DEF a, c, more

\* The sold shares, and no others.
LEMMA SellShape ==
    ASSUME NEW b \in TradeBook, NEW s \in Symbols, NEW fill \in Fill, NEW i \in Nat,
           NEW before \in Int
    PROVE  LET a == apply_sell(b, s, fill)
               c == Noted(a, s, "SELL", fill, i, before)
               f == [order |-> i, symbol |-> s, side |-> "SELL", session |-> session,
                     quantity |-> fill.quantity, cash |-> a.cash - before]
           IN  /\ a.orders = b.orders /\ a.fills = b.fills /\ c.orders = b.orders
               /\ \A t \in Symbols \ {s} : /\ a.position[t] = b.position[t]
                                           /\ c.position[t] = b.position[t]
               /\ ~a.raised =>
                     /\ c.fills = Append(b.fills, f) /\ a.cash \in Int
                     /\ c.position[s].total = b.position[s].total - fill.quantity
  <1> DEFINE a == apply_sell(b, s, fill)
             brings == net_proceeds(fill)
             left == b.cash + brings
             failed == left < 0
             new == sold(b.position[s], fill, brings)
             folio == [b.position EXCEPT ![s] = new]
             f == [order |-> i, symbol |-> s, side |-> "SELL", session |-> session,
                   quantity |-> fill.quantity, cash |-> a.cash - before]
             more == Append(b.fills, f)
             c == Noted(a, s, "SELL", fill, i, before)
  <1>1. /\ b.cash \in Int /\ b.position \in [Symbols -> BacktestPosition]
        /\ b.position[s] \in BacktestPosition
    BY DEF TradeBook
  <1>2. left \in Int
    BY <1>1, FillMoney
  <1>3. /\ a.orders = b.orders /\ a.fills = b.fills
        /\ DOMAIN a = DOMAIN b
        /\ a.cash = left /\ a.position = folio
    <2>1. a = [b EXCEPT !.cash = left, !.position[s] = new, !.raised = failed]
      BY <1>1 DEF apply_sell, TradeBook
    <2>2. a = [b EXCEPT !.cash = left, !.position = folio, !.raised = failed]
      <3> HIDE DEF a, left, new, failed
      <3> QED BY <1>1, <2>1 DEF TradeBook
    <2> HIDE DEF a, left, folio, failed
    <2> QED BY <2>2 DEF TradeBook
  <1>4. new.total = b.position[s].total - fill.quantity
    <2> DEFINE old == b.position[s]
    <2>1. old \in BacktestPosition
      BY <1>1
    <2> HIDE DEF old, brings
    <2>2. sold(old, fill, brings).total = old.total - fill.quantity
      BY <2>1 DEF sold, BacktestPosition
    <2> QED BY <2>2 DEF old
  <1> HIDE DEF a, left, new
  <1>5. c = [a EXCEPT !.fills = more]
    BY <1>3 DEF Noted, TradeBook
  <1> HIDE DEF c, more
  <1>6. c.orders = a.orders /\ c.position = a.position /\ c.fills = more
    BY <1>3, <1>5 DEF TradeBook
  <1>7. /\ folio[s] = new
        /\ \A t \in Symbols \ {s} : folio[t] = b.position[t]
    BY <1>1
  <1> HIDE DEF folio
  <1> QED BY <1>2, <1>3, <1>4, <1>6, <1>7 DEF a, c, more

\* The engine's answer changes nothing of the order but its status and what is
\* open of it, and an order that no longer waits does not wait again.
LEMMA SeenShape ==
    ASSUME NEW b \in TradeBook, NEW i \in DOMAIN b.orders,
           b.orders[i].status = "PENDING",
           NEW status \in OrderStatus, NEW remaining \in Nat
    PROVE  LET c == Seen(b, i, status, remaining)
           IN  /\ c \in TradeBook /\ c.position = b.position /\ c.fills = b.fills
               /\ c.raised = b.raised /\ c.cash = b.cash
               /\ DOMAIN c.orders = DOMAIN b.orders
               /\ \A k \in DOMAIN b.orders :
                     /\ c.orders[k].symbol = b.orders[k].symbol
                     /\ c.orders[k].created = b.orders[k].created
                     /\ c.orders[k].status = "PENDING" => b.orders[k].status = "PENDING"
  <1> DEFINE list == b.orders
             o == [list[i] EXCEPT !.status = status, !.remaining = remaining]
             changed == [list EXCEPT ![i] = o]
             c == Seen(b, i, status, remaining)
  <1>2. /\ list \in Seq(BacktestOrder) /\ list[i] \in BacktestOrder
        /\ DOMAIN list = 1..Len(list)
    BY DEF TradeBook
  <1>3. /\ o \in BacktestOrder /\ o.symbol = list[i].symbol
        /\ o.created = list[i].created
    <2> HIDE DEF list
    <2> QED BY <1>2 DEF BacktestOrder
  <1>4. changed \in Seq(BacktestOrder) /\ Len(changed) = Len(list)
    <2> HIDE DEF o, list
    <2>1. i \in DOMAIN list
      BY DEF list
    <2> QED BY <1>2, <1>3, <2>1, OrderSet
  <1>5. c = [b EXCEPT !.orders = changed]
    <2>1. changed = [[list EXCEPT ![i].status = status] EXCEPT ![i].remaining = remaining]
      <3> HIDE DEF list
      <3>1. i \in DOMAIN list
        BY DEF list
      <3> QED BY <1>2, <3>1
    <2>2. c = [b EXCEPT !.orders =
                 [[list EXCEPT ![i].status = status] EXCEPT ![i].remaining = remaining]]
      BY DEF TradeBook, Seen
    <2> HIDE DEF c, changed
    <2> QED BY <2>1, <2>2
  <1>6. /\ DOMAIN changed = DOMAIN list
        /\ \A k \in DOMAIN list : changed[k] = IF k = i THEN o ELSE list[k]
    <2> HIDE DEF o, list
    <2> QED BY <1>2 DEF list
  <1>7. list[i].status = "PENDING"
    OBVIOUS
  <1> HIDE DEF changed, c, o, list
  <1>8. /\ c \in TradeBook /\ c.orders = changed /\ c.cash = b.cash
        /\ c.position = b.position /\ c.fills = b.fills /\ c.raised = b.raised
    BY <1>4, <1>5 DEF TradeBook
  <1>9. \A k \in DOMAIN list :
           /\ changed[k].symbol = list[k].symbol
           /\ changed[k].created = list[k].created
           /\ changed[k].status = "PENDING" => list[k].status = "PENDING"
    BY <1>3, <1>6, <1>7
  <1> QED BY <1>6, <1>8, <1>9 DEF c, list

\* What a fill adds to the shares of its symbol.
Signed(f) == IF f.side = "BUY" THEN f.quantity ELSE -f.quantity

\* From book b to book c the turn of order i has changed at most that order, the
\* position of its symbol, and the list of fills by one of them.
Turned(b, c, i) ==
    LET s == b.orders[i].symbol
    IN  /\ DOMAIN c.orders = DOMAIN b.orders
        /\ \A k \in DOMAIN b.orders :
              /\ c.orders[k].symbol = b.orders[k].symbol
              /\ c.orders[k].created = b.orders[k].created
              /\ c.orders[k].status = "PENDING" => b.orders[k].status = "PENDING"
        /\ \A t \in Symbols \ {s} : c.position[t] = b.position[t]
        /\ \/ c.fills = b.fills /\ (c.raised \/ c.position = b.position)
           \/ \E f \in TradeRow :
                 /\ c.fills = Append(b.fills, f)
                 /\ f.order = i /\ f.symbol = s /\ f.session = session
                 /\ c.position[s].total = b.position[s].total + Signed(f)
        /\ c.raised \/ ~b.raised

\* An order's turn is one.
LEMMA ExecutedTurns ==
    ASSUME NEW b, NEW n \in Nat, Trading(b, n), Market,
           NEW i \in DOMAIN b.orders, b.orders[i].status = "PENDING"
    PROVE  Turned(b, Executed(b, i), i)
  <1> DEFINE o == b.orders[i]
             s == o.symbol
             available == b.position[s].available
             result == execute(o, bars[s], closes[s], b.cash, available, session)
             seen == Seen(b, i, result.status, result.remaining)
             applied == IF o.side = "BUY" THEN apply_buy(seen, s, result.fill)
                                          ELSE apply_sell(seen, s, result.fill)
             noted == Noted(applied, s, o.side, result.fill, i, b.cash)
             f == [order |-> i, symbol |-> s, side |-> o.side, session |-> session,
                   quantity |-> result.fill.quantity, cash |-> applied.cash - b.cash]
  <1>1. Executed(b, i) = IF b.raised THEN b
                         ELSE IF result.fill = NoFill THEN seen
                         ELSE IF applied.raised THEN applied
                         ELSE noted
    BY DEF Executed, Noted, Seen
  <1>2. /\ b \in TradeBook /\ b.orders \in Seq(BacktestOrder) /\ o \in BacktestOrder
        /\ b.cash \in Int /\ b.position \in [Symbols -> BacktestPosition]
        /\ i \in Nat /\ b.raised \in BOOLEAN
    BY DEF Trading, TradeBook
  <1>3. s \in Symbols /\ o.side \in Sides
    BY <1>2 DEF BacktestOrder
  <1>4. available \in Nat
    <2>1. b.position[s] \in BacktestPosition
      BY <1>2, <1>3
    <2> QED BY <2>1, PositionFields
  <1>5. bars[s] \in Bar /\ closes[s] \in Nat /\ session \in Nat
    BY <1>3 DEF Market
  <1>6. /\ result.status \in OrderStatus /\ result.remaining \in Nat
        /\ result.fill # NoFill => result.fill \in Fill
    <2>1. o.status = "PENDING"
      OBVIOUS
    <2> HIDE DEF o, available
    <2> QED BY <1>2, <1>4, <1>5, <2>1, AnswerType
  <1> HIDE DEF result
  <1>7. /\ seen \in TradeBook /\ seen.position = b.position
        /\ seen.fills = b.fills /\ seen.raised = b.raised
        /\ DOMAIN seen.orders = DOMAIN b.orders
        /\ \A k \in DOMAIN b.orders :
              /\ seen.orders[k].symbol = b.orders[k].symbol
              /\ seen.orders[k].created = b.orders[k].created
              /\ seen.orders[k].status = "PENDING" => b.orders[k].status = "PENDING"
    BY <1>2, <1>6, SeenShape
  <1> HIDE DEF seen, s, available
  <1>8. ASSUME ~b.raised, result.fill # NoFill
        PROVE  /\ applied.orders = seen.orders /\ applied.fills = b.fills
               /\ noted.orders = seen.orders
               /\ \A t \in Symbols \ {s} : /\ applied.position[t] = b.position[t]
                                           /\ noted.position[t] = b.position[t]
               /\ ~applied.raised =>
                     /\ noted.fills = Append(b.fills, f) /\ applied.cash \in Int
                     /\ noted.position[s].total = b.position[s].total + Signed(f)
    <2>1. result.fill \in Fill
      BY <1>6, <1>8
    <2>2. result.fill.quantity \in Nat /\ b.position[s].total \in Nat
      <3>1. b.position[s] \in BacktestPosition
        BY <1>2, <1>3
      <3> QED BY <2>1, <3>1, PositionFields DEF Fill
    <2>3. f.side = o.side /\ f.quantity = result.fill.quantity
      OBVIOUS
    <2>4. CASE o.side = "BUY"
      <3> DEFINE a == apply_buy(seen, s, result.fill)
                 c == Noted(a, s, "BUY", result.fill, i, b.cash)
                 g == [order |-> i, symbol |-> s, side |-> "BUY", session |-> session,
                       quantity |-> result.fill.quantity, cash |-> a.cash - b.cash]
      <3>1. /\ a.orders = seen.orders /\ a.fills = seen.fills /\ c.orders = seen.orders
            /\ \A t \in Symbols \ {s} : /\ a.position[t] = seen.position[t]
                                        /\ c.position[t] = seen.position[t]
            /\ ~a.raised =>
                  /\ c.fills = Append(seen.fills, g) /\ a.cash \in Int
                  /\ c.position[s].total = seen.position[s].total + result.fill.quantity
        BY <1>2, <1>3, <1>7, <2>1, BuyShape
      <3>2. applied = a /\ noted = c /\ f = g
        BY <2>4
      <3>3. Signed(f) = result.fill.quantity
        BY <2>3, <2>4 DEF Signed
      <3> HIDE DEF a, c, g, f, applied, noted
      <3> QED BY <1>7, <3>1, <3>2, <3>3
    <2>5. CASE o.side = "SELL"
      <3> DEFINE a == apply_sell(seen, s, result.fill)
                 c == Noted(a, s, "SELL", result.fill, i, b.cash)
                 g == [order |-> i, symbol |-> s, side |-> "SELL", session |-> session,
                       quantity |-> result.fill.quantity, cash |-> a.cash - b.cash]
      <3>1. /\ a.orders = seen.orders /\ a.fills = seen.fills /\ c.orders = seen.orders
            /\ \A t \in Symbols \ {s} : /\ a.position[t] = seen.position[t]
                                        /\ c.position[t] = seen.position[t]
            /\ ~a.raised =>
                  /\ c.fills = Append(seen.fills, g) /\ a.cash \in Int
                  /\ c.position[s].total = seen.position[s].total - result.fill.quantity
        BY <1>2, <1>3, <1>7, <2>1, SellShape
      <3>2. applied = a /\ noted = c /\ f = g
        BY <2>5
      <3>3. Signed(f) = -result.fill.quantity
        BY <2>3, <2>5 DEF Signed
      <3>4. b.position[s].total - result.fill.quantity
              = b.position[s].total + (-result.fill.quantity)
        BY <2>2
      <3> HIDE DEF a, c, g, f, applied, noted
      <3> QED BY <1>7, <3>1, <3>2, <3>3, <3>4
    <2> QED BY <1>3, <2>4, <2>5 DEF Sides
  <1>9. ASSUME ~b.raised, result.fill # NoFill, ~applied.raised
        PROVE  f \in TradeRow /\ f.order = i /\ f.symbol = s /\ f.session = session
    <2>1. result.fill.quantity \in Nat \ {0}
      BY <1>6, <1>9 DEF Fill
    <2>2. applied.cash - b.cash \in Int
      BY <1>2, <1>8, <1>9
    <2> HIDE DEF o, applied
    <2> QED BY <1>2, <1>3, <1>5, <2>1, <2>2 DEF TradeRow, o
  <1> HIDE DEF applied, noted, f
  <1>10. s = b.orders[i].symbol
    BY DEF s
  <1> DEFINE c == Executed(b, i)
  <1> HIDE DEF c, o
  <1>11. CASE b.raised
    <2>1. c = b
      BY <1>1, <1>11 DEF c
    <2> QED BY <2>1, <1>11 DEF Turned, c
  <1>12. CASE ~b.raised /\ result.fill = NoFill
    <2>1. c = seen
      BY <1>1, <1>12 DEF c
    <2> QED BY <1>7, <1>12, <2>1 DEF Turned, c
  <1>13. CASE ~b.raised /\ result.fill # NoFill /\ applied.raised
    <2>1. c = applied
      BY <1>1, <1>13 DEF c
    <2>2. /\ c.orders = seen.orders /\ c.fills = b.fills /\ c.raised
          /\ \A t \in Symbols \ {s} : c.position[t] = b.position[t]
      BY <1>8, <1>13, <2>1
    <2> QED BY <1>7, <1>10, <2>2 DEF Turned, c
  <1>14. CASE ~b.raised /\ result.fill # NoFill /\ ~applied.raised
    <2>1. c = noted
      BY <1>1, <1>14 DEF c
    <2>2. /\ c.orders = seen.orders /\ c.fills = Append(b.fills, f)
          /\ c.position[s].total = b.position[s].total + Signed(f)
          /\ \A t \in Symbols \ {s} : c.position[t] = b.position[t]
      BY <1>8, <1>14, <2>1
    <2>3. f \in TradeRow /\ f.order = i /\ f.symbol = s /\ f.session = session
      BY <1>9, <1>14
    <2> QED BY <1>7, <1>10, <1>14, <2>2, <2>3 DEF Turned, c
  <1> QED BY <1>11, <1>12, <1>13, <1>14

\* An order that is placed.
Placed(b, o) == [b EXCEPT !.orders = Append(@, o)]

\* It changes nothing but the list of orders.
LEMMA PlacedShape ==
    ASSUME NEW b \in TradeBook, NEW o \in BacktestOrder
    PROVE  LET c == Placed(b, o)
               k == Len(b.orders) + 1
           IN  /\ c \in TradeBook /\ c.cash = b.cash /\ c.position = b.position
               /\ c.fills = b.fills /\ c.raised = b.raised
               /\ DOMAIN c.orders = DOMAIN b.orders \cup {k}
               /\ \A i \in DOMAIN b.orders : c.orders[i] = b.orders[i]
               /\ c.orders[k] = o
  <1> DEFINE list == b.orders
             more == Append(list, o)
             c == Placed(b, o)
             k == Len(list) + 1
  <1>1. list \in Seq(BacktestOrder)
    BY DEF TradeBook
  <1>2. /\ more \in Seq(BacktestOrder) /\ DOMAIN more = DOMAIN list \cup {k}
        /\ \A i \in DOMAIN list : more[i] = list[i]
        /\ more[k] = o
    <2> HIDE DEF list
    <2> QED BY <1>1
  <1>3. c = [b EXCEPT !.orders = more]
    BY DEF Placed, TradeBook
  <1> HIDE DEF more, c
  <1>4. /\ c \in TradeBook /\ c.orders = more /\ c.cash = b.cash
        /\ c.position = b.position /\ c.fills = b.fills /\ c.raised = b.raised
    BY <1>2, <1>3 DEF TradeBook
  <1> QED BY <1>2, <1>4 DEF c

\* An exit places an order for a symbol that is held, and an order that can be
\* executed has its turn.
LEMMA ExitTurns ==
    ASSUME NEW b, NEW n \in Nat, Trading(b, n), Market, NEW s \in Symbols
    PROVE  \/ Exited(b, s) = b
           \/ \E o \in BacktestOrder :
                 /\ ~b.raised /\ b.position[s].total # 0
                 /\ o.symbol = s /\ o.created = session
                 /\ \/ o.status # "PENDING" /\ Exited(b, s) = Placed(b, o)
                    \/ /\ o.status = "PENDING"
                       /\ Turned(Placed(b, o), Exited(b, s), Len(b.orders) + 1)
  <1> DEFINE pos == b.position[s]
             price == ExitPrice(pos, bars[s])
             sell(quantity) == new_order(s, "SELL", "LIMIT", quantity, session,
                                         session, price)
             blocked == [sell(pos.total) EXCEPT !.status = "BLOCKED_T1"]
             free == sell(pos.available)
  <1>1. Exited(b, s) = IF b.raised \/ pos.total <= 0 \/ price = NoPrice THEN b
                       ELSE IF pos.available <= 0 THEN Placed(b, blocked)
                       ELSE Executed(Placed(b, free), Len(b.orders) + 1)
    BY DEF Exited, Placed
  <1>2. pos \in BacktestPosition /\ session \in Nat
    BY DEF Trading, TradeBook, Market
  <1>3. pos.total \in Nat /\ pos.available \in Nat /\ price \in Nat
    BY <1>2, PositionFields, ExitPriceType
  <1>4. "SELL" \in Sides /\ "LIMIT" \in OrderTypes
    BY DEF Sides, OrderTypes
  <1> HIDE DEF price, pos
  <1>5. /\ blocked \in BacktestOrder /\ free \in BacktestOrder
        /\ free.status = "PENDING" /\ blocked.status = "BLOCKED_T1"
        /\ free.symbol = s /\ blocked.symbol = s
        /\ free.created = session /\ blocked.created = session
    <2>1. \A q \in Nat : /\ sell(q) \in BacktestOrder /\ sell(q).status = "PENDING"
                         /\ [sell(q) EXCEPT !.status = "BLOCKED_T1"] \in BacktestOrder
      BY <1>2, <1>3, <1>4, NewOrderType
    <2>2. \A q \in Nat : sell(q).symbol = s /\ sell(q).created = session
      BY DEF new_order
    <2> HIDE DEF sell
    <2>3. \A q \in Nat :
             /\ [sell(q) EXCEPT !.status = "BLOCKED_T1"].status = "BLOCKED_T1"
             /\ [sell(q) EXCEPT !.status = "BLOCKED_T1"].symbol = s
             /\ [sell(q) EXCEPT !.status = "BLOCKED_T1"].created = session
      BY <2>1, <2>2 DEF BacktestOrder
    <2> QED BY <1>3, <2>1, <2>2, <2>3
  <1> HIDE DEF blocked, free
  <1>6. /\ Trading(Placed(b, free), n)
        /\ Len(b.orders) + 1 \in DOMAIN Placed(b, free).orders
        /\ Placed(b, free).orders[Len(b.orders) + 1] = free
    BY <1>5, PlacedKept DEF Placed
  <1>7. Turned(Placed(b, free), Executed(Placed(b, free), Len(b.orders) + 1),
               Len(b.orders) + 1)
    BY <1>5, <1>6, ExecutedTurns
  <1>8. CASE b.raised \/ pos.total <= 0 \/ price = NoPrice
    BY <1>1, <1>8
  <1>9. CASE ~(b.raised \/ pos.total <= 0 \/ price = NoPrice)
    <2>1. ~b.raised /\ b.position[s].total # 0
      BY <1>3, <1>9 DEF pos
    <2>2. CASE pos.available <= 0
      <3>1. Exited(b, s) = Placed(b, blocked)
        BY <1>1, <1>9, <2>2
      <3> QED BY <1>5, <2>1, <3>1
    <2>3. CASE ~(pos.available <= 0)
      <3>1. Exited(b, s) = Executed(Placed(b, free), Len(b.orders) + 1)
        BY <1>1, <1>9, <2>3
      <3> QED BY <1>5, <1>7, <2>1, <3>1
    <2> QED BY <2>2, <2>3
  <1> QED BY <1>8, <1>9

----------------------------------------------------------------------------
(* Dividends: the holding that earns one is that of the fills.             *)

\* The shares that fills of a symbol brought and took.
Moves(list) == [i \in DOMAIN list |-> Signed(list[i])]
TradesOf(list, s) == {i \in DOMAIN list : list[i].symbol = s}
Net(list, s) == SumFunctionOnSet(Moves(list), TradesOf(list, s))

\* Nothing but dividends has touched a symbol by a day.
Untouched(s, day) ==
    \A c \in ToSet(actions) : s \in {c.symbol, c.to} =>
        c.type = "CASH_DIVIDEND" \/ c.ex > day

\* Fills are only added, and the shares of an untouched symbol are theirs.
Counting(b) ==
    /\ \A k \in DOMAIN fills : k \in DOMAIN b.fills /\ b.fills[k] = fills[k]
    /\ \A k \in DOMAIN b.fills : k \in DOMAIN fills \/ b.fills[k].session = session
    /\ ~b.raised => \A s \in Symbols :
          Untouched(s, session) => b.position[s].total = Net(b.fills, s)

\* Parts of a list of fills are finite, and fills move whole shares.
LEMMA TradesFinite ==
    ASSUME NEW list \in Seq(TradeRow)
    PROVE  /\ IsFiniteSet(DOMAIN list)
           /\ \A i \in DOMAIN list : Moves(list)[i] \in Int
  <1>1. DOMAIN list = 1..Len(list) /\ Len(list) \in Nat
    OBVIOUS
  <1>2. IsFiniteSet(DOMAIN list)
    BY <1>1, FS_Interval
  <1>3. \A f \in TradeRow : Signed(f) \in Int
    BY DEF TradeRow, Signed
  <1>4. \A i \in DOMAIN list : list[i] \in TradeRow
    OBVIOUS
  <1> QED BY <1>2, <1>3, <1>4 DEF Moves

\* A further fill moves the shares of its symbol.
LEMMA NetAppend ==
    ASSUME NEW list \in Seq(TradeRow), NEW f \in TradeRow, NEW s
    PROVE  Net(Append(list, f), s) = IF f.symbol = s THEN Net(list, s) + Signed(f)
                                     ELSE Net(list, s)
  <1> DEFINE more == Append(list, f)
             n == Len(list) + 1
             S == TradesOf(list, s)
             old == Moves(list)
             new == Moves(more)
  <1>1. /\ Len(list) \in Nat /\ n \in Nat /\ DOMAIN list = 1..Len(list)
        /\ more \in Seq(TradeRow) /\ DOMAIN more = 1..n
        /\ \A i \in 1..Len(list) : more[i] = list[i] /\ list[i] \in TradeRow
        /\ more[n] = f
    OBVIOUS
  <1>2. /\ DOMAIN more = DOMAIN list \cup {n} /\ n \notin DOMAIN list
        /\ \A i \in DOMAIN list : more[i] = list[i]
    BY <1>1
  <1>3. /\ IsFiniteSet(DOMAIN list) /\ \A i \in DOMAIN list : old[i] \in Int
        /\ \A i \in DOMAIN more : new[i] \in Int
    BY <1>1, TradesFinite
  <1> HIDE DEF more, n
  <1>4. TradesOf(more, s) = IF f.symbol = s THEN S \cup {n} ELSE S
    BY <1>1, <1>2 DEF TradesOf
  <1>5. IsFiniteSet(S) /\ n \notin S /\ S \subseteq DOMAIN list
    BY <1>2, <1>3, FS_Subset DEF TradesOf
  <1>6. \A x \in S : old[x] \in Int /\ old[x] = new[x]
    BY <1>2, <1>3, <1>5 DEF Moves
  <1>7. SumFunctionOnSet(old, S) = SumFunctionOnSet(new, S)
    <2> HIDE DEF S, old, new
    <2> QED BY <1>5, <1>6, SumSame
  <1>8. new[n] = Signed(f)
    BY <1>1, <1>2 DEF Moves
  <1>9. SumFunctionOnSet(new, S \cup {n}) = SumFunctionOnSet(new, S) + new[n]
    <2>1. \A y \in S \cup {n} : new[y] \in Int
      BY <1>2, <1>3, <1>5
    <2> HIDE DEF S, new
    <2> QED BY <1>5, <2>1, SumAdd
  <1> HIDE DEF S, old, new
  <1> QED BY <1>4, <1>7, <1>8, <1>9 DEF Net, S, old, new, more

\* An order's turn moves the shares that its fill says.
LEMMA TurnCounts ==
    ASSUME NEW b \in TradeBook, NEW c, NEW i, Turned(b, c, i), Counting(b),
           i \in DOMAIN b.orders, fills \in Seq(TradeRow)
    PROVE  Counting(c)
  <1> DEFINE s == b.orders[i].symbol
             old == b.fills
             new == c.fills
  <1>1. old \in Seq(TradeRow) /\ s \in Symbols
    <2>1. b.orders[i] \in BacktestOrder
      BY DEF TradeBook
    <2> QED BY <2>1 DEF TradeBook, BacktestOrder
  <1>2. /\ \A t \in Symbols \ {s} : c.position[t] = b.position[t]
        /\ c.raised \/ ~b.raised
    BY DEF Turned
  <1>3. CASE new = old /\ (c.raised \/ c.position = b.position)
    BY <1>2, <1>3 DEF Counting
  <1>4. CASE \E f \in TradeRow :
                /\ new = Append(old, f)
                /\ f.order = i /\ f.symbol = s /\ f.session = session
                /\ c.position[s].total = b.position[s].total + Signed(f)
    <2>1. PICK f \in TradeRow :
                /\ new = Append(old, f)
                /\ f.symbol = s /\ f.session = session
                /\ c.position[s].total = b.position[s].total + Signed(f)
      BY <1>4
    <2>2. /\ \A k \in DOMAIN old : k \in DOMAIN new /\ new[k] = old[k]
          /\ \A k \in DOMAIN new : k \in DOMAIN old \/ new[k] = f
      <3> HIDE DEF old, new
      <3> QED BY <1>1, <2>1
    <2>3. \A k \in DOMAIN fills : k \in DOMAIN new /\ new[k] = fills[k]
      <3> HIDE DEF new
      <3> QED BY <2>2 DEF Counting, old
    <2>4. \A k \in DOMAIN new : k \in DOMAIN fills \/ new[k].session = session
      <3> HIDE DEF new
      <3> QED BY <2>1, <2>2 DEF Counting, old
    <2>5. ASSUME ~c.raised, NEW t \in Symbols, Untouched(t, session)
          PROVE  c.position[t].total = Net(new, t)
      <3>1. b.position[t].total = Net(old, t)
        BY <1>2, <2>5 DEF Counting
      <3>2. Net(new, t) = IF f.symbol = t THEN Net(old, t) + Signed(f) ELSE Net(old, t)
        <4> HIDE DEF old, new
        <4> QED BY <1>1, <2>1, NetAppend
      <3>3. CASE t = s
        BY <2>1, <3>1, <3>2, <3>3
      <3>4. CASE t # s
        <4>1. c.position[t] = b.position[t]
          BY <1>2, <3>4
        <4>2. Net(new, t) = Net(old, t)
          BY <2>1, <3>2, <3>4
        <4> QED BY <3>1, <4>1, <4>2
      <3> QED BY <3>3, <3>4
    <2> QED BY <2>3, <2>4, <2>5 DEF Counting
  <1>5. \/ new = old /\ (c.raised \/ c.position = b.position)
        \/ \E f \in TradeRow :
                /\ new = Append(old, f)
                /\ f.order = i /\ f.symbol = s /\ f.session = session
                /\ c.position[s].total = b.position[s].total + Signed(f)
    BY DEF Turned
  <1> QED BY <1>3, <1>4, <1>5

\* An exit moves the shares that its fill says.
LEMMA ExitCounts ==
    ASSUME NEW b, NEW n \in Nat, Trading(b, n), Market, NEW s \in Symbols,
           Counting(b), fills \in Seq(TradeRow)
    PROVE  Counting(Exited(b, s))
  <1>1. b \in TradeBook
    BY DEF Trading
  <1>2. CASE Exited(b, s) = b
    BY <1>2
  <1>3. ASSUME NEW o \in BacktestOrder,
               \/ Exited(b, s) = Placed(b, o)
               \/ Turned(Placed(b, o), Exited(b, s), Len(b.orders) + 1)
        PROVE  Counting(Exited(b, s))
    <2> DEFINE p == Placed(b, o)
               k == Len(b.orders) + 1
    <2>1. /\ p \in TradeBook /\ p.position = b.position /\ p.fills = b.fills
          /\ p.raised = b.raised /\ k \in DOMAIN p.orders
      BY <1>1, PlacedShape
    <2>2. Counting(p)
      BY <2>1 DEF Counting
    <2> HIDE DEF p, k
    <2>3. Turned(p, Exited(b, s), k) => Counting(Exited(b, s))
      BY <2>1, <2>2, TurnCounts
    <2> QED BY <1>3, <2>2, <2>3 DEF p, k
  <1> QED BY <1>2, <1>3, ExitTurns

\* The day's trading counts.
LEMMA OpenCounts ==
    ASSUME NEW n \in Nat, NEW base, NEW idx, Trading(base, n), Market,
           idx \in Turns(n), Counting(base), fills \in Seq(TradeRow)
    PROVE  Counting(OpenIter(base, idx)[DOMAIN idx])
  <1> DEFINE V == {b \in TradeBook : Counting(b)}
  <1>1. base \in V
    BY DEF Trading
  <1>2. ASSUME NEW v \in V, NEW i \in 1..n, Trading(v, n) PROVE OpenStep(v, i) \in V
    <2>1. i \in DOMAIN v.orders
      <3>1. v.orders \in Seq(BacktestOrder) /\ n <= Len(v.orders)
        BY <1>2 DEF Trading, TradeBook
      <3> QED BY <3>1
    <2>2. CASE v.orders[i].status = "PENDING"
      <3>1. OpenStep(v, i) = Executed(v, i)
        BY <2>2 DEF OpenStep, Pending
      <3>2. Turned(v, Executed(v, i), i)
        BY <1>2, <2>1, <2>2, ExecutedTurns
      <3>3. Counting(Executed(v, i))
        BY <2>1, <3>2, TurnCounts
      <3>4. Executed(v, i) \in TradeBook
        BY <1>2, <2>1, <2>2, ExecutedKept DEF Trading
      <3> QED BY <3>1, <3>3, <3>4
    <2>3. CASE v.orders[i].status # "PENDING"
      BY <2>3 DEF OpenStep, Pending
    <2> QED BY <2>2, <2>3
  <1> HIDE DEF V
  <1>3. OpenIter(base, idx)[DOMAIN idx] \in V
    BY <1>1, <1>2, OpenLoop
  <1> QED BY <1>3 DEF V

\* So do the exits.
LEMMA ExitsCount ==
    ASSUME NEW n \in Nat, NEW base, Trading(base, n), Market, Counting(base),
           fills \in Seq(TradeRow)
    PROVE  Counting(ExitIter(base)[Symbols])
  <1> DEFINE V == {b \in TradeBook : Counting(b)}
  <1>1. base \in V
    BY DEF Trading
  <1>2. ASSUME NEW v \in V, NEW s \in Symbols, Trading(v, n) PROVE Exited(v, s) \in V
    <2>1. Counting(Exited(v, s))
      BY <1>2, ExitCounts
    <2>2. Exited(v, s) \in TradeBook
      BY <1>2, ExitedKept DEF Trading
    <2> QED BY <2>1, <2>2
  <1> HIDE DEF V
  <1>3. ExitIter(base)[Symbols] \in V
    BY <1>1, <1>2, ExitLoop
  <1> QED BY <1>3 DEF V

----------------------------------------------------------------------------
(* Actions: what the turn of one changes.                                  *)

\* From portfolio b to portfolio c an action has changed at most the position of
\* its symbol, of its new one too when it is a change of symbol, and the orders of
\* its symbol; none of these waits that did not.
Acted(b, c, a) ==
    /\ c.entitlements = b.entitlements
    /\ \A s \in Symbols : a.type = "CASH_DIVIDEND" \/ s \notin {a.symbol, a.to}
                             => c.position[s] = b.position[s]
    /\ \A s \in Symbols : ~(a.type = "SYMBOL_CHANGE" /\ s = a.to)
                             => (b.position[s].total = 0 => c.position[s].total = 0)
    /\ DOMAIN c.orders = DOMAIN b.orders
    /\ \A k \in DOMAIN b.orders :
          /\ c.orders[k].created = b.orders[k].created
          /\ c.orders[k].status = "PENDING" => b.orders[k].status = "PENDING"
          /\ \/ c.orders[k].symbol = b.orders[k].symbol
             \/ a.type = "SYMBOL_CHANGE" /\ c.orders[k].symbol = a.to
    /\ a.type = "DELISTING" =>
          \/ c.raised
          \/ /\ c.position[a.symbol].total = 0
             /\ \A k \in DOMAIN c.orders :
                   c.orders[k].symbol = a.symbol => c.orders[k].status # "PENDING"

\* Bonus shares, splits and reverse splits change the position of their symbol,
\* if there is one.
LEMMA AdjustedActs ==
    ASSUME NEW b \in Acting, NEW a \in CorporateAction,
           a.type \in BonusTypes \cup ScaleTypes, NEW day \in Nat, NEW close \in Nat
    PROVE  Acted(b, Adjusted(b, a, day, close), a)
  <1> DEFINE s == a.symbol
             pos == b.position[s]
             added == (pos.total * a.num) \div a.den
             fewer == (pos.total * a.den) \div a.num
             locked == a.tradable > day
             new == CASE a.type \in BonusTypes ->
                           add_bonus_shares(pos, added, locked, close)
                      [] a.type = "SPLIT" -> rescale_quantity(pos, added, close)
                      [] a.type = "REVERSE_SPLIT" ->
                           rescale_quantity(pos, fewer, close)
             failed == [b EXCEPT !.raised = TRUE]
             changed == [b EXCEPT !.position[s] = new]
             folio == [b.position EXCEPT ![s] = new]
             c == Adjusted(b, a, day, close)
  <1>1. b \in ActionBook /\ b.position \in [Symbols -> BacktestPosition]
    BY DEF Acting, ActionBook
  <1>2. s \in Symbols /\ a.type # "DELISTING" /\ a.type # "SYMBOL_CHANGE"
        /\ a.type # "CASH_DIVIDEND"
    BY ActionFields DEF BonusTypes, ScaleTypes
  <1>3. pos.total \in Nat
    BY <1>1, <1>2, PositionFields
  <1>4. c = IF pos.total <= 0 THEN b
            ELSE IF a.type = "REVERSE_SPLIT" /\ a.num = 0 THEN failed ELSE changed
    BY <1>1, <1>2 DEF Adjusted, ActionBook
  <1>5. CASE c = b
    BY <1>2, <1>5 DEF Acted
  <1>6. CASE c = failed
    <2>1. /\ failed.entitlements = b.entitlements /\ failed.position = b.position
          /\ failed.orders = b.orders
      BY <1>1 DEF ActionBook
    <2> HIDE DEF c, failed
    <2> QED BY <1>2, <1>6, <2>1 DEF Acted, c
  <1>7. CASE c = changed /\ pos.total # 0
    <2>1. changed = [b EXCEPT !.position = folio]
      <3> HIDE DEF changed, new, s
      <3>1. changed = [b EXCEPT !.position[s] = new]
        BY DEF changed
      <3> QED BY <1>1, <3>1 DEF ActionBook
    <2>2. \A t \in Symbols \ {s} : folio[t] = b.position[t]
      <3> HIDE DEF new, s
      <3> QED BY <1>1
    <2>3. b.position[s].total # 0
      BY <1>7
    <2> HIDE DEF changed, folio
    <2>4. /\ changed.entitlements = b.entitlements /\ changed.position = folio
          /\ changed.orders = b.orders
      BY <1>1, <2>1 DEF ActionBook
    <2> HIDE DEF c, pos
    <2> QED BY <1>2, <1>7, <2>2, <2>3, <2>4 DEF Acted, c
  <1>8. c = b \/ c = failed \/ (c = changed /\ pos.total # 0)
    <2> HIDE DEF c, failed, changed, pos
    <2> QED BY <1>3, <1>4
  <1> QED BY <1>5, <1>6, <1>7, <1>8

\* A change of symbol moves the position and the orders to the new symbol.
LEMMA RenamedActs ==
    ASSUME NEW b \in Acting, NEW a \in CorporateAction, a.type = "SYMBOL_CHANGE"
    PROVE  Acted(b, Renamed(b, a), a)
  <1> DEFINE pos == b.position[a.symbol]
             once == [b.position EXCEPT ![a.symbol] = NoPosition]
             twice == [once EXCEPT ![a.to] = pos]
             folio == IF pos = NoPosition THEN b.position
                      ELSE [b.position EXCEPT ![a.symbol] = NoPosition, ![a.to] = pos]
             list == [i \in DOMAIN b.orders |->
                        IF b.orders[i].symbol = a.symbol
                        THEN [b.orders[i] EXCEPT !.symbol = a.to] ELSE b.orders[i]]
             c == Renamed(b, a)
  <1>1. /\ b \in ActionBook /\ b.position \in [Symbols -> BacktestPosition]
        /\ b.orders \in Seq(BacktestOrder)
    BY DEF Acting, ActionBook
  <1>2. a.symbol \in Symbols /\ a.to \in Symbols
    BY ActionFields
  <1>3. /\ \A s \in Symbols \ {a.symbol, a.to} : folio[s] = b.position[s]
        /\ \A s \in Symbols \ {a.to} :
              b.position[s].total = 0 => folio[s].total = 0
    <2>1. folio = b.position \/ folio = twice
      OBVIOUS
    <2>2. \A s \in Symbols \ {a.to} :
             twice[s] = IF s = a.symbol THEN NoPosition ELSE b.position[s]
      <3> HIDE DEF pos
      <3> QED BY <1>1, <1>2
    <2>3. NoPosition.total = 0
      BY DEF NoPosition
    <2> HIDE DEF folio, twice
    <2> QED BY <1>1, <2>1, <2>2, <2>3
  <1>4. /\ DOMAIN list = DOMAIN b.orders
        /\ \A k \in DOMAIN b.orders :
              /\ list[k].created = b.orders[k].created
              /\ list[k].status = b.orders[k].status
              /\ list[k].symbol = b.orders[k].symbol \/ list[k].symbol = a.to
    <2> DEFINE old == b.orders
    <2>1. old \in Seq(BacktestOrder)
      BY <1>1
    <2>2. \A o \in BacktestOrder : /\ [o EXCEPT !.symbol = a.to].created = o.created
                                   /\ [o EXCEPT !.symbol = a.to].status = o.status
                                   /\ [o EXCEPT !.symbol = a.to].symbol = a.to
      BY DEF BacktestOrder
    <2> HIDE DEF old
    <2>3. \A k \in DOMAIN old : old[k] \in BacktestOrder
      BY <2>1
    <2> QED BY <2>2, <2>3 DEF old
  <1>5. c = [b EXCEPT !.position = folio, !.orders = list]
    BY <1>1 DEF Renamed, ActionBook
  <1> HIDE DEF c, folio, list
  <1>6. /\ c.entitlements = b.entitlements /\ c.position = folio /\ c.orders = list
    BY <1>1, <1>5 DEF ActionBook
  <1> QED BY <1>3, <1>4, <1>6 DEF Acted, c

\* Orders that are cancelled are otherwise what they were, and none of their symbol
\* waits.
LEMMA CancelledShape ==
    ASSUME NEW list \in Seq(BacktestOrder), NEW s
    PROVE  LET c == CancelledOrders(list, s)
           IN  /\ DOMAIN c = DOMAIN list
               /\ \A k \in DOMAIN list :
                     /\ c[k].created = list[k].created /\ c[k].symbol = list[k].symbol
                     /\ c[k].status = "PENDING" =>
                           list[k].status = "PENDING" /\ list[k].symbol # s
  <1>1. \A o \in BacktestOrder :
           LET c == [o EXCEPT !.status = "CANCELLED_CORPORATE_ACTION"]
           IN  /\ c.created = o.created /\ c.symbol = o.symbol
               /\ c.status = "CANCELLED_CORPORATE_ACTION"
    BY DEF BacktestOrder
  <1>2. \A k \in DOMAIN list : list[k] \in BacktestOrder
    OBVIOUS
  <1> QED BY <1>1, <1>2 DEF CancelledOrders

\* An action on its ex date changes what it should.
LEMMA EffectiveActs ==
    ASSUME NEW b \in Acting, NEW a \in CorporateAction, NEW day \in Nat,
           NEW today \in [Symbols -> Bar]
    PROVE  Acted(b, Effective(b, a, day, today), a)
  <1> DEFINE c == Effective(b, a, day, today)
             maybe == [b EXCEPT !.raised = FailClosed]
             failed == [b EXCEPT !.raised = TRUE]
             list == CancelledOrders(b.orders, a.symbol)
             cancelled == [b EXCEPT !.orders = list]
  <1>1. b \in ActionBook /\ b.orders \in Seq(BacktestOrder)
    BY DEF Acting, ActionBook
  <1>2. a.type \in ActionTypes /\ a.symbol \in Symbols
    BY ActionFields
  <1>3. today[a.symbol].close \in Nat
    BY <1>2 DEF Bar
  <1>4. CASE a.type = "CASH_DIVIDEND"
    <2>1. c = b
      BY <1>4 DEF Effective, BonusTypes, ScaleTypes
    <2> QED BY <1>4, <2>1 DEF Acted
  <1>5. CASE a.type = "RIGHTS_ISSUE"
    <2>1. c = maybe
      BY <1>5 DEF Effective, BonusTypes, ScaleTypes
    <2>2. /\ maybe.entitlements = b.entitlements /\ maybe.position = b.position
          /\ maybe.orders = b.orders
      BY <1>1 DEF ActionBook
    <2> HIDE DEF c, maybe
    <2> QED BY <1>5, <2>1, <2>2 DEF Acted, c
  <1>6. CASE a.type = "DELISTING"
    <2>1. c = IF b.position[a.symbol].total > 0 THEN failed ELSE cancelled
      <3>1. c = IF b.position[a.symbol].total > 0 THEN failed
                ELSE [b EXCEPT !.orders = CancelledOrders(@, a.symbol)]
        BY <1>6 DEF Effective, BonusTypes, ScaleTypes
      <3>2. [b EXCEPT !.orders = CancelledOrders(@, a.symbol)] = cancelled
        BY <1>1 DEF ActionBook
      <3> HIDE DEF c, failed, cancelled
      <3> QED BY <3>1, <3>2
    <2>2. /\ failed.entitlements = b.entitlements /\ failed.position = b.position
          /\ failed.orders = b.orders /\ failed.raised
      BY <1>1 DEF ActionBook
    <2>3. /\ cancelled.entitlements = b.entitlements
          /\ cancelled.position = b.position /\ cancelled.orders = list
      <3> HIDE DEF list
      <3> QED BY <1>1 DEF ActionBook
    <2>4. /\ DOMAIN list = DOMAIN b.orders
          /\ \A k \in DOMAIN b.orders :
                /\ list[k].created = b.orders[k].created
                /\ list[k].symbol = b.orders[k].symbol
                /\ list[k].status = "PENDING" =>
                      b.orders[k].status = "PENDING" /\ b.orders[k].symbol # a.symbol
      BY <1>1, CancelledShape
    <2>5. b.position[a.symbol].total \in Nat
      <3>1. b.position[a.symbol] \in BacktestPosition
        BY <1>1, <1>2 DEF ActionBook
      <3> QED BY <3>1, PositionFields
    <2> HIDE DEF failed, cancelled, c, list
    <2>6. CASE b.position[a.symbol].total > 0
      BY <1>6, <2>1, <2>2, <2>6 DEF Acted, c
    <2>7. CASE ~(b.position[a.symbol].total > 0)
      <3>1. b.position[a.symbol].total = 0
        BY <2>5, <2>7
      <3>2. c = cancelled
        BY <2>1, <2>7
      <3> QED BY <1>6, <3>1, <3>2, <2>3, <2>4 DEF Acted, c
    <2> QED BY <2>6, <2>7
  <1>7. CASE a.type = "SYMBOL_CHANGE"
    BY <1>7, RenamedActs DEF Effective, BonusTypes, ScaleTypes
  <1>8. CASE a.type \in BonusTypes \cup ScaleTypes
    <2>1. c = Adjusted(b, a, day, today[a.symbol].close)
      BY <1>8 DEF Effective, BonusTypes, ScaleTypes
    <2> QED BY <1>3, <1>8, <2>1, AdjustedActs
  <1> QED BY <1>2, <1>4, <1>5, <1>6, <1>7, <1>8 DEF ActionTypes

\* An entitlement is made of the shares that are held on the record date, unless
\* the action has one.
LEMMA EntitledShape ==
    ASSUME NEW b \in Acting, NEW a \in CorporateAction, NEW day
    PROVE  LET c == Entitled(b, a, day)
           IN  \/ /\ c = b
                  /\ \/ b.position[a.symbol].total = 0
                     \/ \E k \in DOMAIN b.entitlements : b.entitlements[k].action = a.id
               \/ \E e \in DividendEntitlement :
                     /\ c.entitlements = Append(b.entitlements, e)
                     /\ c.position = b.position /\ c.orders = b.orders
                     /\ c.raised = b.raised
                     /\ b.position[a.symbol].total # 0
                     /\ \A k \in DOMAIN b.entitlements : b.entitlements[k].action # a.id
                     /\ e.action = a.id /\ e.quantity = b.position[a.symbol].total
                     /\ e.payment >= a.record
  <1> DEFINE n == eligible(b, a)
             gross == n * a.cash
             net == gross - (gross * DividendTax) \div Basis
             payment == IF a.payment = 0 THEN a.ex ELSE a.payment
             e == [action |-> a.id, quantity |-> n, net |-> net,
                   payment |-> payment, status |-> "CREATED"]
             list == Append(b.entitlements, e)
             c == [b EXCEPT !.entitlements = list]
  <1>1. b \in ActionBook /\ b.entitlements \in Seq(DividendEntitlement)
    BY DEF Acting, ActionBook
  <1>2. /\ a.id \in Nat /\ a.cash \in Nat /\ payment \in Nat /\ a.symbol \in Symbols
        /\ payment >= a.record
    <2>1. /\ a.id \in Nat /\ a.cash \in Nat /\ a.symbol \in Symbols /\ a.ex \in Nat
          /\ a.payment \in Nat /\ a.record \in Nat
      BY ActionFields
    <2>2. a.record <= a.ex /\ (a.payment = 0 \/ a.payment >= a.record)
      BY DEF CorporateAction
    <2> QED BY <2>1, <2>2
  <1>3. n \in Nat /\ n = b.position[a.symbol].total
    <2>1. b.position[a.symbol] \in BacktestPosition
      BY <1>1, <1>2 DEF ActionBook
    <2> QED BY <2>1, PositionFields DEF eligible
  <1>4. gross \in Nat
    BY <1>2, <1>3
  <1>5. net \in Nat
    <2> HIDE DEF gross
    <2> QED BY <1>4, TaxFits
  <1> HIDE DEF n, payment, net
  <1>6. /\ e \in DividendEntitlement /\ e.action = a.id /\ e.quantity = n
        /\ e.payment = payment
    BY <1>2, <1>3, <1>5 DEF DividendEntitlement
  <1> HIDE DEF e
  <1>7. Entitled(b, a, day) =
          IF n <= 0 \/ \E k \in ToSet(b.entitlements) : k.action = a.id THEN b ELSE c
    <2>1. c = [b EXCEPT !.entitlements = Append(@, e)]
      BY <1>1 DEF ActionBook
    <2> HIDE DEF c
    <2> QED BY <2>1 DEF Entitled, e, net, gross, n, payment
  <1>8. (\E k \in ToSet(b.entitlements) : k.action = a.id)
          <=> \E k \in DOMAIN b.entitlements : b.entitlements[k].action = a.id
    BY DEF ToSet
  <1> HIDE DEF list
  <1>9. /\ c.entitlements = list /\ c.position = b.position /\ c.orders = b.orders
        /\ c.raised = b.raised
    BY <1>1 DEF ActionBook
  <1> HIDE DEF c
  <1>10. CASE n <= 0 \/ \E k \in ToSet(b.entitlements) : k.action = a.id
    <2>1. Entitled(b, a, day) = b
      BY <1>7, <1>10
    <2>2. n = 0 \/ \E k \in DOMAIN b.entitlements : b.entitlements[k].action = a.id
      BY <1>3, <1>8, <1>10
    <2> QED BY <1>3, <2>1, <2>2
  <1>11. CASE ~(n <= 0 \/ \E k \in ToSet(b.entitlements) : k.action = a.id)
    <2>1. Entitled(b, a, day) = c
      BY <1>7, <1>11
    <2>2. n # 0 /\ \A k \in DOMAIN b.entitlements : b.entitlements[k].action # a.id
      BY <1>3, <1>8, <1>11
    <2> QED BY <1>2, <1>3, <1>6, <1>9, <2>1, <2>2 DEF list
  <1> QED BY <1>10, <1>11

\* The turn of an action: on the record date of a dividend the entitlement, and
\* on the ex date the action.
LEMMA ProcessedActs ==
    ASSUME NEW b \in Acting, ~b.raised, NEW a \in CorporateAction, NEW day \in Nat,
           NEW today \in [Symbols -> Bar]
    PROVE  LET c == Processed(b, a, day, today)
               r == IF a.type = "CASH_DIVIDEND" /\ a.record = day
                    THEN Entitled(b, a, day) ELSE b
           IN  /\ r \in Acting
               /\ \/ a.ex = day /\ Acted(r, c, a)
                  \/ a.ex # day /\ c = r
  <1> DEFINE r == IF a.type = "CASH_DIVIDEND" /\ a.record = day
                  THEN Entitled(b, a, day) ELSE b
  <1>1. r \in Acting
    BY EntitledKept
  <1>2. Processed(b, a, day, today) =
            IF a.ex = day THEN Effective(r, a, day, today) ELSE r
    BY DEF Processed
  <1> HIDE DEF r
  <1>3. Acted(r, Effective(r, a, day, today), a)
    BY <1>1, EffectiveActs
  <1> QED BY <1>1, <1>2, <1>3 DEF r

----------------------------------------------------------------------------
(* Entitlements: who earns a dividend.                                     *)

\* An action has at most one entitlement.
Once(list) == \A i, k \in DOMAIN list : list[i].action = list[k].action => i = k

\* Entitlement e is for dividend a, whose record date is the day, and for the
\* shares of its symbol when nothing but dividends has touched that.
Grants(a, e, day) ==
    /\ a.type = "CASH_DIVIDEND" /\ a.record = day
    /\ e.action = a.id /\ e.payment >= day
    /\ Untouched(a.symbol, day) =>
          e.quantity = position[a.symbol].total /\ position[a.symbol].total # 0

\* When the actions of t have had their turn, those of them that are dividends of
\* the day have their entitlements, and no others have come.
Earning(t, b, day) ==
    /\ \A k \in DOMAIN entitlements :
          k \in DOMAIN b.entitlements /\ b.entitlements[k] = entitlements[k]
    /\ \A k \in DOMAIN b.entitlements :
          \/ k \in DOMAIN entitlements
          \/ \E j \in t : Grants(actions[j], b.entitlements[k], day)
    /\ \A s \in Symbols :
          Untouched(s, day) => b.position[s].total = position[s].total
    /\ ~b.raised => \A j \in t :
          LET a == actions[j]
          IN  /\ a.type = "CASH_DIVIDEND" /\ a.record = day
              /\ Untouched(a.symbol, day) /\ position[a.symbol].total # 0
              => \E k \in DOMAIN b.entitlements : b.entitlements[k].action = a.id
    /\ Once(b.entitlements)

\* An entitlement on the record date is earned.
LEMMA EntitledEarns ==
    ASSUME actions \in Seq(CorporateAction), NEW t \in SUBSET DOMAIN actions,
           NEW x \in t, NEW b \in Acting, NEW day \in Nat,
           Earning(t \ {x}, b, day), ~b.raised,
           actions[x].type = "CASH_DIVIDEND", actions[x].record = day
    PROVE  Earning(t, Entitled(b, actions[x], day), day)
  <1> DEFINE a == actions[x]
             c == Entitled(b, a, day)
             old == b.entitlements
  <1>1. a \in CorporateAction /\ old \in Seq(DividendEntitlement)
    BY DEF Acting, ActionBook
  <1>2. a.symbol \in Symbols
    BY <1>1, ActionFields
  <1>3. \A s \in Symbols : Untouched(s, day) => b.position[s].total = position[s].total
    BY DEF Earning
  <1>4. /\ \A k \in DOMAIN entitlements : k \in DOMAIN old /\ old[k] = entitlements[k]
        /\ \A k \in DOMAIN old :
              \/ k \in DOMAIN entitlements
              \/ \E j \in t \ {x} : Grants(actions[j], old[k], day)
        /\ \A j \in t \ {x} :
              /\ actions[j].type = "CASH_DIVIDEND" /\ actions[j].record = day
              /\ Untouched(actions[j].symbol, day)
              /\ position[actions[j].symbol].total # 0
              => \E k \in DOMAIN old : old[k].action = actions[j].id
        /\ Once(old)
    BY DEF Earning
  <1>5. a.type = "CASH_DIVIDEND" /\ a.record = day
    OBVIOUS
  <1>6. CASE /\ c = b
             /\ \/ b.position[a.symbol].total = 0
                \/ \E k \in DOMAIN old : old[k].action = a.id
    <2>1. Untouched(a.symbol, day) /\ position[a.symbol].total # 0
             => \E k \in DOMAIN old : old[k].action = a.id
      BY <1>2, <1>3, <1>6
    <2>2. \A j \in t : j = x \/ j \in t \ {x}
      OBVIOUS
    <2> HIDE DEF c, old
    <2> QED BY <1>3, <1>4, <1>6, <2>1, <2>2 DEF Earning, old, c
  <1>7. CASE \E e \in DividendEntitlement :
                /\ c.entitlements = Append(old, e)
                /\ c.position = b.position /\ c.orders = b.orders
                /\ c.raised = b.raised
                /\ b.position[a.symbol].total # 0
                /\ \A k \in DOMAIN old : old[k].action # a.id
                /\ e.action = a.id /\ e.quantity = b.position[a.symbol].total
                /\ e.payment >= a.record
    <2>1. PICK e \in DividendEntitlement :
                /\ c.entitlements = Append(old, e)
                /\ c.position = b.position
                /\ b.position[a.symbol].total # 0
                /\ \A k \in DOMAIN old : old[k].action # a.id
                /\ e.action = a.id /\ e.quantity = b.position[a.symbol].total
                /\ e.payment >= a.record
      BY <1>7
    <2> DEFINE n == Len(old) + 1
               new == c.entitlements
    <2>2. /\ DOMAIN new = DOMAIN old \cup {n} /\ n \notin DOMAIN old
          /\ \A k \in DOMAIN old : new[k] = old[k]
          /\ new[n] = e
      <3> HIDE DEF old
      <3>1. /\ Len(old) \in Nat /\ DOMAIN old = 1..Len(old)
            /\ DOMAIN Append(old, e) = 1..n
            /\ \A k \in 1..Len(old) : Append(old, e)[k] = old[k]
            /\ Append(old, e)[n] = e
        BY <1>1
      <3> HIDE DEF c
      <3> QED BY <2>1, <3>1
    <2>3. Grants(a, e, day)
      BY <1>2, <1>3, <1>5, <2>1 DEF Grants
    <2> HIDE DEF c, new, n, old
    <2>4. Once(new)
      BY <1>4, <2>1, <2>2 DEF Once
    <2>5. \A k \in DOMAIN new : \/ k \in DOMAIN entitlements
                                \/ \E j \in t : Grants(actions[j], new[k], day)
      <3> SUFFICES ASSUME NEW k \in DOMAIN new
                   PROVE  \/ k \in DOMAIN entitlements
                          \/ \E j \in t : Grants(actions[j], new[k], day)
        OBVIOUS
      <3>1. CASE k = n
        BY <2>2, <2>3, <3>1 DEF a
      <3>2. CASE k \in DOMAIN old
        BY <1>4, <2>2, <3>2
      <3> QED BY <2>2, <3>1, <3>2
    <2>6. \A k \in DOMAIN entitlements : k \in DOMAIN new /\ new[k] = entitlements[k]
      BY <1>4, <2>2
    <2>7. ASSUME NEW j \in t, actions[j].type = "CASH_DIVIDEND",
                 actions[j].record = day, Untouched(actions[j].symbol, day),
                 position[actions[j].symbol].total # 0
          PROVE  \E k \in DOMAIN new : new[k].action = actions[j].id
      <3>1. CASE j = x
        BY <2>1, <2>2, <3>1 DEF a
      <3>2. CASE j # x
        BY <1>4, <2>2, <2>7, <3>2
      <3> QED BY <3>1, <3>2
    <2> QED BY <1>3, <2>1, <2>4, <2>5, <2>6, <2>7 DEF Earning, new, c
  <1> QED BY <1>1, <1>6, <1>7, EntitledShape

\* The turn of an action, on whatever day it is.
LEMMA ProcessedEarns ==
    ASSUME actions \in Seq(CorporateAction), NEW t \in SUBSET DOMAIN actions,
           NEW x \in t, NEW b \in Acting, NEW day \in Nat,
           NEW today \in [Symbols -> Bar], Earning(t \ {x}, b, day)
    PROVE  Earning(t, Processed(b, actions[x], day, today), day)
  <1> DEFINE a == actions[x]
             r == IF a.type = "CASH_DIVIDEND" /\ a.record = day
                  THEN Entitled(b, a, day) ELSE b
             c == Processed(b, a, day, today)
  <1>1. a \in CorporateAction /\ a \in ToSet(actions)
    BY DEF ToSet
  <1>2. CASE b.raised
    <2>1. c = b
      BY <1>2 DEF Processed
    <2> HIDE DEF c
    <2>2. Earning(t, b, day)
      BY <1>2 DEF Earning
    <2> QED BY <2>1, <2>2 DEF c
  <1>3. CASE ~b.raised
    <2>1. Earning(t, r, day) /\ ~r.raised
      <3>1. CASE a.type = "CASH_DIVIDEND" /\ a.record = day
        <4>1. Earning(t, Entitled(b, a, day), day)
          BY <1>3, <3>1, EntitledEarns
        <4>2. ~Entitled(b, a, day).raised
          BY <1>1, <1>3, EntitledShape
        <4> QED BY <3>1, <4>1, <4>2
      <3>2. CASE ~(a.type = "CASH_DIVIDEND" /\ a.record = day)
        <4>1. r = b
          BY <3>2
        <4>2. \A j \in t : j \in t \ {x} \/ j = x
          OBVIOUS
        <4> HIDE DEF r
        <4> QED BY <1>3, <3>2, <4>1, <4>2 DEF Earning
      <3> QED BY <3>1, <3>2
    <2>2. \/ a.ex = day /\ Acted(r, c, a)
          \/ a.ex # day /\ c = r
      BY <1>1, <1>3, ProcessedActs
    <2> HIDE DEF r, c
    <2>3. CASE a.ex = day /\ Acted(r, c, a)
      <3>1. c.entitlements = r.entitlements
        BY <2>3 DEF Acted
      <3>2. \A s \in Symbols : Untouched(s, day) => c.position[s] = r.position[s]
        <4> SUFFICES ASSUME NEW s \in Symbols, Untouched(s, day)
                     PROVE  c.position[s] = r.position[s]
          OBVIOUS
        <4>1. a.ex \in Nat
          BY <1>1, ActionFields
        <4>2. s \in {a.symbol, a.to} => a.type = "CASH_DIVIDEND" \/ a.ex > day
          BY <1>1 DEF Untouched
        <4>3. a.type = "CASH_DIVIDEND" \/ s \notin {a.symbol, a.to}
          BY <2>3, <4>1, <4>2
        <4> QED BY <2>3, <4>3 DEF Acted
      <3> QED BY <2>1, <3>1, <3>2 DEF Earning, c
    <2>4. CASE a.ex # day /\ c = r
      BY <2>1, <2>4 DEF c
    <2> QED BY <2>2, <2>3, <2>4 DEF c
  <1> QED BY <1>2, <1>3

\* All the actions of a day.
LEMMA ActionsEarn ==
    ASSUME actions \in Seq(CorporateAction), NEW base \in Acting, NEW day \in Nat,
           NEW today \in [Symbols -> Bar], Earning({}, base, day)
    PROVE  Earning(DOMAIN actions,
                   ActionIter(base, actions, day, today)[DOMAIN actions], day)
  <1> DEFINE R == {p \in (SUBSET DOMAIN actions) \X Acting : Earning(p[1], p[2], day)}
  <1>1. <<{}, base>> \in R
    OBVIOUS
  <1>2. \A t \in SUBSET DOMAIN actions : \A x \in t : \A v \in Acting :
          <<t \ {x}, v>> \in R => <<t, Processed(v, actions[x], day, today)>> \in R
    <2> SUFFICES ASSUME NEW t \in SUBSET DOMAIN actions, NEW x \in t, NEW v \in Acting,
                        <<t \ {x}, v>> \in R
                 PROVE  <<t, Processed(v, actions[x], day, today)>> \in R
      OBVIOUS
    <2>1. Earning(t, Processed(v, actions[x], day, today), day)
      BY ProcessedEarns
    <2>2. Processed(v, actions[x], day, today) \in Acting
      <3>1. actions[x] \in CorporateAction
        OBVIOUS
      <3> QED BY <3>1, ProcessedKept
    <2> QED BY <2>1, <2>2
  <1>3. ActionsCarry(R, base, actions, day, today)
    BY <1>1, <1>2 DEF ActionsCarry
  <1> HIDE DEF R
  <1>4. <<DOMAIN actions, ActionIter(base, actions, day, today)[DOMAIN actions]>> \in R
    BY <1>3, ActionLoop
  <1> QED BY <1>4 DEF R

\* A backtest that has not failed and is not stored yet.
Going == pc \notin {"FAILED", "SAVED"}

\* The shares of a dividend's symbol at the start of its record date, by the
\* fills.
Held(list, a) ==
    SumFunctionOnSet(Moves(list),
                     {i \in TradesOf(list, a.symbol) : list[i].session < a.record})

\* A dividend has an entitlement when shares were held, for those.
EarnedBy(a, held, list) ==
    /\ held > 0 => \E i \in DOMAIN list : list[i].action = a.id
    /\ \A i \in DOMAIN list : list[i].action = a.id => held > 0 /\ list[i].quantity = held

Counted == \A s \in Symbols :
    Untouched(s, session) => position[s].total = Net(fills, s)
Known == \A i \in DOMAIN entitlements : \E a \in ToSet(actions) :
    a.id = entitlements[i].action /\ a.record <= session
Earned == \A a \in ToSet(actions) :
    /\ a.type = "CASH_DIVIDEND" /\ a.record \in Period /\ a.record <= session
    /\ Untouched(a.symbol, a.record)
    => EarnedBy(a, Held(fills, a), entitlements)

\* What falls due is paid in the third step of a day.
PaidInTime == \A i \in DOMAIN entitlements :
    LET e == entitlements[i]
    IN  /\ e.payment \in Period /\ e.payment <= session
        /\ pc \in {"RELEASE", "DIVIDENDS"} => e.payment # session
        => e.status = "PAID"

\* What dividends rest on.
DividendSound ==
    Going => Counted /\ Known /\ Earned /\ PaidInTime /\ Once(entitlements)

\* They stay sound as long as nothing trades, no day begins and nobody is paid.
LEMMA DividendsStay ==
    ASSUME DividendSound, Going,
           UNCHANGED <<session, actions, fills, entitlements>>,
           \A s \in Symbols : position'[s].total = position[s].total,
           pc' \in {"RELEASE", "DIVIDENDS"} \/ pc \notin {"RELEASE", "DIVIDENDS"}
    PROVE  DividendSound'
  <1>1. \A s \in Symbols : Net(fills, s)' = Net(fills, s)
    BY DEF Net, Moves, TradesOf
  <1>2. \A a \in ToSet(actions) : Held(fills, a)' = Held(fills, a)
    BY DEF Held, Moves, TradesOf
  <1>3. Counted'
    BY <1>1 DEF DividendSound, Counted, Untouched
  <1>4. Known' /\ Once(entitlements)'
    BY DEF DividendSound, Known, Once
  <1>5. Earned'
    BY <1>2 DEF DividendSound, Earned, EarnedBy, Untouched
  <1>6. PaidInTime'
    BY DEF DividendSound, PaidInTime
  <1> QED BY <1>3, <1>4, <1>5, <1>6 DEF DividendSound

\* At the start there are neither shares nor entitlements, and no day was a
\* record date.
LEMMA DividendsStart ==
    ASSUME session = 0, fills = <<>>, entitlements = <<>>,
           position = [s \in Symbols |-> NoPosition],
           actions \in Seq(CorporateAction)
    PROVE  DividendSound
  <1>1. \A s : Net(fills, s) = 0
    <2>1. \A s : TradesOf(fills, s) = {}
      BY DEF TradesOf
    <2> QED BY <2>1, SumEmpty DEF Net
  <1>2. Counted
    BY <1>1 DEF Counted, NoPosition
  <1>3. Known /\ PaidInTime /\ Once(entitlements)
    BY DEF Known, PaidInTime, Once
  <1>4. \A d \in Period : d > 0
    BY ConfigAssumption
  <1>5. Earned
    <2>1. \A d \in Period : ~(d <= 0)
      BY <1>4, ConfigAssumption
    <2> QED BY <2>1 DEF Earned
  <1> QED BY <1>2, <1>3, <1>5 DEF DividendSound

\* Trading earns nothing for a record date that has begun.
LEMMA TradingDividends ==
    ASSUME BacktestSound, DividendSound, Going, NEW b \in TradeBook, Counting(b),
           pc \in {"OPEN", "EXITS"}, pc' \in {"EXITS", "CLOSE", "FAILED"},
           b.raised => pc' = "FAILED",
           position' = b.position, fills' = b.fills,
           UNCHANGED <<session, actions, entitlements>>
    PROVE  DividendSound'
  <1> DEFINE new == b.fills
  <1>1. fills \in Seq(TradeRow) /\ new \in Seq(TradeRow)
    BY DEF BacktestSound, Types, TradeBook
  <1>2. /\ session \in Nat /\ actions \in Seq(CorporateAction)
    BY SoundParts
  <1>3. /\ \A k \in DOMAIN fills : k \in DOMAIN new /\ new[k] = fills[k]
        /\ \A k \in DOMAIN new : k \in DOMAIN fills \/ new[k].session = session
    BY DEF Counting
  <1> HIDE DEF new
  <1>4. \A a \in ToSet(actions) : a.record <= session => Held(new, a) = Held(fills, a)
    <2> SUFFICES ASSUME NEW a \in ToSet(actions), a.record <= session
                 PROVE  Held(new, a) = Held(fills, a)
      OBVIOUS
    <2> DEFINE S == {i \in TradesOf(fills, a.symbol) : fills[i].session < a.record}
               T == {i \in TradesOf(new, a.symbol) : new[i].session < a.record}
    <2>1. a.record \in Nat
      <3>1. a \in CorporateAction
        BY <1>2 DEF ToSet
      <3> QED BY <3>1, ActionFields
    <2>2. S = T
      <3>1. \A i \in DOMAIN new : new[i].session < a.record => i \in DOMAIN fills
        BY <1>2, <1>3, <2>1
      <3> QED BY <1>3, <3>1 DEF TradesOf
    <2>3. IsFiniteSet(S) /\ S \subseteq DOMAIN fills
      BY <1>1, TradesFinite, FS_Subset DEF TradesOf
    <2>4. \A i \in S : Moves(fills)[i] \in Int /\ Moves(fills)[i] = Moves(new)[i]
      <3>1. \A i \in S : Moves(fills)[i] \in Int
        BY <1>1, <2>3, TradesFinite
      <3>2. \A i \in S : i \in DOMAIN fills /\ i \in DOMAIN new /\ new[i] = fills[i]
        BY <1>3, <2>3
      <3> HIDE DEF S
      <3> QED BY <3>1, <3>2 DEF Moves
    <2>5. SumFunctionOnSet(Moves(fills), S) = SumFunctionOnSet(Moves(new), S)
      <3> HIDE DEF S
      <3> QED BY <2>3, <2>4, SumSame
    <2> QED BY <2>2, <2>5 DEF Held
  <1>5. \A a \in ToSet(actions) : Held(fills, a)' = Held(new, a)
    BY DEF Held, Moves, TradesOf, new
  <1>6. CASE pc' = "FAILED"
    BY <1>6 DEF DividendSound, Going
  <1>7. CASE pc' \in {"EXITS", "CLOSE"}
    <2>1. Counted'
      <3>1. \A s \in Symbols : Net(fills, s)' = Net(new, s)
        BY DEF Net, Moves, TradesOf, new
      <3>2. \A s \in Symbols :
              Untouched(s, session) => b.position[s].total = Net(new, s)
        BY <1>7 DEF Counting, new
      <3> QED BY <3>1, <3>2 DEF Counted, Untouched
    <2>2. Known' /\ Once(entitlements)'
      BY DEF DividendSound, Known, Once
    <2>3. Earned'
      BY <1>4, <1>5 DEF DividendSound, Earned, EarnedBy, Untouched
    <2>4. PaidInTime'
      BY <1>7 DEF DividendSound, PaidInTime
    <2> QED BY <2>1, <2>2, <2>3, <2>4 DEF DividendSound
  <1> QED BY <1>6, <1>7

\* A day begins with its corporate actions: the dividends recorded on it get their
\* entitlements, and those recorded before keep theirs.
LEMMA CorporateDividends ==
    ASSUME ActionIdsUnique, BacktestSound, DividendSound, ProcessCorporateActions
    PROVE  DividendSound'
  <1> DEFINE day == Min(Later(Period, session))
             start == [cash |-> cash, position |-> position, orders |-> orders,
                       entitlements |-> entitlements, raised |-> FALSE]
             after(today) == ActionIter(start, actions, day, today)[DOMAIN actions]
  <1>1. PICK today \in BarSets :
          /\ pc = "CORPORATE_ACTIONS"
          /\ session' = day
          /\ position' = after(today).position
          /\ entitlements' = after(today).entitlements
          /\ pc' = IF after(today).raised THEN "FAILED" ELSE "RELEASE"
          /\ UNCHANGED <<fills, actions>>
    BY DEF ProcessCorporateActions, FoldLeft, MapThenFoldSet, ActionIter, Config
  <1>2. /\ session \in Nat /\ actions \in Seq(CorporateAction)
        /\ Period \subseteq Nat /\ IsFiniteSet(Period)
        /\ fills \in Seq(TradeRow) /\ entitlements \in Seq(DividendEntitlement)
        /\ position \in [Symbols -> BacktestPosition]
    BY SoundParts DEF BacktestSound, Types
  <1>3. /\ day \in Period /\ day \in Nat /\ day > session
        /\ \A d \in Period : d < day => d <= session
    <2>1. /\ Later(Period, session) \subseteq Period
          /\ Later(Period, session) # {}
      BY <1>1 DEF Later, BacktestSound, DaysPass
    <2>2. IsFiniteSet(Later(Period, session)) /\ Later(Period, session) \subseteq Nat
      BY <1>2, <2>1, FS_Subset
    <2>3. /\ day \in Later(Period, session)
          /\ \A d \in Later(Period, session) : day <= d
      BY <2>1, <2>2, MinIn
    <2> HIDE DEF day
    <2>4. ASSUME NEW d \in Period, d < day PROVE d <= session
      <3>1. d \in Nat /\ day \in Nat
        BY <1>2, <2>2, <2>3
      <3>2. ~(day <= d)
        BY <2>4, <3>1
      <3>3. d \notin Later(Period, session)
        BY <2>3, <3>2
      <3> QED BY <1>2, <3>1, <3>3 DEF Later
    <2> QED BY <1>2, <2>3, <2>4 DEF Later
  <1>4. today \in [Symbols -> Bar]
    BY ConfigAssumption
  <1>5. start \in Acting
    BY DEF BacktestSound, Types, Acting, ActionBook
  <1>6. /\ Counted /\ Known /\ Earned /\ PaidInTime /\ Once(entitlements)
    BY <1>1 DEF DividendSound, Going
  <1>7. Earning({}, start, day)
    BY <1>6 DEF Earning
  <1> DEFINE b == after(today)
  <1>8. Earning(DOMAIN actions, b, day)
    <2> HIDE DEF start, day
    <2> QED BY <1>2, <1>3, <1>4, <1>5, <1>7, ActionsEarn
  <1>9. /\ position' = b.position /\ entitlements' = b.entitlements
        /\ pc' = IF b.raised THEN "FAILED" ELSE "RELEASE"
        /\ session' = day
    BY <1>1
  <1> HIDE DEF b, day
  <1> DEFINE new == b.entitlements
  <1>10. /\ \A k \in DOMAIN entitlements : k \in DOMAIN new /\ new[k] = entitlements[k]
         /\ \A k \in DOMAIN new :
              k \in DOMAIN entitlements
              \/ \E j \in DOMAIN actions : Grants(actions[j], new[k], day)
         /\ \A s \in Symbols :
               Untouched(s, day) => b.position[s].total = position[s].total
         /\ Once(new)
    BY <1>8 DEF Earning
  <1>11. \A j \in DOMAIN actions : /\ actions[j] \in CorporateAction
                                   /\ actions[j] \in ToSet(actions)
    BY <1>2 DEF ToSet
  <1>12. \A a \in ToSet(actions) :
            /\ a \in CorporateAction /\ a.symbol \in Symbols
            /\ a.record \in Nat /\ a.ex \in Nat
            /\ \E j \in DOMAIN actions : actions[j] = a
    BY <1>11, ActionFields DEF ToSet
  <1>13. \A a, c \in ToSet(actions) : a.id = c.id => a = c
    <2>1. actions \in ActionLists
      BY DEF BacktestSound, Types
    <2> QED BY <2>1 DEF ActionIdsUnique
  <1> HIDE DEF new
  <1>14. \A s : Untouched(s, day) => Untouched(s, session)
    BY <1>2, <1>3, <1>12 DEF Untouched
  <1>15. \A k \in DOMAIN new :
            \E a \in ToSet(actions) : a.id = new[k].action /\ a.record <= day
    <2> SUFFICES ASSUME NEW k \in DOMAIN new
                 PROVE  \E a \in ToSet(actions) : a.id = new[k].action /\ a.record <= day
      OBVIOUS
    <2>1. CASE k \in DOMAIN entitlements
      <3>1. PICK a \in ToSet(actions) :
              a.id = entitlements[k].action /\ a.record <= session
        BY <1>6, <2>1 DEF Known
      <3>2. a.record <= day
        BY <1>2, <1>3, <1>12, <3>1
      <3> QED BY <1>10, <2>1, <3>1, <3>2
    <2>2. CASE \E j \in DOMAIN actions : Grants(actions[j], new[k], day)
      BY <1>3, <1>11, <2>2 DEF Grants
    <2> QED BY <1>10, <2>1, <2>2
  <1>16. ASSUME NEW a \in ToSet(actions), a.type = "CASH_DIVIDEND", a.record \in Period,
                a.record <= day, Untouched(a.symbol, a.record), ~b.raised
         PROVE  EarnedBy(a, Held(fills, a), new)
    <2>1. a.record \in Nat /\ a.symbol \in Symbols
      BY <1>12
    <2>2. CASE a.record # day
      <3>1. a.record <= session
        BY <1>3, <1>16, <2>1, <2>2
      <3>2. EarnedBy(a, Held(fills, a), entitlements)
        BY <1>6, <1>16, <3>1 DEF Earned
      <3>3. ASSUME NEW k \in DOMAIN new, new[k].action = a.id
            PROVE  k \in DOMAIN entitlements
        <4> SUFFICES ASSUME NEW j \in DOMAIN actions, Grants(actions[j], new[k], day)
                     PROVE  FALSE
          BY <1>10
        <4>1. actions[j] = a
          BY <1>11, <1>13, <3>3 DEF Grants
        <4> QED BY <2>2, <4>1 DEF Grants
      <3> QED BY <1>10, <3>2, <3>3 DEF EarnedBy
    <2>3. CASE a.record = day
      <3> DEFINE held == Held(fills, a)
      <3>1. held = position[a.symbol].total
        <4>1. {i \in TradesOf(fills, a.symbol) : fills[i].session < a.record}
                = TradesOf(fills, a.symbol)
          <5>1. \A i \in DOMAIN fills : fills[i].session < day
            <6> SUFFICES ASSUME NEW i \in DOMAIN fills PROVE fills[i].session < day
              OBVIOUS
            <6>1. fills[i].session \in Nat /\ fills[i].session <= session
              BY FillDays
            <6> QED BY <1>2, <1>3, <6>1
          <5> QED BY <2>3, <5>1 DEF TradesOf
        <4>2. Untouched(a.symbol, session)
          BY <1>14, <1>16, <2>3
        <4>3. position[a.symbol].total = Net(fills, a.symbol)
          BY <1>6, <2>1, <4>2 DEF Counted
        <4> QED BY <4>1, <4>3 DEF Held, Net
      <3>2. position[a.symbol].total \in Nat
        BY <1>2, <2>1, PositionFields
      <3> HIDE DEF held
      <3>3. ASSUME NEW k \in DOMAIN new, new[k].action = a.id
            PROVE  held > 0 /\ new[k].quantity = held
        <4>1. k \notin DOMAIN entitlements
          <5> SUFFICES ASSUME k \in DOMAIN entitlements PROVE FALSE
            OBVIOUS
          <5>1. PICK c \in ToSet(actions) :
                  c.id = entitlements[k].action /\ c.record <= session
            BY <1>6 DEF Known
          <5>2. c = a
            BY <1>10, <1>13, <3>3, <5>1
          <5> QED BY <1>2, <1>3, <2>3, <5>1, <5>2
        <4>2. PICK j \in DOMAIN actions : Grants(actions[j], new[k], day)
          BY <1>10, <4>1
        <4>3. actions[j] = a
          BY <1>11, <1>13, <3>3, <4>2 DEF Grants
        <4>4. new[k].quantity = position[a.symbol].total /\ position[a.symbol].total # 0
          BY <1>16, <2>3, <4>2, <4>3 DEF Grants
        <4> QED BY <3>1, <3>2, <4>4
      <3>4. ASSUME held > 0
            PROVE  \E k \in DOMAIN new : new[k].action = a.id
        <4>1. position[a.symbol].total # 0
          BY <3>1, <3>2, <3>4
        <4>2. PICK j \in DOMAIN actions : actions[j] = a
          BY <1>12
        <4> QED BY <1>8, <1>16, <2>3, <3>4, <4>1, <4>2 DEF Earning, new
      <3> QED BY <3>3, <3>4 DEF EarnedBy, held
    <2> QED BY <2>2, <2>3

  <1>17. CASE b.raised
    BY <1>9, <1>17 DEF DividendSound, Going
  <1>18. CASE ~b.raised
    <2>1. Counted'
      <3>1. \A s \in Symbols : Net(fills, s)' = Net(fills, s)
        BY <1>1 DEF Net, Moves, TradesOf
      <3>2. \A s \in Symbols : Untouched(s, day) => b.position[s].total = Net(fills, s)
        BY <1>6, <1>10, <1>14 DEF Counted
      <3> QED BY <1>1, <1>9, <3>1, <3>2 DEF Counted, Untouched
    <2>2. Known' /\ Once(entitlements)'
      BY <1>1, <1>9, <1>10, <1>15 DEF Known, new
    <2>3. Earned'
      <3>1. \A a \in ToSet(actions) : Held(fills, a)' = Held(fills, a)
        BY <1>1 DEF Held, Moves, TradesOf
      <3> QED BY <1>1, <1>9, <1>16, <1>18, <3>1 DEF Earned, Untouched, EarnedBy, new
    <2>4. PaidInTime'
      <3> SUFFICES ASSUME NEW k \in DOMAIN new, new[k].payment \in Period,
                          new[k].payment <= day, new[k].payment # day
                   PROVE  new[k].status = "PAID"
        BY <1>9, <1>18 DEF PaidInTime, new
      <3>1. new[k].payment \in Nat
        BY <1>2
      <3>2. k \in DOMAIN entitlements
        <4>1. ~(new[k].payment >= day)
          BY <1>3, <3>1
        <4> QED BY <1>10, <4>1 DEF Grants
      <3>3. new[k] = entitlements[k] /\ new[k].payment <= session
        BY <1>3, <1>10, <3>1, <3>2
      <3> QED BY <1>1, <1>6, <3>2, <3>3 DEF PaidInTime
    <2> QED BY <2>1, <2>2, <2>3, <2>4 DEF DividendSound
  <1> QED BY <1>17, <1>18

\* Shares are released: no position changes its total.
LEMMA ReleaseTotals ==
    ASSUME BacktestSound, ReleaseShares
    PROVE  \A s \in Symbols : position'[s].total = position[s].total
  <1> DEFINE once == ReleasedT1(position)
  <1>1. position' = ReleasedLocked(once)
    BY DEF ReleaseShares
  <1>2. \A s \in Symbols : position[s] \in BacktestPosition
    BY DEF BacktestSound, Types
  <1>3. \A s \in Symbols : /\ once[s] \in BacktestPosition
                           /\ once[s].total = position[s].total
    <2>1. once \in [Symbols -> BacktestPosition]
      BY ReleasedT1Kept DEF BacktestSound, Types
    <2>2. \A s \in Symbols : once[s].total = position[s].total
      BY <1>2 DEF ReleasedT1, BacktestPosition
    <2> HIDE DEF once
    <2> QED BY <2>1, <2>2
  <1> HIDE DEF once
  <1> QED BY <1>1, <1>3 DEF ReleasedLocked, BacktestPosition

\* Neither does marking to the market change one.
LEMMA MarkTotals ==
    ASSUME BacktestSound, MarkToMarket
    PROVE  \A s \in Symbols : position'[s].total = position[s].total
  <1> DEFINE marked == [s \in Symbols |-> IF position[s].total > 0
                                          THEN mark(position[s], bars[s].close)
                                          ELSE position[s]]
  <1>1. position' = marked
    BY DEF MarkToMarket
  <1>2. \A s \in Symbols : position[s] \in BacktestPosition
    BY DEF BacktestSound, Types
  <1>3. \A s \in Symbols : marked[s].total = position[s].total
    BY <1>2 DEF mark, BacktestPosition
  <1> QED BY <1>1, <1>3

\* Releasing shares earns nobody a dividend.
LEMMA ReleaseDividends ==
    ASSUME BacktestSound, DividendSound, ReleaseShares
    PROVE  DividendSound'
  <1>1. /\ pc = "RELEASE" /\ pc' = "DIVIDENDS"
        /\ UNCHANGED <<session, actions, fills, entitlements>>
    BY DEF ReleaseShares, Config
  <1>2. Going
    BY <1>1 DEF Going
  <1> QED BY <1>1, <1>2, ReleaseTotals, DividendsStay

\* Dividends are paid: what is due, and nothing else about an entitlement changes.
LEMMA PayDividendsKept ==
    ASSUME BacktestSound, DividendSound, PayDividends
    PROVE  DividendSound'
  <1> DEFINE list == [i \in DOMAIN entitlements |->
                        IF Due(entitlements[i])
                        THEN [entitlements[i] EXCEPT !.status = "PAID"]
                        ELSE entitlements[i]]
  <1>1. /\ pc = "DIVIDENDS" /\ pc' = "CANCEL" /\ entitlements' = list
        /\ UNCHANGED <<session, actions, fills, position>>
    BY DEF PayDividends, Config
  <1>2. \A i \in DOMAIN entitlements : entitlements[i] \in DividendEntitlement
    BY DEF BacktestSound, Types
  <1>3. /\ DOMAIN list = DOMAIN entitlements
        /\ \A i \in DOMAIN list : /\ list[i].action = entitlements[i].action
                                  /\ list[i].quantity = entitlements[i].quantity
                                  /\ list[i].payment = entitlements[i].payment
                                  /\ entitlements[i].status = "PAID" => list[i].status = "PAID"
                                  /\ list[i].payment = session => list[i].status = "PAID"
    BY <1>2 DEF DividendEntitlement, Due
  <1> HIDE DEF list
  <1>4. Counted /\ Known /\ Earned /\ PaidInTime /\ Once(entitlements)
    BY <1>1 DEF DividendSound, Going
  <1>5. \A s \in Symbols : Net(fills, s)' = Net(fills, s)
    BY <1>1 DEF Net, Moves, TradesOf
  <1>6. \A a \in ToSet(actions) : Held(fills, a)' = Held(fills, a)
    BY <1>1 DEF Held, Moves, TradesOf
  <1>7. Counted'
    BY <1>1, <1>4, <1>5 DEF Counted, Untouched
  <1>8. Known' /\ Once(entitlements)'
    BY <1>1, <1>3, <1>4 DEF Known, Once
  <1>9. Earned'
    <2>1. \A a \in ToSet(actions) :
             EarnedBy(a, Held(fills, a), entitlements) => EarnedBy(a, Held(fills, a), list)
      BY <1>3 DEF EarnedBy
    <2> QED BY <1>1, <1>4, <1>6, <2>1 DEF Earned, EarnedBy, Untouched
  <1>10. PaidInTime'
    BY <1>1, <1>3, <1>4 DEF PaidInTime
  <1> QED BY <1>7, <1>8, <1>9, <1>10 DEF DividendSound

\* The steps of a day that trade.
LEMMA TradedDividends ==
    ASSUME BacktestSound, DividendSound, ExecuteOpenOrders \/ ProcessExits
    PROVE  DividendSound'
  <1>1. Market /\ fills \in Seq(TradeRow)
    BY SoundParts DEF BacktestSound, Types
  <1>2. Counting(book)
    <2>1. Counted
      BY DEF DividendSound, Going, ExecuteOpenOrders, ProcessExits
    <2> QED BY <2>1 DEF Counting, Counted, book
  <1>3. CASE ExecuteOpenOrders
    <2> DEFINE idx == [i \in DOMAIN orders |-> i]
               n == Len(orders)
               b == OpenIter(book, idx)[DOMAIN idx]
    <2>1. pc = "OPEN" /\ Commit(b, "EXITS")
      BY <1>3 DEF ExecuteOpenOrders, FoldLeft, MapThenFoldSet, OpenIter, OpenStep
    <2>2. n \in Nat /\ idx \in Turns(n)
      BY DEF BacktestSound, Types, Turns
    <2>3. Trading(book, n)
      BY <2>1, OpenBook
    <2> HIDE DEF idx, n
    <2>4. Trading(b, n) /\ Counting(b)
      BY <1>1, <1>2, <2>2, <2>3, OpenOrdersKept, OpenCounts
    <2> HIDE DEF b
    <2>5. /\ position' = b.position /\ fills' = b.fills
          /\ pc' = IF b.raised THEN "FAILED" ELSE "EXITS"
          /\ UNCHANGED <<session, actions, entitlements>>
      BY <2>1 DEF Commit, Config
    <2> QED BY <2>1, <2>4, <2>5, TradingDividends DEF Trading, Going
  <1>4. CASE ProcessExits
    <2> DEFINE b == ExitIter(book)[Symbols]
    <2>1. pc = "EXITS" /\ Commit(b, "CLOSE")
      BY <1>4 DEF ProcessExits, MapThenFoldSet, ExitIter
    <2>2. Trading(book, 0)
      BY <2>1, ExitsBook
    <2>3. Trading(b, 0) /\ Counting(b)
      BY <1>1, <1>2, <2>2, ExitsKept, ExitsCount
    <2> HIDE DEF b
    <2>4. /\ position' = b.position /\ fills' = b.fills
          /\ pc' = IF b.raised THEN "FAILED" ELSE "CLOSE"
          /\ UNCHANGED <<session, actions, entitlements>>
      BY <2>1 DEF Commit, Config
    <2> QED BY <2>1, <2>3, <2>4, TradingDividends DEF Trading, Going
  <1> QED BY <1>3, <1>4

\* The steps that leave shares, fills and entitlements alone.
LEMMA EveningDividends ==
    ASSUME BacktestSound, DividendSound,
           CancelOrders \/ MarkToMarket \/ GenerateNextSessionOrders \/ SaveBacktestRun
    PROVE  DividendSound'
  <1>1. CASE CancelOrders
    BY <1>1, DividendsStay DEF CancelOrders, Config, Going
  <1>2. CASE MarkToMarket
    <2>1. /\ pc = "CLOSE" /\ pc' = "SIGNALS"
          /\ UNCHANGED <<session, actions, fills, entitlements>>
      BY <1>2 DEF MarkToMarket, Config
    <2> QED BY <1>2, <2>1, MarkTotals, DividendsStay DEF Going
  <1>3. CASE GenerateNextSessionOrders
    <2>1. /\ pc = "SIGNALS" /\ pc' \in {"FAILED", "COMPLETED", "CORPORATE_ACTIONS"}
          /\ UNCHANGED <<session, actions, fills, entitlements, position>>
      BY <1>3 DEF GenerateNextSessionOrders, Config
    <2> QED BY <2>1, DividendsStay DEF Going
  <1>4. CASE SaveBacktestRun
    BY <1>4 DEF SaveBacktestRun, DividendSound, Going
  <1> QED BY <1>1, <1>2, <1>3, <1>4

\* Another run starts from nothing, like the first.
LEMMA NewRunDividends ==
    ASSUME NewRun
    PROVE  DividendSound'
  <1>1. /\ session' = 0 /\ fills' = <<>> /\ entitlements' = <<>>
        /\ position' = [s \in Symbols |-> NoPosition]
    BY DEF NewRun
  <1>2. \A s : Net(<<>>, s) = 0
    <2>1. \A s : TradesOf(<<>>, s) = {}
      BY DEF TradesOf
    <2> QED BY <2>1, SumEmpty DEF Net
  <1>3. Counted'
    <2>1. \A s \in Symbols : Net(fills, s)' = 0
      BY <1>1, <1>2 DEF Net, Moves, TradesOf
    <2> QED BY <1>1, <2>1 DEF Counted, NoPosition
  <1>4. Known' /\ PaidInTime' /\ Once(entitlements)'
    BY <1>1 DEF Known, PaidInTime, Once
  <1>5. Earned'
    <2>1. \A d \in Period : ~(d <= 0)
      BY ConfigAssumption
    <2> QED BY <1>1, <2>1 DEF Earned
  <1> QED BY <1>3, <1>4, <1>5 DEF DividendSound

\* Nothing happens.
LEMMA StutterDividends ==
    ASSUME DividendSound, UNCHANGED vars
    PROVE  DividendSound'
  <1>1. UNCHANGED <<pc, session, actions, position, fills, entitlements>>
    BY DEF vars
  <1>2. CASE Going
    BY <1>1, <1>2, DividendsStay
  <1>3. CASE ~Going
    BY <1>1, <1>3 DEF DividendSound, Going
  <1> QED BY <1>2, <1>3

\* What dividends rest on says that they are right.
LEMMA DividendsCorrect ==
    ASSUME BacktestSound, DividendSound
    PROVE  DividendsRight
  <1>1. DividendFollowsHolding
    <2> SUFFICES ASSUME Going, NEW a \in ToSet(actions), a.type = "CASH_DIVIDEND",
                        a.record \in Period, a.record <= session,
                        Untouched(a.symbol, a.record)
                 PROVE  LET mine == {i \in DOMAIN entitlements :
                                       entitlements[i].action = a.id}
                        IN  /\ Cardinality(mine) = IF Held(fills, a) > 0 THEN 1 ELSE 0
                            /\ \A i \in mine : entitlements[i].quantity = Held(fills, a)
      <3>1. Moves(fills) = [i \in DOMAIN fills |->
                IF fills[i].side = "BUY" THEN fills[i].quantity
                                         ELSE -fills[i].quantity]
        BY DEF Moves, Signed
      <3>2. \A a \in ToSet(actions) :
              {i \in TradesOf(fills, a.symbol) : fills[i].session < a.record}
                = {i \in DOMAIN fills : fills[i].symbol = a.symbol
                                        /\ fills[i].session < a.record}
        BY DEF TradesOf
      <3> QED BY <3>1, <3>2 DEF DividendFollowsHolding, Untouched, Held, Going
    <2> DEFINE mine == {i \in DOMAIN entitlements : entitlements[i].action = a.id}
               held == Held(fills, a)
    <2>1. EarnedBy(a, held, entitlements) /\ Once(entitlements)
      BY DEF DividendSound, Earned
    <2> HIDE DEF held
    <2>2. CASE held > 0
      <3>1. PICK i \in DOMAIN entitlements : entitlements[i].action = a.id
        BY <2>1, <2>2 DEF EarnedBy
      <3>2. mine = {i}
        BY <2>1, <3>1 DEF Once
      <3>3. Cardinality(mine) = 1
        BY <3>2, FS_Singleton
      <3> QED BY <2>1, <2>2, <3>3 DEF EarnedBy, held
    <2>3. CASE ~(held > 0)
      <3>1. mine = {}
        BY <2>1, <2>3 DEF EarnedBy
      <3>2. Cardinality(mine) = 0
        BY <3>1, FS_EmptySet
      <3> QED BY <2>3, <3>1, <3>2 DEF held
    <2> QED BY <2>2, <2>3
  <1>2. DividendPaid
    <2> SUFFICES ASSUME pc = "SIGNALS", NEW i \in DOMAIN entitlements,
                        entitlements[i].payment \in Period,
                        entitlements[i].payment <= session
                 PROVE  entitlements[i].status = "PAID"
      BY DEF DividendPaid, ToSet
    <2> QED BY DEF DividendSound, Going, PaidInTime
  <1> QED BY <1>1, <1>2 DEF DividendsRight

\* Where an id names one action, a dividend goes to the holding at the start of its
\* record date, once, and is paid by the evening of its payment date, for any
\* sequence of trading days, actions, prices and signals.
THEOREM DividendsAlwaysRight ==
    ASSUME ActionIdsUnique
    PROVE  Spec => []DividendsRight
  <1>1. BacktestSound /\ Init => DividendSound
    <2> SUFFICES ASSUME BacktestSound, Init PROVE DividendSound
      OBVIOUS
    <2> QED BY SoundParts, DividendsStart DEF Init
  <1>2. BacktestSound /\ DividendSound /\ [Next]_vars => DividendSound'
    <2> SUFFICES ASSUME BacktestSound, DividendSound, [Next]_vars PROVE DividendSound'
      OBVIOUS
    <2>1. CASE ProcessCorporateActions
      BY <2>1, CorporateDividends
    <2>2. CASE ReleaseShares
      BY <2>2, ReleaseDividends
    <2>3. CASE PayDividends
      BY <2>3, PayDividendsKept
    <2>4. CASE ExecuteOpenOrders \/ ProcessExits
      BY <2>4, TradedDividends
    <2>5. CASE CancelOrders \/ MarkToMarket \/ GenerateNextSessionOrders \/ SaveBacktestRun
      BY <2>5, EveningDividends
    <2>6. CASE NewRun
      BY <2>6, NewRunDividends
    <2>7. CASE Rest \/ UNCHANGED vars
      BY <2>7, StutterDividends DEF Rest
    <2> QED BY <2>1, <2>2, <2>3, <2>4, <2>5, <2>6, <2>7 DEF Next
  <1>3. BacktestSound /\ DividendSound => DividendsRight
    BY DividendsCorrect
  <1> QED BY <1>1, <1>2, <1>3, BacktestInvariant, PTL DEF Spec

----------------------------------------------------------------------------
(* Orders: what is carried over an ex date.                                *)

\* An action changes what a share of a symbol is worth, after an order was placed.
Affects(a, symbol, created) ==
    a.type # "SYMBOL_CHANGE" /\ a.symbol = symbol /\ created < a.ex

\* No fill is of an order that was placed before an ex date it is not before.
Heeds(trades, list) ==
    \A k \in DOMAIN trades :
        LET f == trades[k]
        IN  /\ f.order \in DOMAIN list
            /\ \A a \in ToSet(actions) :
                  ~(Affects(a, f.symbol, list[f.order].created) /\ a.ex <= f.session)

\* An order that waits has the ex dates of its symbol ahead of it.
Fresh(list) ==
    \A i \in DOMAIN list : list[i].status = "PENDING" =>
        \A a \in ToSet(actions) :
            Affects(a, list[i].symbol, list[i].created) => a.ex > session

\* Of a symbol that is gone nothing is held, and nothing waits.
Gone(s, folio, list) ==
    /\ folio[s].total = 0
    /\ \A k \in DOMAIN list : list[k].symbol = s => list[k].status # "PENDING"

DelistedBy(day, folio, list) ==
    \A a \in ToSet(actions) : a.type = "DELISTING" /\ a.ex <= day
                                 => Gone(a.symbol, folio, list)

\* What trading keeps.
Heedful(b) ==
    /\ Heeds(b.fills, b.orders) /\ Fresh(b.orders)
    /\ DelistedBy(session, b.position, b.orders)

\* The dates of actions are numbers.
LEMMA ActionDates ==
    ASSUME actions \in Seq(CorporateAction)
    PROVE  \A a \in ToSet(actions) :
              /\ a \in CorporateAction /\ a.symbol \in Symbols /\ a.ex \in Nat
              /\ a.type \in ActionTypes
  <1>1. \A a \in ToSet(actions) : a \in CorporateAction
    BY DEF ToSet
  <1> QED BY <1>1, ActionFields DEF CorporateAction

\* An order's turn fills it today, and nothing of a symbol that is gone.
LEMMA TurnHeeds ==
    ASSUME NEW b \in TradeBook, NEW c, NEW i \in DOMAIN b.orders,
           b.orders[i].status = "PENDING", Turned(b, c, i), Heedful(b),
           c.fills \in Seq(TradeRow), session \in Nat,
           actions \in Seq(CorporateAction)
    PROVE  Heedful(c)
  <1> DEFINE s == b.orders[i].symbol
             old == b.fills
             new == c.fills
  <1>1. /\ DOMAIN c.orders = DOMAIN b.orders
        /\ \A k \in DOMAIN b.orders :
              /\ c.orders[k].symbol = b.orders[k].symbol
              /\ c.orders[k].created = b.orders[k].created
              /\ c.orders[k].status = "PENDING" => b.orders[k].status = "PENDING"
        /\ \A t \in Symbols \ {s} : c.position[t] = b.position[t]
    BY DEF Turned
  <1>2. \/ c.fills = b.fills
        \/ \E f \in TradeRow : /\ c.fills = Append(b.fills, f)
                               /\ f.order = i /\ f.symbol = s /\ f.session = session
    BY DEF Turned
  <1>3. /\ Heeds(b.fills, b.orders) /\ Fresh(b.orders)
        /\ DelistedBy(session, b.position, b.orders)
    BY DEF Heedful
  <1>4. old \in Seq(TradeRow)
    BY DEF TradeBook
  <1>5. \A a \in ToSet(actions) : a.symbol \in Symbols /\ a.ex \in Nat
    BY ActionDates
  <1>6. Fresh(c.orders)
    BY <1>1, <1>3 DEF Fresh
  <1>7. DelistedBy(session, c.position, c.orders)
    BY <1>1, <1>3, <1>5 DEF DelistedBy, Gone
  <1>8. Heeds(old, c.orders)
    BY <1>1, <1>3 DEF Heeds
  <1>9. Heeds(new, c.orders)
    <2>1. CASE new = old
      BY <1>8, <2>1
    <2>2. ASSUME NEW f \in TradeRow, new = Append(old, f), f.order = i, f.symbol = s,
                 f.session = session
          PROVE  Heeds(new, c.orders)
      <3> DEFINE n == Len(old) + 1
      <3>1. /\ DOMAIN new = DOMAIN old \cup {n}
            /\ \A k \in DOMAIN old : new[k] = old[k]
            /\ new[n] = f
        <4> HIDE DEF old
        <4>1. /\ Len(old) \in Nat /\ DOMAIN old = 1..Len(old)
              /\ DOMAIN Append(old, f) = 1..n
              /\ \A k \in 1..Len(old) : Append(old, f)[k] = old[k]
              /\ Append(old, f)[n] = f
          BY <1>4
        <4> HIDE DEF new
        <4> QED BY <2>2, <4>1
      <3>2. ASSUME NEW a \in ToSet(actions), Affects(a, s, c.orders[i].created)
            PROVE  ~(a.ex <= session)
        <4>1. a.ex > session
          BY <1>1, <1>3, <3>2 DEF Fresh
        <4> QED BY <1>5, <4>1
      <3> HIDE DEF old, new, n
      <3> QED BY <1>1, <1>8, <2>2, <3>1, <3>2 DEF Heeds
    <2> QED BY <1>2, <2>1, <2>2
  <1> QED BY <1>6, <1>7, <1>9 DEF Heedful

\* An order that is placed today affects nothing, unless its symbol is gone.
LEMMA PlacedHeeds ==
    ASSUME NEW b \in TradeBook, NEW o \in BacktestOrder, Heedful(b),
           o.created = session, session \in Nat, actions \in Seq(CorporateAction),
           \A a \in ToSet(actions) :
              ~(a.type = "DELISTING" /\ a.ex <= session /\ a.symbol = o.symbol)
    PROVE  Heedful(Placed(b, o))
  <1> DEFINE c == Placed(b, o)
             k == Len(b.orders) + 1
  <1>1. /\ c.position = b.position /\ c.fills = b.fills
        /\ DOMAIN c.orders = DOMAIN b.orders \cup {k}
        /\ \A i \in DOMAIN b.orders : c.orders[i] = b.orders[i]
        /\ c.orders[k] = o
    BY PlacedShape
  <1>2. /\ Heeds(b.fills, b.orders) /\ Fresh(b.orders)
        /\ DelistedBy(session, b.position, b.orders)
    BY DEF Heedful
  <1> HIDE DEF c, k
  <1>3. Fresh(c.orders)
    <2>1. \A a \in ToSet(actions) : Affects(a, o.symbol, o.created) => a.ex > session
      BY ActionDates DEF Affects
    <2> QED BY <1>1, <1>2, <2>1 DEF Fresh
  <1>4. Heeds(c.fills, c.orders)
    BY <1>1, <1>2 DEF Heeds
  <1>5. DelistedBy(session, c.position, c.orders)
    BY <1>1, <1>2 DEF DelistedBy, Gone
  <1> QED BY <1>3, <1>4, <1>5 DEF Heedful, c

\* An exit sells what is held, and so nothing of a symbol that is gone.
LEMMA ExitHeeds ==
    ASSUME NEW b, NEW n \in Nat, Trading(b, n), Market, NEW s \in Symbols,
           Heedful(b), session \in Nat, actions \in Seq(CorporateAction)
    PROVE  Heedful(Exited(b, s))
  <1>1. b \in TradeBook
    BY DEF Trading
  <1>2. Exited(b, s).fills \in Seq(TradeRow)
    BY ExitedKept DEF Trading, TradeBook
  <1>3. CASE Exited(b, s) = b
    BY <1>3
  <1>4. ASSUME NEW o \in BacktestOrder, b.position[s].total # 0, o.symbol = s,
               o.created = session,
               \/ Exited(b, s) = Placed(b, o)
               \/ /\ o.status = "PENDING"
                  /\ Turned(Placed(b, o), Exited(b, s), Len(b.orders) + 1)
        PROVE  Heedful(Exited(b, s))
    <2> DEFINE p == Placed(b, o)
               k == Len(b.orders) + 1
    <2>1. p \in TradeBook /\ k \in DOMAIN p.orders /\ p.orders[k] = o
      BY <1>1, PlacedShape
    <2>2. Heedful(p)
      <3>1. \A a \in ToSet(actions) :
               ~(a.type = "DELISTING" /\ a.ex <= session /\ a.symbol = o.symbol)
        BY <1>4 DEF Heedful, DelistedBy, Gone
      <3> QED BY <1>1, <1>4, <3>1, PlacedHeeds
    <2> HIDE DEF p, k
    <2>3. o.status = "PENDING" /\ Turned(p, Exited(b, s), k) => Heedful(Exited(b, s))
      BY <1>2, <2>1, <2>2, TurnHeeds
    <2> QED BY <1>4, <2>2, <2>3 DEF p, k
  <1> QED BY <1>3, <1>4, ExitTurns

\* The day's trading is heedful.
LEMMA OpenHeeds ==
    ASSUME NEW n \in Nat, NEW base, NEW idx, Trading(base, n), Market,
           idx \in Turns(n), Heedful(base), session \in Nat,
           actions \in Seq(CorporateAction)
    PROVE  Heedful(OpenIter(base, idx)[DOMAIN idx])
  <1> DEFINE V == {b \in TradeBook : Heedful(b)}
  <1>1. base \in V
    BY DEF Trading
  <1>2. ASSUME NEW v \in V, NEW i \in 1..n, Trading(v, n) PROVE OpenStep(v, i) \in V
    <2>1. i \in DOMAIN v.orders
      <3>1. v.orders \in Seq(BacktestOrder) /\ n <= Len(v.orders)
        BY <1>2 DEF Trading, TradeBook
      <3> QED BY <3>1
    <2>2. CASE v.orders[i].status = "PENDING"
      <3>1. OpenStep(v, i) = Executed(v, i)
        BY <2>2 DEF OpenStep, Pending
      <3>2. Turned(v, Executed(v, i), i)
        BY <1>2, <2>1, <2>2, ExecutedTurns
      <3>3. Executed(v, i) \in TradeBook
        BY <1>2, <2>1, <2>2, ExecutedKept DEF Trading
      <3>4. Heedful(Executed(v, i))
        BY <2>1, <2>2, <3>2, <3>3, TurnHeeds DEF TradeBook
      <3> QED BY <3>1, <3>3, <3>4
    <2>3. CASE v.orders[i].status # "PENDING"
      BY <2>3 DEF OpenStep, Pending
    <2> QED BY <2>2, <2>3
  <1> HIDE DEF V
  <1>3. OpenIter(base, idx)[DOMAIN idx] \in V
    BY <1>1, <1>2, OpenLoop
  <1> QED BY <1>3 DEF V

\* So are the exits.
LEMMA ExitsHeed ==
    ASSUME NEW n \in Nat, NEW base, Trading(base, n), Market, Heedful(base),
           session \in Nat, actions \in Seq(CorporateAction)
    PROVE  Heedful(ExitIter(base)[Symbols])
  <1> DEFINE V == {b \in TradeBook : Heedful(b)}
  <1>1. base \in V
    BY DEF Trading
  <1>2. ASSUME NEW v \in V, NEW s \in Symbols, Trading(v, n) PROVE Exited(v, s) \in V
    <2>1. Heedful(Exited(v, s))
      BY <1>2, ExitHeeds
    <2>2. Exited(v, s) \in TradeBook
      BY <1>2, ExitedKept DEF Trading
    <2> QED BY <2>1, <2>2
  <1> HIDE DEF V
  <1>3. ExitIter(base)[Symbols] \in V
    BY <1>1, <1>2, ExitLoop
  <1> QED BY <1>3 DEF V

\* The evening's orders are of symbols that are traded on, and placed that day.
LEMMA GeneratesHeed ==
    ASSUME NEW base \in TradeBook, NEW signals, Market,
           position \in [Symbols -> BacktestPosition], cash \in Int, peak \in Int,
           Later(Days, session) # {}, Heedful(base), session \in Nat,
           actions \in Seq(CorporateAction)
    PROVE  LET b == GenerateIter(base, signals)[Listed]
           IN  Heedful(b) /\ b.position = base.position /\ b.fills = base.fills
  <1> DEFINE V == {b \in TradeBook : /\ Heedful(b) /\ b.position = base.position
                                     /\ b.fills = base.fills}
  <1>1. base \in V
    OBVIOUS
  <1>2. ASSUME NEW v \in V, NEW s \in Listed PROVE Generated(v, s, signals[s]) \in V
    <2> DEFINE c == Generated(v, s, signals[s])
    <2>1. s \in Symbols
      BY ConfigAssumption
    <2>2. c \in TradeBook /\ Offered(v, c, s)
      <3>1. v \in TradeBook
        OBVIOUS
      <3> HIDE DEF V
      <3> QED BY <2>1, <3>1, GeneratedKept
    <2> HIDE DEF c
    <2>3. ASSUME NEW q \in BOOLEAN, c = [v EXCEPT !.raised = q] PROVE c \in V
      <3>1. c.orders = v.orders /\ c.position = v.position /\ c.fills = v.fills
        BY <2>3 DEF TradeBook
      <3> QED BY <2>2, <3>1 DEF Heedful
    <2>4. ASSUME NEW o \in BacktestOrder, o.symbol = s, o.created = session,
                 ~is_delisted(s), c = [v EXCEPT !.orders = Append(@, o)]
          PROVE  c \in V
      <3>1. c = Placed(v, o)
        BY <2>4 DEF Placed
      <3>2. \A a \in ToSet(actions) :
               ~(a.type = "DELISTING" /\ a.ex <= session /\ a.symbol = o.symbol)
        BY <2>4 DEF is_delisted
      <3>3. Heedful(Placed(v, o))
        BY <2>4, <3>2, PlacedHeeds
      <3>4. Placed(v, o).position = v.position /\ Placed(v, o).fills = v.fills
        BY PlacedShape
      <3> QED BY <2>2, <3>1, <3>3, <3>4
    <2> QED BY <2>2, <2>3, <2>4, <1>2 DEF c, Offered
  <1>3. \A v \in V \cap TradeBook, s \in Listed : Generated(v, s, signals[s]) \in V
    BY <1>2
  <1> HIDE DEF V
  <1>4. GenerateIter(base, signals)[Listed] \in V \cap TradeBook
    BY <1>1, <1>3, GenerateLoop
  <1> QED BY <1>4 DEF V

\* When the actions of t have had their turn, orders have changed their symbol at
\* most for one that an action of the day made, and what was delisted is gone.
Shifted(t, b, day) ==
    /\ DOMAIN b.orders = DOMAIN orders
    /\ \A k \in DOMAIN orders :
          /\ b.orders[k].created = orders[k].created
          /\ b.orders[k].status = "PENDING" => orders[k].status = "PENDING"
          /\ \/ b.orders[k].symbol = orders[k].symbol
             \/ \E j \in t : /\ actions[j].type = "SYMBOL_CHANGE"
                             /\ actions[j].ex = day
                             /\ actions[j].to = b.orders[k].symbol
    /\ \A a \in ToSet(actions) :
          a.type = "DELISTING" /\ a.ex < day => Gone(a.symbol, b.position, b.orders)
    /\ ~b.raised => \A j \in t :
          actions[j].type = "DELISTING" /\ actions[j].ex = day
             => Gone(actions[j].symbol, b.position, b.orders)

\* An action leaves alone what is gone, unless it gives a symbol that name.
LEMMA GoneStays ==
    ASSUME NEW b, NEW c, NEW a, Acted(b, c, a), NEW s \in Symbols,
           Gone(s, b.position, b.orders), ~(a.type = "SYMBOL_CHANGE" /\ a.to = s)
    PROVE  Gone(s, c.position, c.orders)
  BY DEF Gone, Acted

\* The turn of an action, on whatever day it is.
LEMMA ProcessedShifts ==
    ASSUME NewSymbolsAfresh, actions \in ActionLists,
           actions \in Seq(CorporateAction), NEW t \in SUBSET DOMAIN actions,
           NEW x \in t, NEW b \in Acting, NEW day \in Nat,
           NEW today \in [Symbols -> Bar], Shifted(t \ {x}, b, day)
    PROVE  Shifted(t, Processed(b, actions[x], day, today), day)
  <1> DEFINE a == actions[x]
             r == IF a.type = "CASH_DIVIDEND" /\ a.record = day
                  THEN Entitled(b, a, day) ELSE b
             c == Processed(b, a, day, today)
  <1>1. a \in CorporateAction /\ a \in ToSet(actions)
    BY DEF ToSet
  <1>2. \A d \in ToSet(actions) : d.symbol \in Symbols /\ d.ex \in Nat
    BY ActionDates
  <1>3. \A d \in ToSet(actions) :
          /\ a.type = "SYMBOL_CHANGE" /\ a.ex = day /\ a.to = d.symbol
          /\ d.type = "DELISTING"
          => day < d.ex
    BY <1>1 DEF NewSymbolsAfresh
  <1>4. \A j \in t : j = x \/ j \in t \ {x}
    OBVIOUS
  <1>5. \A j \in t : actions[j] \in ToSet(actions)
    BY DEF ToSet
  <1>6. CASE b.raised
    <2>1. c = b
      BY <1>6 DEF Processed
    <2> HIDE DEF c
    <2>2. Shifted(t, b, day)
      BY <1>6 DEF Shifted
    <2> QED BY <2>1, <2>2 DEF c
  <1>7. CASE ~b.raised
    <2>1. r.position = b.position /\ r.orders = b.orders /\ ~r.raised
      BY <1>1, <1>7, EntitledShape
    <2>2. \/ a.ex = day /\ Acted(r, c, a)
          \/ a.ex # day /\ c = r
      BY <1>1, <1>7, ProcessedActs
    <2>3. /\ DOMAIN r.orders = DOMAIN orders
          /\ \A k \in DOMAIN orders :
                /\ r.orders[k].created = orders[k].created
                /\ r.orders[k].status = "PENDING" => orders[k].status = "PENDING"
                /\ \/ r.orders[k].symbol = orders[k].symbol
                   \/ \E j \in t : /\ actions[j].type = "SYMBOL_CHANGE"
                                   /\ actions[j].ex = day
                                   /\ actions[j].to = r.orders[k].symbol
          /\ \A d \in ToSet(actions) :
                d.type = "DELISTING" /\ d.ex < day
                   => Gone(d.symbol, r.position, r.orders)
          /\ \A j \in t \ {x} :
                actions[j].type = "DELISTING" /\ actions[j].ex = day
                   => Gone(actions[j].symbol, r.position, r.orders)
      BY <1>7, <2>1 DEF Shifted
    <2> HIDE DEF r, c, a
    <2>4. CASE a.ex # day /\ c = r
      <3>1. \A j \in t :
              actions[j].type = "DELISTING" /\ actions[j].ex = day
                 => Gone(actions[j].symbol, r.position, r.orders)
        BY <1>4, <2>3, <2>4 DEF a
      <3> QED BY <2>3, <2>4, <3>1 DEF Shifted, c, a
    <2>5. CASE a.ex = day /\ Acted(r, c, a)
      <3>1. \A d \in ToSet(actions) :
              d.type = "DELISTING" /\ d.ex <= day /\ Gone(d.symbol, r.position, r.orders)
                 => Gone(d.symbol, c.position, c.orders)
        <4> SUFFICES ASSUME NEW d \in ToSet(actions), d.type = "DELISTING",
                            d.ex <= day, Gone(d.symbol, r.position, r.orders)
                     PROVE  Gone(d.symbol, c.position, c.orders)
          OBVIOUS
        <4>1. ~(a.type = "SYMBOL_CHANGE" /\ a.to = d.symbol)
          BY <1>2, <1>3, <2>5
        <4> QED BY <1>2, <2>5, <4>1, GoneStays
      <3>2. \A d \in ToSet(actions) :
              d.type = "DELISTING" /\ d.ex < day => Gone(d.symbol, c.position, c.orders)
        BY <1>2, <2>3, <3>1
      <3>3. ~c.raised => \A j \in t :
              actions[j].type = "DELISTING" /\ actions[j].ex = day
                 => Gone(actions[j].symbol, c.position, c.orders)
        <4> SUFFICES ASSUME ~c.raised, NEW j \in t, actions[j].type = "DELISTING",
                            actions[j].ex = day
                     PROVE  Gone(actions[j].symbol, c.position, c.orders)
          OBVIOUS
        <4>1. CASE j = x
          BY <2>5, <4>1 DEF Acted, Gone, a
        <4>2. CASE j \in t \ {x}
          BY <1>5, <2>3, <3>1, <4>2
        <4> QED BY <1>4, <4>1, <4>2
      <3>4. /\ DOMAIN c.orders = DOMAIN orders
            /\ \A k \in DOMAIN orders :
                  /\ c.orders[k].created = orders[k].created
                  /\ c.orders[k].status = "PENDING" => orders[k].status = "PENDING"
        BY <2>3, <2>5 DEF Acted
      <3>5. \A k \in DOMAIN orders :
                  \/ c.orders[k].symbol = orders[k].symbol
                  \/ \E j \in t : /\ actions[j].type = "SYMBOL_CHANGE"
                                  /\ actions[j].ex = day
                                  /\ actions[j].to = c.orders[k].symbol
        <4> SUFFICES ASSUME NEW k \in DOMAIN orders
                     PROVE  \/ c.orders[k].symbol = orders[k].symbol
                            \/ \E j \in t : /\ actions[j].type = "SYMBOL_CHANGE"
                                            /\ actions[j].ex = day
                                            /\ actions[j].to = c.orders[k].symbol
          OBVIOUS
        <4>1. \/ c.orders[k].symbol = r.orders[k].symbol
              \/ a.type = "SYMBOL_CHANGE" /\ c.orders[k].symbol = a.to
          BY <2>3, <2>5 DEF Acted
        <4> QED BY <2>3, <2>5, <4>1 DEF a
      <3> QED BY <3>2, <3>3, <3>4, <3>5 DEF Shifted, c, a
    <2> QED BY <2>2, <2>4, <2>5
  <1> QED BY <1>6, <1>7

\* All the actions of a day.
LEMMA ActionsShift ==
    ASSUME NewSymbolsAfresh, actions \in ActionLists,
           actions \in Seq(CorporateAction), NEW base \in Acting, NEW day \in Nat,
           NEW today \in [Symbols -> Bar], Shifted({}, base, day)
    PROVE  Shifted(DOMAIN actions,
                   ActionIter(base, actions, day, today)[DOMAIN actions], day)
  <1> DEFINE R == {p \in (SUBSET DOMAIN actions) \X Acting : Shifted(p[1], p[2], day)}
  <1>1. <<{}, base>> \in R
    OBVIOUS
  <1>2. \A t \in SUBSET DOMAIN actions : \A x \in t : \A v \in Acting :
          <<t \ {x}, v>> \in R => <<t, Processed(v, actions[x], day, today)>> \in R
    <2> SUFFICES ASSUME NEW t \in SUBSET DOMAIN actions, NEW x \in t, NEW v \in Acting,
                        <<t \ {x}, v>> \in R
                 PROVE  <<t, Processed(v, actions[x], day, today)>> \in R
      OBVIOUS
    <2>1. Shifted(t, Processed(v, actions[x], day, today), day)
      BY ProcessedShifts
    <2>2. Processed(v, actions[x], day, today) \in Acting
      <3>1. actions[x] \in CorporateAction
        OBVIOUS
      <3> QED BY <3>1, ProcessedKept
    <2> QED BY <2>1, <2>2
  <1>3. ActionsCarry(R, base, actions, day, today)
    BY <1>1, <1>2 DEF ActionsCarry
  <1> HIDE DEF R
  <1>4. <<DOMAIN actions, ActionIter(base, actions, day, today)[DOMAIN actions]>> \in R
    BY <1>3, ActionLoop
  <1> QED BY <1>4 DEF R

\* When the actions of t have cancelled, none of their symbols' orders waits.
Cleared(t, list) ==
    /\ DOMAIN list = DOMAIN orders
    /\ \A k \in DOMAIN orders :
          /\ list[k].created = orders[k].created /\ list[k].symbol = orders[k].symbol
          /\ list[k].status = "PENDING" =>
                /\ orders[k].status = "PENDING"
                /\ \A j \in t : actions[j].ex = session /\ actions[j].type \in Cancelling
                                   => actions[j].symbol # list[k].symbol

\* All the actions of a day cancel.
LEMMA CancelsClear ==
    ASSUME actions \in Seq(CorporateAction), orders \in Seq(BacktestOrder)
    PROVE  Cleared(DOMAIN actions, CancelIter(orders, actions)[DOMAIN actions])
  <1> DEFINE R == {p \in (SUBSET DOMAIN actions) \X Seq(BacktestOrder) :
                     Cleared(p[1], p[2])}
             turn(v, x) == IF actions[x].ex = session /\ actions[x].type \in Cancelling
                           THEN CancelledOrders(v, actions[x].symbol) ELSE v
  <1>1. <<{}, orders>> \in R
    BY DEF Cleared
  <1>2. \A t \in SUBSET DOMAIN actions : \A x \in t : \A v \in Seq(BacktestOrder) :
          <<t \ {x}, v>> \in R => <<t, turn(v, x)>> \in R
    <2> SUFFICES ASSUME NEW t \in SUBSET DOMAIN actions, NEW x \in t,
                        NEW v \in Seq(BacktestOrder), Cleared(t \ {x}, v)
                 PROVE  <<t, turn(v, x)>> \in R
      OBVIOUS
    <2> DEFINE w == CancelledOrders(v, actions[x].symbol)
    <2>1. w \in Seq(BacktestOrder)
      BY CancelledType
    <2>2. /\ DOMAIN w = DOMAIN v
          /\ \A k \in DOMAIN v :
                /\ w[k].created = v[k].created /\ w[k].symbol = v[k].symbol
                /\ w[k].status = "PENDING" =>
                      v[k].status = "PENDING" /\ v[k].symbol # actions[x].symbol
      BY CancelledShape
    <2>3. \A j \in t : j = x \/ j \in t \ {x}
      OBVIOUS
    <2> HIDE DEF w
    <2>4. Cleared(t, w)
      BY <2>2, <2>3 DEF Cleared
    <2>5. ~(actions[x].ex = session /\ actions[x].type \in Cancelling) => Cleared(t, v)
      BY <2>3 DEF Cleared
    <2> QED BY <2>1, <2>4, <2>5 DEF w
  <1>3. CancelsCarry(R, orders, actions)
    BY <1>1, <1>2 DEF CancelsCarry
  <1> HIDE DEF R
  <1>4. <<DOMAIN actions, CancelIter(orders, actions)[DOMAIN actions]>> \in R
    BY <1>3, CancelLoop
  <1> QED BY <1>4 DEF R

\* An order that waits has the ex dates of its symbol ahead of it, today's too
\* until the day's actions have cancelled.
Waiting ==
    \A i \in DOMAIN orders : orders[i].status = "PENDING" =>
        \A a \in ToSet(actions) :
            Affects(a, orders[i].symbol, orders[i].created) =>
                \/ a.ex > session
                \/ a.ex = session /\ pc \in {"RELEASE", "DIVIDENDS", "CANCEL"}

\* The first day begins with nothing, and no other day is 0.
Started ==
    /\ pc = "CORPORATE_ACTIONS" /\ session = 0 =>
          orders = <<>> /\ \A s \in Symbols : position[s].total = 0
    /\ pc # "CORPORATE_ACTIONS" => session # 0

\* What the orders rest on.
OrdersSound ==
    /\ Heeds(fills, orders)
    /\ Going => Waiting /\ Started /\ DelistedBy(session, position, orders)

\* They stay sound as long as nothing trades, cancels or begins.
LEMMA OrdersStay ==
    ASSUME OrdersSound, Going, UNCHANGED <<session, actions, fills, orders>>,
           actions \in Seq(CorporateAction),
           \A s \in Symbols : position'[s].total = position[s].total,
           pc \in {"RELEASE", "DIVIDENDS", "CANCEL"}
              => pc' \in {"RELEASE", "DIVIDENDS", "CANCEL"},
           pc' = "CORPORATE_ACTIONS" <=> pc = "CORPORATE_ACTIONS"
    PROVE  OrdersSound'
  <1>1. Heeds(fills, orders)'
    BY DEF OrdersSound, Heeds, Affects
  <1>2. Waiting'
    BY DEF OrdersSound, Waiting, Affects
  <1>3. Started'
    BY DEF OrdersSound, Started
  <1>4. DelistedBy(session, position, orders)'
    <2>1. \A a \in ToSet(actions) : a.symbol \in Symbols
      BY ActionDates
    <2> QED BY <2>1 DEF OrdersSound, DelistedBy, Gone
  <1> QED BY <1>1, <1>2, <1>3, <1>4 DEF OrdersSound

\* At the start there are neither orders nor shares.
LEMMA OrdersStart ==
    ASSUME pc = "CORPORATE_ACTIONS", session = 0, fills = <<>>, orders = <<>>,
           position = [s \in Symbols |-> NoPosition],
           actions \in Seq(CorporateAction)
    PROVE  OrdersSound
  <1>1. \A s \in Symbols : position[s].total = 0
    BY DEF NoPosition
  <1>2. Heeds(fills, orders) /\ Waiting /\ Started
    BY <1>1 DEF Heeds, Waiting, Started
  <1>3. DelistedBy(session, position, orders)
    <2>1. \A a \in ToSet(actions) : a.symbol \in Symbols
      BY ActionDates
    <2> QED BY <1>1, <2>1 DEF DelistedBy, Gone
  <1> QED BY <1>2, <1>3 DEF OrdersSound

\* Another run starts from nothing, like the first.
LEMMA NewRunOrders ==
    ASSUME NewRun
    PROVE  OrdersSound'
  <1>1. /\ pc' = "CORPORATE_ACTIONS" /\ session' = 0 /\ fills' = <<>>
        /\ orders' = <<>> /\ position' = [s \in Symbols |-> NoPosition]
        /\ actions' \in Seq(CorporateAction)
    BY ConfigAssumption DEF NewRun
  <1>2. \A s \in Symbols : position'[s].total = 0
    BY <1>1 DEF NoPosition
  <1>3. Heeds(fills, orders)' /\ Waiting' /\ Started'
    BY <1>1, <1>2 DEF Heeds, Waiting, Started
  <1>4. DelistedBy(session, position, orders)'
    <2>1. \A a \in ToSet(actions') : a \in CorporateAction
      BY <1>1 DEF ToSet
    <2>2. \A a \in ToSet(actions') : a.symbol \in Symbols
      BY <2>1, ActionFields
    <2> QED BY <1>1, <1>2, <2>2 DEF DelistedBy, Gone
  <1> QED BY <1>3, <1>4 DEF OrdersSound

\* A day begins with its corporate actions: none was skipped since the day before,
\* and a name that is taken today has no actions yet.
LEMMA CorporateOrders ==
    ASSUME ExDatesTraded, NewSymbolsAfresh, BacktestSound, OrdersSound,
           ProcessCorporateActions
    PROVE  OrdersSound'
  <1> DEFINE day == Min(Later(Period, session))
             start == [cash |-> cash, position |-> position, orders |-> orders,
                       entitlements |-> entitlements, raised |-> FALSE]
             after(today) == ActionIter(start, actions, day, today)[DOMAIN actions]
  <1>1. PICK today \in BarSets :
          /\ pc = "CORPORATE_ACTIONS"
          /\ session' = day
          /\ position' = after(today).position
          /\ orders' = after(today).orders
          /\ pc' = IF after(today).raised THEN "FAILED" ELSE "RELEASE"
          /\ UNCHANGED <<fills, actions>>
    BY DEF ProcessCorporateActions, FoldLeft, MapThenFoldSet, ActionIter, Config
  <1>2. /\ session \in Nat /\ actions \in Seq(CorporateAction)
        /\ Period \subseteq Nat /\ IsFiniteSet(Period) /\ actions \in ActionLists
        /\ session \in {0} \cup Period
    BY SoundParts DEF BacktestSound, Types
  <1>3. /\ day \in Period /\ day \in Nat /\ day > session
        /\ \A d \in Period : day <= d \/ d <= session
    <2>1. /\ Later(Period, session) \subseteq Period
          /\ Later(Period, session) # {}
      BY <1>1 DEF Later, BacktestSound, DaysPass
    <2>2. IsFiniteSet(Later(Period, session)) /\ Later(Period, session) \subseteq Nat
      BY <1>2, <2>1, FS_Subset
    <2>3. /\ day \in Later(Period, session)
          /\ \A d \in Later(Period, session) : day <= d
      BY <2>1, <2>2, MinIn
    <2> HIDE DEF day
    <2>4. \A d \in Period : d \in Later(Period, session) \/ d <= session
      BY <1>2 DEF Later
    <2> QED BY <1>2, <2>3, <2>4 DEF Later
  <1>4. today \in [Symbols -> Bar]
    BY ConfigAssumption
  <1>5. start \in Acting
    BY DEF BacktestSound, Types, Acting, ActionBook
  <1>6. /\ Heeds(fills, orders) /\ Waiting /\ Started
        /\ DelistedBy(session, position, orders)
    BY <1>1 DEF OrdersSound, Going
  <1> HIDE DEF day
  <1>7. \A a \in ToSet(actions) :
           /\ a.symbol \in Symbols /\ a.ex \in Nat /\ a.type \in ActionTypes
           /\ \E j \in DOMAIN actions : actions[j] = a
    BY <1>2, ActionDates DEF ToSet
  <1>8. \A a \in ToSet(actions) :
           a.ex \in Period \/ (\A d \in Period : a.ex < d) \/ (\A d \in Period : a.ex > d)
    BY <1>2 DEF ExDatesTraded
  <1>9. \A a \in ToSet(actions) : a.ex > session /\ session # 0 => a.ex >= day
    <2> SUFFICES ASSUME NEW a \in ToSet(actions), a.ex > session, session \in Period
                 PROVE  a.ex >= day
      BY <1>2
    <2>1. a.ex \in Nat
      BY <1>7
    <2>2. CASE a.ex \in Period
      BY <1>2, <1>3, <2>1, <2>2
    <2>3. CASE \A d \in Period : a.ex < d
      BY <1>2, <2>1, <2>3
    <2>4. CASE \A d \in Period : a.ex > d
      BY <1>3, <2>1, <2>4
    <2> QED BY <1>8, <2>2, <2>3, <2>4
  <1>10. \A a \in ToSet(actions) :
            a.type = "DELISTING" /\ a.ex < day => Gone(a.symbol, position, orders)
    <2> SUFFICES ASSUME NEW a \in ToSet(actions), a.type = "DELISTING", a.ex < day
                 PROVE  Gone(a.symbol, position, orders)
      OBVIOUS
    <2>1. a.ex \in Nat /\ a.symbol \in Symbols
      BY <1>7
    <2>2. CASE session = 0
      BY <1>1, <1>6, <2>1, <2>2 DEF Started, Gone
    <2>3. CASE session # 0
      <3>1. a.ex <= session
        BY <1>2, <1>3, <1>9, <2>1, <2>3
      <3> QED BY <1>6, <3>1 DEF DelistedBy
    <2> QED BY <2>2, <2>3
  <1>11. Shifted({}, start, day)
    BY <1>10 DEF Shifted
  <1> DEFINE b == after(today)
  <1>12. Shifted(DOMAIN actions, b, day)
    <2> HIDE DEF start
    <2> QED BY <1>2, <1>3, <1>4, <1>5, <1>11, ActionsShift
  <1>13. /\ position' = b.position /\ orders' = b.orders /\ session' = day
         /\ pc' = IF b.raised THEN "FAILED" ELSE "RELEASE"
    BY <1>1
  <1> HIDE DEF b
  <1>14. /\ DOMAIN b.orders = DOMAIN orders
         /\ \A k \in DOMAIN orders :
               /\ b.orders[k].created = orders[k].created
               /\ b.orders[k].status = "PENDING" => orders[k].status = "PENDING"
               /\ \/ b.orders[k].symbol = orders[k].symbol
                  \/ \E j \in DOMAIN actions :
                        /\ actions[j].type = "SYMBOL_CHANGE" /\ actions[j].ex = day
                        /\ actions[j].to = b.orders[k].symbol
    BY <1>12 DEF Shifted
  <1>15. Heeds(fills, orders)'
    <2>1. Heeds(fills, b.orders)
      BY <1>6, <1>14 DEF Heeds
    <2> QED BY <1>1, <1>13, <2>1 DEF Heeds, Affects
  <1>16. CASE b.raised
    BY <1>13, <1>15, <1>16 DEF OrdersSound, Going
  <1>17. CASE ~b.raised
    <2>1. \A k \in DOMAIN orders : b.orders[k].status = "PENDING" =>
             \A a \in ToSet(actions) :
                Affects(a, b.orders[k].symbol, b.orders[k].created) => a.ex >= day
      <3> SUFFICES ASSUME NEW k \in DOMAIN orders, b.orders[k].status = "PENDING",
                          NEW a \in ToSet(actions),
                          Affects(a, b.orders[k].symbol, b.orders[k].created)
                   PROVE  a.ex >= day
        OBVIOUS
      <3>1. CASE b.orders[k].symbol = orders[k].symbol
        <4>1. orders[k].status = "PENDING"
              /\ Affects(a, orders[k].symbol, orders[k].created)
          BY <1>14, <3>1
        <4>2. a.ex > session
          BY <1>1, <1>6, <4>1 DEF Waiting
        <4>3. session # 0
          BY <1>1, <1>6 DEF Started
        <4> QED BY <1>9, <4>2, <4>3
      <3>2. CASE \E j \in DOMAIN actions :
                    /\ actions[j].type = "SYMBOL_CHANGE" /\ actions[j].ex = day
                    /\ actions[j].to = b.orders[k].symbol
        <4>1. PICK c \in ToSet(actions) :
                 c.type = "SYMBOL_CHANGE" /\ c.ex = day /\ c.to = a.symbol
          BY <3>2 DEF ToSet, Affects
        <4>2. day < a.ex
          BY <1>2, <4>1 DEF NewSymbolsAfresh, Affects
        <4> QED BY <1>3, <1>7, <4>2
      <3> QED BY <1>14, <3>1, <3>2
    <2>2. Waiting'
      <3>1. \A a \in ToSet(actions) : a.ex >= day => a.ex > day \/ a.ex = day
        BY <1>3, <1>7
      <3> QED BY <1>1, <1>13, <1>14, <1>17, <2>1, <3>1 DEF Waiting, Affects
    <2>3. Started'
      BY <1>2, <1>3, <1>13, <1>17 DEF Started
    <2>4. DelistedBy(session, position, orders)'
      <3> SUFFICES ASSUME NEW a \in ToSet(actions), a.type = "DELISTING", a.ex <= day
                   PROVE  Gone(a.symbol, b.position, b.orders)
        BY <1>1, <1>13 DEF DelistedBy
      <3>1. CASE a.ex < day
        BY <1>12, <3>1 DEF Shifted
      <3>2. CASE a.ex = day
        BY <1>7, <1>12, <1>17, <3>2 DEF Shifted
      <3> QED BY <1>3, <1>7, <3>1, <3>2
    <2> QED BY <1>15, <2>2, <2>3, <2>4 DEF OrdersSound
  <1> QED BY <1>16, <1>17

\* The day's actions cancel: no order of their symbols waits any longer.
LEMMA CancelOrdersHeeds ==
    ASSUME BacktestSound, OrdersSound, CancelOrders
    PROVE  OrdersSound'
  <1> DEFINE list == CancelIter(orders, actions)[DOMAIN actions]
  <1>1. /\ pc = "CANCEL" /\ pc' = "OPEN" /\ orders' = list
        /\ UNCHANGED <<session, actions, fills, position>>
    BY DEF CancelOrders, Config, FoldLeft, MapThenFoldSet, CancelIter
  <1>2. orders \in Seq(BacktestOrder) /\ actions \in Seq(CorporateAction)
    BY SoundParts DEF BacktestSound, Types
  <1>3. Cleared(DOMAIN actions, list)
    BY <1>2, CancelsClear
  <1> HIDE DEF list
  <1>4. /\ Heeds(fills, orders) /\ Waiting /\ Started
        /\ DelistedBy(session, position, orders)
    BY <1>1 DEF OrdersSound, Going
  <1>5. \A a \in ToSet(actions) : /\ a.symbol \in Symbols /\ a.type \in ActionTypes
                                  /\ \E j \in DOMAIN actions : actions[j] = a
    BY <1>2, ActionDates DEF ToSet
  <1>6. Heeds(fills, orders)'
    <2>1. Heeds(fills, list)
      BY <1>3, <1>4 DEF Heeds, Cleared
    <2> QED BY <1>1, <2>1 DEF Heeds, Affects
  <1>7. Waiting'
    <2> SUFFICES ASSUME NEW i \in DOMAIN list, list[i].status = "PENDING",
                        NEW a \in ToSet(actions),
                        Affects(a, list[i].symbol, list[i].created)
                 PROVE  a.ex > session
      BY <1>1 DEF Waiting, Affects
    <2>1. /\ i \in DOMAIN orders /\ orders[i].status = "PENDING"
          /\ Affects(a, orders[i].symbol, orders[i].created)
      BY <1>3 DEF Cleared
    <2>2. a.ex > session \/ a.ex = session
      BY <1>4, <2>1 DEF Waiting
    <2>3. a.type \in Cancelling /\ a.symbol = list[i].symbol
      BY <1>5 DEF Affects, Cancelling
    <2>4. a.ex # session
      BY <1>3, <1>5, <2>1, <2>3 DEF Cleared
    <2> QED BY <2>2, <2>4
  <1>8. Started'
    BY <1>1, <1>4 DEF Started
  <1>9. DelistedBy(session, position, orders)'
    BY <1>1, <1>3, <1>4 DEF DelistedBy, Gone, Cleared
  <1> QED BY <1>6, <1>7, <1>8, <1>9 DEF OrdersSound

\* What trading starts from is heedful.
LEMMA BookHeeds ==
    ASSUME OrdersSound, pc \in {"OPEN", "EXITS", "SIGNALS"}
    PROVE  Heedful(book) /\ session # 0
  <1>1. /\ Heeds(fills, orders) /\ Waiting /\ Started
        /\ DelistedBy(session, position, orders)
    BY DEF OrdersSound, Going
  <1>2. Fresh(orders)
    BY <1>1 DEF Waiting, Fresh
  <1> QED BY <1>1, <1>2 DEF Heedful, book, Started

\* What trading leaves is sound.
LEMMA HeedfulSound ==
    ASSUME NEW b, Heedful(b), session # 0,
           position' = b.position, orders' = b.orders, fills' = b.fills,
           UNCHANGED <<session, actions>>,
           pc' \notin {"RELEASE", "DIVIDENDS", "CANCEL"}
    PROVE  OrdersSound'
  <1>1. Heeds(fills, orders)'
    BY DEF Heedful, Heeds, Affects
  <1>2. Waiting'
    BY DEF Heedful, Fresh, Waiting, Affects
  <1>3. Started'
    BY DEF Started
  <1>4. DelistedBy(session, position, orders)'
    BY DEF Heedful, DelistedBy, Gone
  <1> QED BY <1>1, <1>2, <1>3, <1>4 DEF OrdersSound

\* The steps of a day that trade.
LEMMA TradedOrders ==
    ASSUME BacktestSound, OrdersSound, ExecuteOpenOrders \/ ProcessExits
    PROVE  OrdersSound'
  <1>1. Market /\ session \in Nat /\ actions \in Seq(CorporateAction)
    BY SoundParts
  <1>2. Heedful(book) /\ session # 0
    BY BookHeeds DEF ExecuteOpenOrders, ProcessExits
  <1>3. CASE ExecuteOpenOrders
    <2> DEFINE idx == [i \in DOMAIN orders |-> i]
               n == Len(orders)
               b == OpenIter(book, idx)[DOMAIN idx]
    <2>1. pc = "OPEN" /\ Commit(b, "EXITS")
      BY <1>3 DEF ExecuteOpenOrders, FoldLeft, MapThenFoldSet, OpenIter, OpenStep
    <2>2. n \in Nat /\ idx \in Turns(n)
      BY DEF BacktestSound, Types, Turns
    <2>3. Trading(book, n)
      BY <2>1, OpenBook
    <2> HIDE DEF idx, n
    <2>4. Heedful(b)
      BY <1>1, <1>2, <2>2, <2>3, OpenHeeds
    <2> HIDE DEF b
    <2>5. /\ position' = b.position /\ fills' = b.fills /\ orders' = b.orders
          /\ pc' = IF b.raised THEN "FAILED" ELSE "EXITS"
          /\ UNCHANGED <<session, actions>>
      BY <2>1 DEF Commit, Config
    <2> QED BY <1>2, <2>4, <2>5, HeedfulSound
  <1>4. CASE ProcessExits
    <2> DEFINE b == ExitIter(book)[Symbols]
    <2>1. pc = "EXITS" /\ Commit(b, "CLOSE")
      BY <1>4 DEF ProcessExits, MapThenFoldSet, ExitIter
    <2>2. Trading(book, 0)
      BY <2>1, ExitsBook
    <2>3. Heedful(b)
      BY <1>1, <1>2, <2>2, ExitsHeed
    <2> HIDE DEF b
    <2>4. /\ position' = b.position /\ fills' = b.fills /\ orders' = b.orders
          /\ pc' = IF b.raised THEN "FAILED" ELSE "CLOSE"
          /\ UNCHANGED <<session, actions>>
      BY <2>1 DEF Commit, Config
    <2> QED BY <1>2, <2>3, <2>4, HeedfulSound
  <1> QED BY <1>3, <1>4

\* The evening's orders.
LEMMA GenerateOrders ==
    ASSUME BacktestSound, OrdersSound, GenerateNextSessionOrders
    PROVE  OrdersSound'
  <1> DEFINE after(signals) == IF Later(Days, session) = {} THEN book
                               ELSE GenerateIter(book, signals)[Listed]
  <1>1. PICK signals \in SignalSets :
          /\ pc = "SIGNALS"
          /\ orders' = after(signals).orders
          /\ pc' = IF after(signals).raised THEN "FAILED"
                   ELSE IF Later(Period, session) = {} THEN "COMPLETED"
                   ELSE "CORPORATE_ACTIONS"
          /\ UNCHANGED <<session, position, fills, actions>>
    BY DEF GenerateNextSessionOrders, Config, MapThenFoldSet, GenerateIter
  <1>2. /\ position \in [Symbols -> BacktestPosition] /\ cash \in Int /\ peak \in Int
        /\ Market /\ session \in Nat /\ actions \in Seq(CorporateAction)
    BY SoundParts DEF BacktestSound, Types
  <1>3. book \in TradeBook
    BY DEF book, TradeBook, BacktestSound, Types
  <1>4. Heedful(book) /\ session # 0
    BY <1>1, BookHeeds
  <1> DEFINE b == after(signals)
  <1>5. Heedful(b) /\ b.position = book.position /\ b.fills = book.fills
    <2>1. CASE Later(Days, session) = {}
      BY <1>4, <2>1
    <2>2. CASE Later(Days, session) # {}
      <3>1. /\ Heedful(GenerateIter(book, signals)[Listed])
            /\ GenerateIter(book, signals)[Listed].position = book.position
            /\ GenerateIter(book, signals)[Listed].fills = book.fills
        BY <1>2, <1>3, <1>4, <2>2, GeneratesHeed
      <3> QED BY <2>2, <3>1
    <2> QED BY <2>1, <2>2
  <1>6. orders' = b.orders /\ pc' \in {"FAILED", "COMPLETED", "CORPORATE_ACTIONS"}
    BY <1>1
  <1>7. book.position = position /\ book.fills = fills
    BY DEF book
  <1> HIDE DEF b
  <1> QED BY <1>1, <1>4, <1>5, <1>6, <1>7, HeedfulSound

\* The steps that leave orders, fills and the shares of positions alone.
LEMMA OtherOrders ==
    ASSUME BacktestSound, OrdersSound,
           ReleaseShares \/ PayDividends \/ MarkToMarket \/ SaveBacktestRun
    PROVE  OrdersSound'
  <1>1. actions \in Seq(CorporateAction)
    BY SoundParts
  <1>2. CASE ReleaseShares
    <2>1. /\ pc = "RELEASE" /\ pc' = "DIVIDENDS"
          /\ UNCHANGED <<session, actions, fills, orders>>
      BY <1>2 DEF ReleaseShares, Config
    <2>2. \A s \in Symbols : position'[s].total = position[s].total
      BY <1>2, ReleaseTotals
    <2> QED BY <1>1, <2>1, <2>2, OrdersStay DEF Going
  <1>3. CASE PayDividends
    BY <1>1, <1>3, OrdersStay DEF PayDividends, Config, Going
  <1>4. CASE MarkToMarket
    <2>1. /\ pc = "CLOSE" /\ pc' = "SIGNALS"
          /\ UNCHANGED <<session, actions, fills, orders>>
      BY <1>4 DEF MarkToMarket, Config
    <2>2. \A s \in Symbols : position'[s].total = position[s].total
      BY <1>4, MarkTotals
    <2> QED BY <1>1, <2>1, <2>2, OrdersStay DEF Going
  <1>5. CASE SaveBacktestRun
    <2>1. pc' = "SAVED" /\ UNCHANGED <<actions, fills, orders>>
      BY <1>5 DEF SaveBacktestRun
    <2>2. Heeds(fills, orders)'
      BY <2>1 DEF OrdersSound, Heeds, Affects
    <2> QED BY <2>1, <2>2 DEF OrdersSound, Going
  <1> QED BY <1>2, <1>3, <1>4, <1>5

\* Nothing happens.
LEMMA StutterOrders ==
    ASSUME BacktestSound, OrdersSound, UNCHANGED vars
    PROVE  OrdersSound'
  <1>1. UNCHANGED <<pc, session, actions, position, fills, orders>>
    BY DEF vars
  <1>2. actions \in Seq(CorporateAction)
    BY SoundParts
  <1>3. CASE Going
    BY <1>1, <1>2, <1>3, OrdersStay
  <1>4. CASE ~Going
    <2>1. Heeds(fills, orders)'
      BY <1>1 DEF OrdersSound, Heeds, Affects
    <2> QED BY <1>1, <1>4, <2>1 DEF OrdersSound, Going
  <1> QED BY <1>3, <1>4

\* What the orders rest on says that they heed the actions.
LEMMA OrdersCorrect ==
    ASSUME BacktestSound, OrdersSound
    PROVE  OrdersHeedActions
  <1>1. NoFillOverExDate
    <2> SUFFICES ASSUME NEW k \in DOMAIN fills, NEW a \in ToSet(actions),
                        a.type # "SYMBOL_CHANGE", a.symbol = fills[k].symbol
                 PROVE  ~(/\ orders[fills[k].order].created < a.ex
                          /\ a.ex <= fills[k].session)
      BY DEF NoFillOverExDate, ToSet
    <2> QED BY DEF OrdersSound, Heeds, Affects
  <1>2. DelistedGone
    <2> SUFFICES ASSUME NEW a \in ToSet(actions), a.type = "DELISTING",
                        a.ex <= session, Going
                 PROVE  /\ position[a.symbol].total = 0
                        /\ \A k \in DOMAIN orders : orders[k].symbol = a.symbol
                               => orders[k].status # "PENDING"
      BY DEF DelistedGone, ToSet, Going
    <2> QED BY DEF OrdersSound, DelistedBy, Gone
  <1> QED BY <1>1, <1>2 DEF OrdersHeedActions

\* Where ex dates are days the backtest goes through and a symbol that another one
\* changes to has had no actions of its own, no order is filled over an ex date of
\* its symbol, however often the symbol changes its name, and nothing of a delisted
\* symbol is held or waits.
THEOREM OrdersAlwaysHeed ==
    ASSUME ExDatesTraded, NewSymbolsAfresh
    PROVE  Spec => []OrdersHeedActions
  <1>1. BacktestSound /\ Init => OrdersSound
    <2> SUFFICES ASSUME BacktestSound, Init PROVE OrdersSound
      OBVIOUS
    <2> QED BY SoundParts, OrdersStart DEF Init
  <1>2. BacktestSound /\ OrdersSound /\ [Next]_vars => OrdersSound'
    <2> SUFFICES ASSUME BacktestSound, OrdersSound, [Next]_vars PROVE OrdersSound'
      OBVIOUS
    <2>1. CASE ProcessCorporateActions
      BY <2>1, CorporateOrders
    <2>2. CASE CancelOrders
      BY <2>2, CancelOrdersHeeds
    <2>3. CASE ExecuteOpenOrders \/ ProcessExits
      BY <2>3, TradedOrders
    <2>4. CASE GenerateNextSessionOrders
      BY <2>4, GenerateOrders
    <2>5. CASE ReleaseShares \/ PayDividends \/ MarkToMarket \/ SaveBacktestRun
      BY <2>5, OtherOrders
    <2>6. CASE NewRun
      BY <2>6, NewRunOrders
    <2>7. CASE Rest \/ UNCHANGED vars
      BY <2>7, StutterOrders DEF Rest
    <2> QED BY <2>1, <2>2, <2>3, <2>4, <2>5, <2>6, <2>7 DEF Next
  <1>3. BacktestSound /\ OrdersSound => OrdersHeedActions
    BY OrdersCorrect
  <1> QED BY <1>1, <1>2, <1>3, BacktestInvariant, PTL DEF Spec

----------------------------------------------------------------------------
(* The drawdown.                                                           *)

\* One day in the loop of _drawdown.
Peaked(acc, e) ==
    [peak |-> Greater(acc.peak, e),
     worst |-> Greater(acc.worst, decline(Greater(acc.peak, e), e))]

\* The loop of _drawdown, over the equity of the days.
DrawIter(list) ==
    CHOOSE iter : iter = [t \in SUBSET DOMAIN list |->
        IF t = {} THEN [peak |-> list[1], worst |-> 0]
        ELSE Peaked(iter[t \ {Max(t)}], list[Max(t)])]

\* The drawdown is what the loop has found after the last day.
LEMMA DrawdownIsLoop ==
    ASSUME NEW list
    PROVE  max_drawdown(list) = DrawIter(list)[DOMAIN list].worst
  BY DEF max_drawdown, FoldLeft, MapThenFoldSet, DrawIter, Peaked

\* A decline from no less is a number, and one from the value itself is none.
LEMMA DeclineType ==
    ASSUME NEW a \in Nat, NEW e \in Nat
    PROVE  /\ decline(a, e) \in Int
           /\ e <= a => decline(a, e) \in Nat
           /\ decline(a, a) = 0
           /\ a <= e => decline(a, e) <= 0
  <1>1. CASE a = 0
    BY <1>1 DEF decline
  <1>2. CASE a > 0
    <2> DEFINE m == (a - e) * Basis
    <2>1. /\ decline(a, e) = m \div a
          /\ m \in Int /\ (e <= a => m >= 0) /\ (a <= e => m <= 0)
      BY <1>2 DEF decline, Basis
    <2>2. decline(a, a) = 0 \div a
      BY <1>2 DEF decline, Basis
    <2> HIDE DEF m
    <2>3. m \div a \in Int /\ (m >= 0 => m \div a >= 0) /\ (m <= 0 => m \div a <= 0)
      BY <1>2, <2>1
    <2>4. 0 \div a = 0
      BY <1>2
    <2> QED BY <2>1, <2>2, <2>3, <2>4
  <1> QED BY <1>1, <1>2

\* The higher the peak, the worse the decline.
LEMMA DeclineGrows ==
    ASSUME NEW a \in Nat, NEW b \in Nat, NEW e \in Nat, a <= b, e <= b
    PROVE  decline(a, e) <= decline(b, e)
  <1>1. CASE a = 0
    <2>1. decline(a, e) = 0
      BY <1>1 DEF decline
    <2>2. decline(b, e) \in Nat
      BY DeclineType
    <2> QED BY <2>1, <2>2
  <1>2. CASE a > 0
    <2> DEFINE x == decline(a, e)
               y == decline(b, e)
    <2>1. x = ((a - e) * Basis) \div a /\ y = ((b - e) * Basis) \div b
      BY <1>2 DEF decline
    <2>2. x \in Int /\ y \in Int
      BY DeclineType
    <2> DEFINE m == (a - e) * Basis
               k == (b - e) * Basis
    <2>3. /\ m \in Int /\ k \in Int
          /\ m = a * Basis - e * Basis /\ k = b * Basis - e * Basis
      BY DEF Basis
    <2> HIDE DEF x, y
    <2>4. x * a <= m
      <3> HIDE DEF m
      <3> QED BY <1>2, <2>1, <2>2, <2>3 DEF m
    <2>5. k < (y + 1) * b
      <3> HIDE DEF k
      <3> QED BY <1>2, <2>1, <2>2, <2>3 DEF k
    <2>6. (Basis - x) * a >= e * Basis
      BY <2>2, <2>3, <2>4 DEF Basis
    <2> DEFINE z == Basis - x
    <2>7. z \in Int /\ x = Basis - z /\ e * Basis >= 0 /\ z * a >= e * Basis
      BY <2>2, <2>6 DEF z, Basis
    <2> HIDE DEF z
    <2>8. z >= 0
      <3>1. z * a \in Int /\ e * Basis \in Int
        BY <2>7 DEF Basis
      <3>2. z * a >= 0
        <4> HIDE DEF Basis
        <4> QED BY <2>7, <3>1
      <3>3. \A u \in Int, v \in Nat \ {0} : u * v >= 0 => u >= 0
        OBVIOUS
      <3> QED BY <1>2, <2>7, <3>2, <3>3
    <2>9. z * b >= z * a
      BY <2>7, <2>8
    <2>10. x * b <= k
      <3>1. x * b = b * Basis - z * b
        BY <2>7 DEF Basis
      <3> QED BY <2>3, <2>7, <2>9, <3>1 DEF Basis
    <2>11. x * b < (y + 1) * b
      BY <2>2, <2>3, <2>5, <2>10
    <2>12. x < y + 1
      BY <1>2, <2>2, <2>11
    <2> QED BY <2>2, <2>12 DEF x, y
  <1> QED BY <1>1, <1>2

\* After i days, the loop knows the highest of them and the worst decline
\* between two.
Drawn(list, acc, i) ==
    /\ acc.peak \in Nat /\ acc.worst \in Nat
    /\ \A k \in 1..i : list[k] <= acc.peak
    /\ IF i = 0 THEN acc.peak = list[1] ELSE \E k \in 1..i : acc.peak = list[k]
    /\ \A p, q \in 1..i : p < q => decline(list[p], list[q]) <= acc.worst
    /\ \/ acc.worst = 0
       \/ \E p, q \in 1..i : p < q /\ acc.worst = decline(list[p], list[q])

\* The loop takes one day after the other.
LEMMA DrawIterDef ==
    ASSUME NEW list \in Seq(Nat)
    PROVE  \A t \in SUBSET DOMAIN list : DrawIter(list)[t] =
             IF t = {} THEN [peak |-> list[1], worst |-> 0]
             ELSE Peaked(DrawIter(list)[t \ {Max(t)}], list[Max(t)])
  <1> DEFINE S == DOMAIN list
             base == [peak |-> list[1], worst |-> 0]
             V == [peak : Nat \cup {list[1]}, worst : Nat]
             pick == [t \in SUBSET S |-> Max(t)]
             op == [x \in S \X V |-> Peaked(x[2], list[x[1]])]
             step(iter) == [t \in SUBSET S |->
               IF t = {} THEN base ELSE Peaked(iter[t \ {Max(t)}], list[Max(t)])]
  <1>1. base \in V
    OBVIOUS
  <1>2. IsFiniteSet(S) /\ Picks(pick, S)
    <2>1. S = 1..Len(list) /\ Len(list) \in Nat
      OBVIOUS
    <2> HIDE DEF S, pick
    <2>2. pick = [t \in SUBSET (1..Len(list)) |-> Max(t)]
      BY <2>1 DEF pick
    <2> QED BY <2>1, <2>2, MaxPicks
  <1>4. \A x \in S, v \in V : Peaked(v, list[x]) \in V
    <2> SUFFICES ASSUME NEW x \in S, NEW v \in V PROVE Peaked(v, list[x]) \in V
      OBVIOUS
    <2>1. list[x] \in Nat /\ v.peak \in Nat /\ v.worst \in Nat
      OBVIOUS
    <2> DEFINE top == Greater(v.peak, list[x])
    <2>2. top \in Nat /\ list[x] <= top
      BY <2>1 DEF Greater
    <2>3. decline(top, list[x]) \in Nat
      BY <2>1, <2>2, DeclineType
    <2>4. Greater(v.worst, decline(top, list[x])) \in Nat
      BY <2>1, <2>3 DEF Greater
    <2> QED BY <2>2, <2>4 DEF Peaked
  <1>5. op \in [S \X V -> V]
    BY <1>4
  <1>6. PICK g \in [SUBSET S -> V] : Folds(g, S, base, pick, op)
    <2> HIDE DEF S, V, pick, op, base
    <2> QED BY <1>1, <1>2, <1>5, FoldExists
  <1>7. ASSUME NEW t \in SUBSET S
        PROVE  g[t] = step(g)[t]
    <2>1. CASE t = {}
      BY <2>1, <1>6 DEF Folds
    <2>2. CASE t # {}
      <3> DEFINE x == pick[t]
                 v == g[t \ {x}]
      <3>1. g[t] = op[<<x, v>>]
        BY <2>2, <1>6 DEF Folds
      <3>2. x = Max(t) /\ x \in S /\ v \in V
        BY <2>2, <1>2, <1>6 DEF Picks
      <3> HIDE DEF x, v, S, V
      <3>3. op[<<x, v>>] = Peaked(v, list[x])
        BY <3>2
      <3> QED BY <2>2, <3>1, <3>2, <3>3 DEF x, v
    <2> QED BY <2>1, <2>2
  <1>8. g = step(g)
    BY <1>7
  <1> DEFINE I == DrawIter(list)
  <1>9. I = step(I)
    BY <1>8 DEF DrawIter
  <1>10. \A t \in SUBSET S : I[t] = step(I)[t]
    BY <1>9
  <1> QED BY <1>10

\* The next day is added.
LEMMA DrawnNext ==
    ASSUME NEW list \in Seq(Nat), NEW i \in DOMAIN list, NEW acc,
           Drawn(list, acc, i - 1)
    PROVE  Drawn(list, Peaked(acc, list[i]), i)
  <1> DEFINE e == list[i]
             top == Greater(acc.peak, e)
             fall == decline(top, e)
             next == Peaked(acc, e)
             days == 1..i
             D(p, q) == decline(list[p], list[q])
  <1>1. /\ i \in Nat \ {0} /\ i \in 1..Len(list) /\ Len(list) \in Nat
        /\ \A k \in days : list[k] \in Nat
        /\ \A k \in days : k = i \/ k \in 1..(i - 1)
        /\ \A k \in 1..(i - 1) : k \in days /\ k < i
        /\ i \in days
    OBVIOUS
  <1>2. /\ acc.peak \in Nat /\ acc.worst \in Nat
        /\ \A k \in 1..(i - 1) : list[k] <= acc.peak
        /\ i = 1 => acc.peak = e
        /\ i # 1 => \E k \in 1..(i - 1) : acc.peak = list[k]
        /\ \A p, q \in 1..(i - 1) : p < q => D(p, q) <= acc.worst
        /\ \/ acc.worst = 0
           \/ \E p, q \in 1..(i - 1) : p < q /\ acc.worst = D(p, q)
    BY <1>1 DEF Drawn
  <1>3. e \in Nat /\ top \in Nat /\ e <= top /\ acc.peak <= top
        /\ (acc.peak <= e => top = e) /\ (e < acc.peak => top = acc.peak)
    BY <1>1, <1>2 DEF Greater
  <1>4. fall \in Nat /\ (acc.peak <= e => fall = 0)
    BY <1>3, DeclineType
  <1>5. next.peak = top /\ next.worst = Greater(acc.worst, fall)
    BY DEF Peaked
  <1>6. /\ next.worst \in Nat /\ acc.worst <= next.worst /\ fall <= next.worst
        /\ next.worst = acc.worst \/ next.worst = fall
        /\ fall = 0 => next.worst = acc.worst
    BY <1>2, <1>4, <1>5 DEF Greater
  <1>7. \A k \in days : list[k] <= top
    BY <1>1, <1>2, <1>3
  <1>8. \E k \in days : top = list[k]
    <2>1. CASE acc.peak <= e
      BY <1>1, <1>3, <2>1
    <2>2. CASE e < acc.peak
      <3>1. i # 1
        BY <1>2, <1>3, <2>2
      <3> QED BY <1>1, <1>2, <1>3, <2>2, <3>1
    <2> QED BY <1>2, <1>3, <2>1, <2>2
  <1>9. ASSUME NEW p \in days, NEW q \in days, p < q
        PROVE  D(p, q) <= next.worst
    <2>0. p \in 1..(i - 1) /\ D(p, q) \in Int
      <3>1. p \in Int /\ q \in Int /\ 1 <= p /\ p < q /\ q <= i
        BY <1>1, <1>9
      <3>2. p \in 1..(i - 1)
        BY <1>1, <3>1
      <3>3. D(p, q) \in Int
        BY <1>1, DeclineType
      <3> QED BY <3>2, <3>3
    <2>1. CASE q = i
      <3>1. list[p] <= top /\ list[p] \in Nat
        BY <1>1, <1>7
      <3>2. decline(list[p], e) <= fall
        BY <1>3, <3>1, DeclineGrows
      <3> HIDE DEF fall, next, top
      <3> QED BY <1>4, <1>6, <2>0, <2>1, <3>2
    <2>2. CASE q \in 1..(i - 1)
      <3>1. D(p, q) <= acc.worst
        BY <1>2, <1>9, <2>0, <2>2
      <3> HIDE DEF D, next
      <3> QED BY <1>2, <1>6, <2>0, <3>1
    <2> QED BY <1>1, <2>1, <2>2
  <1>10. next.worst = 0 \/ \E p, q \in days : p < q /\ next.worst = D(p, q)
    <2>1. CASE next.worst = acc.worst
      <3> HIDE DEF next, D, days
      <3> QED BY <1>1, <1>2, <2>1
    <2>2. CASE next.worst = fall /\ fall # 0
      <3>1. e < acc.peak /\ top = acc.peak /\ i # 1
        BY <1>2, <1>3, <1>4, <2>2
      <3>2. PICK k \in 1..(i - 1) : acc.peak = list[k]
        BY <1>2, <3>1
      <3>3. k \in days /\ k < i /\ next.worst = D(k, i)
        BY <1>1, <2>2, <3>1, <3>2
      <3> HIDE DEF next, D, days
      <3> QED BY <1>1, <3>3
    <2> QED BY <1>6, <2>1, <2>2
  <1>11. next.peak \in Nat /\ (\A k \in days : list[k] <= next.peak)
         /\ \E k \in days : next.peak = list[k]
    BY <1>3, <1>5, <1>7, <1>8
  <1> HIDE DEF next
  <1>12. /\ next.peak \in Nat /\ next.worst \in Nat
         /\ \A k \in 1..i : list[k] <= next.peak
         /\ IF i = 0 THEN next.peak = list[1] ELSE \E k \in 1..i : next.peak = list[k]
    BY <1>1, <1>6, <1>11
  <1>13. /\ \A p, q \in 1..i : p < q => decline(list[p], list[q]) <= next.worst
         /\ \/ next.worst = 0
            \/ \E p, q \in 1..i : p < q /\ next.worst = decline(list[p], list[q])
    BY <1>9, <1>10
  <1>14. Drawn(list, next, i)
    BY <1>12, <1>13 DEF Drawn
  <1> QED BY <1>14 DEF next

\* What the loop has found after the last day.
LEMMA DrawnLast ==
    ASSUME NEW list \in Seq(Nat), list # <<>>
    PROVE  Drawn(list, DrawIter(list)[DOMAIN list], Len(list))
  <1> DEFINE n == Len(list)
             I == DrawIter(list)
             T == {i \in 0..n : Drawn(list, I[1..i], i)}
  <1>1. n \in Nat /\ DOMAIN list = 1..n /\ n # 0 /\ list[1] \in Nat
    OBVIOUS
  <1>2. 0 \in T
    <2>1. I[{}] = [peak |-> list[1], worst |-> 0]
      BY DrawIterDef
    <2>2. 1..0 = {}
      OBVIOUS
    <2>3. Drawn(list, I[1..0], 0)
      BY <1>1, <2>1, <2>2 DEF Drawn
    <2> QED BY <1>1, <2>3
  <1>3. \A i \in 1..n : i - 1 \in T => i \in T
    <2> SUFFICES ASSUME NEW i \in 1..n, i - 1 \in T PROVE i \in T
      OBVIOUS
    <2>0. i \in Nat /\ 1 <= i /\ i <= n
      BY <1>1
    <2>1. /\ i \in Nat \ {0} /\ i \in DOMAIN list /\ 1..i \in SUBSET DOMAIN list
          /\ 1..i # {} /\ i \in 0..n
      <3>1. i \in 1..i /\ 1..i \subseteq 1..n
        BY <1>1, <2>0
      <3>2. i \in DOMAIN list /\ 1..i \in SUBSET DOMAIN list /\ 1..i # {}
        <4> HIDE DEF n
        <4> QED BY <1>1, <2>0, <3>1
      <3>3. i \in Nat \ {0} /\ i \in 0..n
        BY <1>1, <2>0
      <3> QED BY <3>2, <3>3
    <2>2. Max(1..i) = i /\ (1..i) \ {i} = 1..(i - 1)
      BY <2>1, MaxPrefix
    <2>3. I[1..i] = Peaked(I[1..(i - 1)], list[i])
      BY <2>1, <2>2, DrawIterDef
    <2>4. Drawn(list, Peaked(I[1..(i - 1)], list[i]), i)
      BY <2>1, DrawnNext
    <2> QED BY <2>1, <2>3, <2>4
  <1>4. \A i \in 0..n : i \in T
    <2> HIDE DEF T
    <2> QED BY <1>1, <1>2, <1>3, PrefixInduction
  <1>5. n \in T
    BY <1>1, <1>4
  <1> QED BY <1>1, <1>5

\* The declines between two days of a list.
Declines(list) ==
    {decline(list[p[1]], list[p[2]]) :
        p \in {q \in (DOMAIN list) \X (DOMAIN list) : q[1] < q[2]}}

\* They are finitely many whole numbers.
LEMMA DeclinesFinite ==
    ASSUME NEW list \in Seq(Nat)
    PROVE  IsFiniteSet(Declines(list)) /\ Declines(list) \subseteq Int
  <1> DEFINE S == {q \in (DOMAIN list) \X (DOMAIN list) : q[1] < q[2]}
             f == [p \in S |-> decline(list[p[1]], list[p[2]])]
  <1>1. IsFiniteSet(DOMAIN list)
    BY FS_Interval
  <1>2. IsFiniteSet((DOMAIN list) \X (DOMAIN list))
    BY <1>1, FS_Product
  <1>3. IsFiniteSet(S)
    BY <1>2, FS_Subset
  <1>4. Declines(list) = {f[p] : p \in S}
    BY DEF Declines
  <1>5. IsFiniteSet(Declines(list))
    <2> HIDE DEF S, f
    <2> QED BY <1>3, <1>4, ImageFinite
  <1>6. \A p \in S : decline(list[p[1]], list[p[2]]) \in Int
    <2> SUFFICES ASSUME NEW p \in S PROVE decline(list[p[1]], list[p[2]]) \in Int
      OBVIOUS
    <2>1. list[p[1]] \in Nat /\ list[p[2]] \in Nat
      OBVIOUS
    <2> QED BY <2>1, DeclineType
  <1> QED BY <1>5, <1>6 DEF Declines

\* The loop finds the worst decline between any two days.
LEMMA DrawdownWorst ==
    ASSUME NEW list \in Seq(Nat)
    PROVE  max_drawdown(list) = Max({0} \cup Declines(list))
  <1> DEFINE S == {0} \cup Declines(list)
             w == max_drawdown(list)
  <1>1. IsFiniteSet(S) /\ S \subseteq Int /\ S # {}
    <2>1. IsFiniteSet({0}) /\ IsFiniteSet(Declines(list)) /\ Declines(list) \subseteq Int
      BY DeclinesFinite, FS_Singleton
    <2>2. IsFiniteSet(S)
      BY <2>1, FS_Union
    <2> QED BY <2>1, <2>2
  <1>2. Max(S) \in S /\ \A y \in S : Max(S) >= y
    <2> HIDE DEF S
    <2> QED BY <1>1, MaxIn
  <1>3. w \in S /\ \A y \in S : w >= y
    <2>1. CASE list = <<>>
      <3>1. DOMAIN list = {} /\ {} \in SUBSET DOMAIN list
        BY <2>1
      <3>3. DrawIter(list)[{}] = [peak |-> list[1], worst |-> 0]
        BY <3>1, DrawIterDef
      <3>2. Declines(list) = {}
        BY <3>1 DEF Declines
      <3>4. w = 0
        BY <3>1, <3>3, DrawdownIsLoop
      <3> QED BY <3>2, <3>4
    <2>2. CASE list # <<>>
      <3> DEFINE acc == DrawIter(list)[DOMAIN list]
      <3>1. Drawn(list, acc, Len(list)) /\ w = acc.worst
        BY <2>2, DrawnLast, DrawdownIsLoop
      <3> HIDE DEF acc, w
      <3>2. /\ w \in Nat
            /\ \A p, q \in DOMAIN list : p < q => decline(list[p], list[q]) <= w
            /\ \/ w = 0
               \/ \E p, q \in DOMAIN list : p < q /\ w = decline(list[p], list[q])
        BY <3>1 DEF Drawn
      <3>3. \A y \in Declines(list) : y <= w
        BY <3>2 DEF Declines
      <3>4. w \in S
        <4>1. CASE w = 0
          BY <4>1
        <4>2. CASE w # 0
          <5>1. PICK p \in DOMAIN list, q \in DOMAIN list :
                     p < q /\ w = decline(list[p], list[q])
            BY <3>2, <4>2
          <5>2. <<p, q>> \in {r \in (DOMAIN list) \X (DOMAIN list) : r[1] < r[2]}
            BY <5>1
          <5>3. w \in Declines(list)
            BY <5>1, <5>2 DEF Declines
          <5> QED BY <5>3
        <4> QED BY <4>1, <4>2
      <3>5. \A y \in S : y \in Int
        BY <1>1
      <3> QED BY <3>2, <3>3, <3>4, <3>5
    <2> QED BY <2>1, <2>2
  <1>4. \A a, c \in Int : a >= c /\ c >= a => a = c
    OBVIOUS
  <1> HIDE DEF S, w
  <1>5. w = Max(S)
    BY <1>1, <1>2, <1>3, <1>4
  <1> QED BY <1>5 DEF S, w

\* The drawdown a backtest reports is the worst decline between any two of its
\* days, for any number of days and any equity.
THEOREM DrawdownAlwaysWorst == Spec => []DrawdownIsWorst
  <1>1. BacktestSound => DrawdownIsWorst
    <2>1. BacktestSound => daily \in Seq(Nat)
      BY DEF BacktestSound, Types
    <2>2. daily \in Seq(Nat) =>
             max_drawdown(daily) = Max({0} \cup Declines(daily))
      BY DrawdownWorst
    <2> QED BY <2>1, <2>2 DEF DrawdownIsWorst, Declines
  <1> QED BY <1>1, BacktestInvariant, PTL
=============================================================================
