------------------------------ MODULE Backtest ------------------------------
(***************************************************************************)
(* BacktestEngine of src/app/backtest.py: a backtest goes through the       *)
(* trading days of its period and, on each, applies corporate actions,      *)
(* releases shares, pays dividends, cancels and executes orders, takes      *)
(* exits, marks the portfolio and places the next day's orders.  It ends    *)
(* COMPLETED or, at the first exception, FAILED, and is saved.              *)
(*                                                                         *)
(* Market data and the strategy's signals are chosen freely, day by day.    *)
(* Money is in fen, average costs in hundredths of a fen (the 0.0001 yuan   *)
(* they are rounded to), dates are numbers.                                 *)
(***************************************************************************)
EXTENDS Matching, RiskRules, Sequences, SequencesExt

CONSTANTS
    Symbols,        \* every symbol there is market data of, numbers
    Listed,         \* config.symbols
    Days,           \* the calendar's trading days
    Period,         \* those of the backtest
    ActionLists,    \* lists of corporate actions, sorted by ex_date
    BarSets,        \* the bars a day may bring: functions from Symbols to Bar
    SignalSets,     \* the signals of an evening: functions from Listed
    StopRate,       \* stop price of a signal, in bps of its reference price
    FirstClose,     \* close before the first day
    InitialCash,
    DividendTax,    \* bps
    Expiry,         \* order_expiry_sessions
    FailClosed,     \* rights_issue_policy is FAIL_CLOSED
    RunIds          \* run ids a backtest may have

VARIABLES
    pc,             \* what the engine does next
    run,            \* run_id
    session,        \* the day it is at, 0 before the first
    actions,        \* corporate_actions
    bars,           \* the day's bars
    closes,         \* previous_closes
    cash,           \* Portfolio.cash_available
    peak,           \* Portfolio.peak_equity
    position,       \* Portfolio.positions
    orders, fills, entitlements,
    daily,          \* total equity of each day, as recorded
    database        \* what save_backtest_run has stored

vars == <<pc, run, session, actions, bars, closes, cash, peak, position,
          orders, fills, entitlements, daily, database>>

----------------------------------------------------------------------------
BonusTypes == {"STOCK_DIVIDEND", "CAPITALIZATION"}
ScaleTypes == {"SPLIT", "REVERSE_SPLIT"}
ActionTypes == BonusTypes \cup ScaleTypes \cup
               {"CASH_DIVIDEND", "RIGHTS_ISSUE", "DELISTING", "SYMBOL_CHANGE"}

\* CorporateAction.  num / den is the ratio of shares, cash the dividend per
\* share, to the new symbol; a date or symbol of 0 is one not given.
CorporateAction ==
    {a \in [id : Nat, type : ActionTypes, symbol : Symbols, record : Nat,
            ex : Nat, payment : Nat, tradable : Nat, cash : Nat, num : Nat,
            den : Nat \ {0}, to : {0} \cup Symbols] :
        /\ a.record <= a.ex
        /\ a.payment = 0 \/ a.payment >= a.record
        /\ a.tradable = 0 \/ a.tradable >= a.ex
        /\ a.type = "SYMBOL_CHANGE" => a.to # 0}

OrderStatus == {"PENDING", "PARTIALLY_FILLED", "FILLED", "EXPIRED", "REJECTED",
    "BLOCKED_T1", "BLOCKED_SUSPENSION", "BLOCKED_PRICE_LIMIT",
    "BLOCKED_LIQUIDITY", "CANCELLED_CORPORATE_ACTION"}
BacktestOrder ==
    [symbol : Symbols, side : Sides, type : OrderTypes, limit : Nat,
     quantity : Nat, remaining : Nat, created : Nat, earliest : Nat,
     expiry : Nat, status : OrderStatus]
\* rounded: what rounding has moved at most, in halves of a hundredth of a fen;
\* lost: the cost of shares a reverse split took away whole (history).
BacktestPosition ==
    [total : Nat, available : Nat, locked : Nat, today : Nat, average : Nat,
     last : Nat, realized : Int, rounded : Nat, lost : Nat]
DividendEntitlement ==
    [action : Nat, quantity : Nat, net : Nat, payment : Nat,
     status : {"CREATED", "PAID"}]
NoPosition == [total |-> 0, available |-> 0, locked |-> 0, today |-> 0,
               average |-> 0, last |-> 0, realized |-> 0, rounded |-> 0,
               lost |-> 0]

ASSUME ConfigAssumption ==
    /\ Symbols \subseteq Nat /\ IsFiniteSet(Symbols) /\ Listed \subseteq Symbols
    /\ Days \subseteq Nat \ {0} /\ IsFiniteSet(Days)
    /\ Period \subseteq Days /\ Period # {}
    /\ RunIds \subseteq Nat /\ IsFiniteSet(RunIds) /\ RunIds # {}
    /\ BarSets \subseteq [Symbols -> Bar]
    /\ SignalSets \subseteq [Listed -> BuySignals \cup {"HOLD", "DATA_ERROR"}]
    /\ \A list \in ActionLists : list \in Seq(CorporateAction)
    /\ InitialCash \in Nat \ {0} /\ Expiry \in Nat \ {0}
    /\ FailClosed \in BOOLEAN /\ {StopRate, FirstClose} \subseteq Nat
    \* a dividend is not taxed by more than it is
    /\ DividendTax \in 0..Basis

\* What corporate actions are like that come from one source of market data; the
\* engine does not look, and takes any list.
\* An ex date within the backtest is a day it goes through.
ExDatesTraded ==
    \A list \in ActionLists : \A a \in ToSet(list) :
        \/ a.ex \in Period
        \/ \A d \in Period : a.ex < d
        \/ \A d \in Period : a.ex > d
\* A symbol that another one changes to has had no actions of its own.
NewSymbolsAfresh ==
    \A list \in ActionLists : \A c, a \in ToSet(list) :
        c.type = "SYMBOL_CHANGE" /\ a.type # "SYMBOL_CHANGE" /\ a.symbol = c.to
            => c.ex < a.ex
\* Such a symbol is traded under no name before, and one symbol changes to it: the
\* change overwrites what is held of it.
NewSymbolsUntraded ==
    \A list \in ActionLists : \A i, k \in DOMAIN list :
        list[i].type = "SYMBOL_CHANGE" =>
            /\ list[i].to \notin Listed
            /\ list[k].type = "SYMBOL_CHANGE" /\ list[k].to = list[i].to => i = k
\* An id names one action.
ActionIdsUnique ==
    \A list \in ActionLists : \A a, c \in ToSet(list) : a.id = c.id => a = c

money(n, d) == IF n >= 0 THEN n \div d ELSE -((-n) \div d)
price_tick_round(n, d) == (2 * n + d) \div (2 * d)
Later(days, day) == {d \in days : d > day}

(* BacktestPosition.                                                       *)

market_value(pos) == pos.last * pos.total
unrealized_pnl(pos) == money((100 * pos.last - pos.average) * pos.total, 100)

mark(pos, price) == [pos EXCEPT !.last = price]

bought(pos, quantity, paid, price) ==
    [mark(pos, price) EXCEPT
        !.average = price_tick_round(pos.average * pos.total + 100 * paid,
                                     pos.total + quantity),
        !.total = @ + quantity,
        !.today = @ + quantity,
        !.rounded = @ + pos.total + quantity]

\* (mutant: the profit is taken before fees)
SoldBeforeFees(pos, fill, proceeds) ==
    [pos EXCEPT !.realized = @ + money(100 * fill.value
                                       - pos.average * fill.quantity, 100),
                !.total = @ - fill.quantity,
                !.available = @ - fill.quantity,
                !.average = IF pos.total = fill.quantity THEN 0 ELSE @,
                !.last = IF pos.total = fill.quantity THEN 0 ELSE fill.price,
                !.rounded = @ + 200]
sold(pos, fill, proceeds) ==
    [pos EXCEPT !.realized = @ + money(100 * proceeds
                                       - pos.average * fill.quantity, 100),
                !.total = @ - fill.quantity,
                !.available = @ - fill.quantity,
                !.average = IF pos.total = fill.quantity THEN 0 ELSE @,
                !.last = IF pos.total = fill.quantity THEN 0 ELSE fill.price,
                !.rounded = @ + 200]

add_bonus_shares(pos, quantity, locked, price) ==
    IF quantity <= 0 THEN pos
    ELSE [mark(pos, price) EXCEPT
            !.total = @ + quantity,
            !.locked = IF locked THEN @ + quantity ELSE @,
            !.available = IF locked THEN @ ELSE @ + quantity,
            !.average = price_tick_round(@ * pos.total, pos.total + quantity),
            !.rounded = @ + pos.total + quantity]

\* What rounding takes from the other buckets goes to today's (mutant: it is
\* dropped).  The code divides to 28 digits, which may round one share less
\* into a bucket where new / total is no finite decimal.
RescaledFloor(pos, new, price) ==
    LET scaled(n) == (n * new) \div pos.total
    IN  [mark(pos, price) EXCEPT
            !.total = new,
            !.available = scaled(@), !.locked = scaled(@), !.today = scaled(@),
            !.average = IF new = 0 THEN 0
                        ELSE price_tick_round(@ * pos.total, new),
            !.rounded = @ + new,
            !.lost = IF new = 0 THEN @ + pos.average * pos.total ELSE @]
rescale_quantity(pos, new, price) ==
    LET available == Lesser(new, (pos.available * new) \div pos.total)
        locked == Lesser(new - available, (pos.locked * new) \div pos.total)
    IN  [mark(pos, price) EXCEPT
            !.total = new,
            !.available = available,
            !.locked = locked,
            !.today = Greater(0, new - available - locked),
            !.average = IF new = 0 THEN 0
                        ELSE price_tick_round(@ * pos.total, new),
            !.rounded = @ + new,
            !.lost = IF new = 0 THEN @ + pos.average * pos.total ELSE @]

(* Portfolio.                                                              *)

total_market_value ==
    SumFunctionOnSet([s \in Symbols |-> market_value(position[s])], Symbols)
total_equity == cash + total_market_value

total_cost(fill) == fill.value + fill.fee.commission + fill.fee.other
net_proceeds(fill) == fill.value - fill.fee.commission - fill.fee.tax
                      - fill.fee.other

\* The engine works on the portfolio and the orders, one order or action after
\* the other, until something raises.
book == [cash |-> cash, position |-> position, orders |-> orders,
         fills |-> fills, raised |-> FALSE]

\* Portfolio.apply_fill
apply_buy(b, s, fill) ==
    IF b.cash < total_cost(fill)
    THEN [b EXCEPT !.cash = @ - total_cost(fill), !.raised = TRUE]
    ELSE [b EXCEPT !.cash = @ - total_cost(fill),
                   !.position[s] = bought(@, fill.quantity, total_cost(fill),
                                          fill.price)]
apply_sell(b, s, fill) ==
    [b EXCEPT !.cash = @ + net_proceeds(fill),
              !.position[s] = sold(@, fill, net_proceeds(fill)),
              !.raised = b.cash + net_proceeds(fill) < 0]

\* An order matched against the day's bar, and its fill applied.
Executed(b, i) ==
    LET o == b.orders[i]
        s == o.symbol
        result == execute(o, bars[s], closes[s], b.cash,
                          b.position[s].available, session)
        seen == [b EXCEPT !.orders[i].status = result.status,
                          !.orders[i].remaining = result.remaining]
        applied == IF o.side = "BUY" THEN apply_buy(seen, s, result.fill)
                                     ELSE apply_sell(seen, s, result.fill)
    IN  IF b.raised THEN b
        ELSE IF result.fill = NoFill THEN seen
        ELSE IF applied.raised THEN applied
        ELSE [applied EXCEPT !.fills = Append(@,
                [order |-> i, symbol |-> s, side |-> o.side, session |-> session,
                 quantity |-> result.fill.quantity,
                 cash |-> applied.cash - b.cash])]

Pending(b, i) == b.orders[i].status = "PENDING"

\* _cancel_symbol_orders
CancelledOrders(list, s) ==
    [i \in DOMAIN list |->
        IF list[i].symbol = s /\ list[i].status = "PENDING"
        THEN [list[i] EXCEPT !.status = "CANCELLED_CORPORATE_ACTION"]
        ELSE list[i]]

new_order(s, side, type, quantity, earliest, expiry, limit) ==
    [symbol |-> s, side |-> side, type |-> type, limit |-> limit,
     quantity |-> quantity, remaining |-> quantity, created |-> session,
     earliest |-> earliest, expiry |-> expiry, status |-> "PENDING"]

(* Corporate actions.                                                      *)

\* Shares a dividend is paid for (mutant: only those that can be sold).
EligibleAvailable(b, a) == b.position[a.symbol].available
eligible(b, a) == b.position[a.symbol].total

\* _create_dividend_entitlement
Entitled(b, a, day) ==
    LET gross == eligible(b, a) * a.cash
    IN  IF \/ eligible(b, a) <= 0
           \/ \E e \in ToSet(b.entitlements) : e.action = a.id THEN b
        ELSE [b EXCEPT !.entitlements = Append(@,
                [action |-> a.id, quantity |-> eligible(b, a),
                 net |-> gross - (gross * DividendTax) \div Basis,
                 payment |-> IF a.payment = 0 THEN a.ex ELSE a.payment,
                 status |-> "CREATED"])]

\* _apply_quantity_action, at the day's close: a reverse split by nothing fails.
Adjusted(b, a, day, close) ==
    LET pos == b.position[a.symbol]
        added == (pos.total * a.num) \div a.den
        locked == a.tradable > day
    IN  IF pos.total <= 0 THEN b
        ELSE IF a.type = "REVERSE_SPLIT" /\ a.num = 0
        THEN [b EXCEPT !.raised = TRUE]
        ELSE [b EXCEPT !.position[a.symbol] =
                CASE a.type \in BonusTypes ->
                       add_bonus_shares(@, added, locked, close)
                  [] a.type = "SPLIT" -> rescale_quantity(@, added, close)
                  [] a.type = "REVERSE_SPLIT" ->
                       rescale_quantity(@, (pos.total * a.den) \div a.num, close)]

\* _apply_symbol_change: a position in the new symbol is overwritten.
Renamed(b, a) ==
    [b EXCEPT
        !.position = IF b.position[a.symbol] = NoPosition THEN @
                     ELSE [@ EXCEPT ![a.symbol] = NoPosition,
                                    ![a.to] = b.position[a.symbol]],
        !.orders = [i \in DOMAIN @ |-> IF @[i].symbol = a.symbol
                                       THEN [@[i] EXCEPT !.symbol = a.to]
                                       ELSE @[i]]]

\* An action on its ex date.
Effective(b, a, day, today) ==
    CASE a.type = "CASH_DIVIDEND" -> b
      [] a.type = "RIGHTS_ISSUE" -> [b EXCEPT !.raised = FailClosed]
      [] a.type = "DELISTING" ->
           IF b.position[a.symbol].total > 0 THEN [b EXCEPT !.raised = TRUE]
           ELSE [b EXCEPT !.orders = CancelledOrders(@, a.symbol)]
      [] a.type = "SYMBOL_CHANGE" -> Renamed(b, a)
      [] a.type \in BonusTypes \cup ScaleTypes ->
           Adjusted(b, a, day, today[a.symbol].close)

\* _process_corporate_actions
Processed(b, a, day, today) ==
    LET recorded == IF a.type = "CASH_DIVIDEND" /\ a.record = day
                    THEN Entitled(b, a, day) ELSE b
    IN  IF b.raised THEN b
        ELSE IF a.ex = day THEN Effective(recorded, a, day, today)
        ELSE recorded

\* release_t1
ReleasedT1(folio) ==
    [s \in Symbols |-> [folio[s] EXCEPT !.available = @ + folio[s].today,
                                        !.today = 0]]

\* _release_corporate_locked_shares: when one action's shares become tradable,
\* the symbol's locked shares are released, those of other actions too.
ReleasedLocked(folio) ==
    [s \in Symbols |->
        IF \E a \in ToSet(actions) : a.symbol = s /\ a.tradable = session
        THEN [folio[s] EXCEPT !.available = @ + folio[s].locked, !.locked = 0]
        ELSE folio[s]]

----------------------------------------------------------------------------
(* A day of the backtest.                                                  *)

Config == <<run, actions, database>>

Init ==
    /\ pc = "CORPORATE_ACTIONS"
    /\ run = Min(RunIds)
    /\ session = 0
    /\ actions \in ActionLists
    /\ bars \in BarSets
    /\ closes = [s \in Symbols |-> FirstClose]
    /\ cash = InitialCash /\ peak = InitialCash
    /\ position = [s \in Symbols |-> NoPosition]
    /\ orders = <<>> /\ fills = <<>> /\ entitlements = <<>> /\ daily = <<>>
    /\ database = [runs |-> {}, actions |-> {}]

\* The next day begins with bars of its own.
ProcessCorporateActions ==
    LET day == Min(Later(Period, session)) IN
    \E today \in BarSets :
        LET start == [cash |-> cash, position |-> position, orders |-> orders,
                      entitlements |-> entitlements, raised |-> FALSE]
            step(b, a) == Processed(b, a, day, today)
            b == FoldLeft(step, start, actions)
        IN  /\ pc = "CORPORATE_ACTIONS"
            /\ session' = day
            /\ bars' = today
            /\ closes' = IF session = 0 THEN closes
                         ELSE [s \in Symbols |-> bars[s].close]
            /\ position' = b.position
            /\ orders' = b.orders
            /\ entitlements' = b.entitlements
            /\ pc' = IF b.raised THEN "FAILED" ELSE "RELEASE"
            /\ UNCHANGED <<cash, peak, fills, daily, Config>>

\* release_t1 and _release_corporate_locked_shares
ReleaseShares ==
    /\ pc = "RELEASE"
    /\ position' = ReleasedLocked(ReleasedT1(position))
    /\ pc' = "DIVIDENDS"
    /\ UNCHANGED <<session, bars, closes, cash, peak, orders, fills,
                   entitlements, daily, Config>>

\* Entitlements _pay_dividends pays
Due(e) == e.payment = session /\ e.status # "PAID"

PayDividends ==
    LET pay(sum, e) == IF Due(e) THEN sum + e.net ELSE sum
    IN  /\ pc = "DIVIDENDS"
        /\ cash' = FoldLeft(pay, cash, entitlements)
        /\ entitlements' = [i \in DOMAIN entitlements |->
                IF Due(entitlements[i])
                THEN [entitlements[i] EXCEPT !.status = "PAID"]
                ELSE entitlements[i]]
        /\ pc' = "CANCEL"
        /\ UNCHANGED <<session, bars, closes, peak, position, orders, fills,
                       daily, Config>>

\* Actions that cancel the symbol's orders (mutant: not a cash dividend).
CancellingNoCash == ActionTypes \ {"SYMBOL_CHANGE", "CASH_DIVIDEND"}
Cancelling == ActionTypes \ {"SYMBOL_CHANGE"}

\* _cancel_orders_for_corporate_actions
CancelOrders ==
    LET cancel(list, a) == IF a.ex = session /\ a.type \in Cancelling
                           THEN CancelledOrders(list, a.symbol) ELSE list
    IN  /\ pc = "CANCEL"
        /\ orders' = FoldLeft(cancel, orders, actions)
        /\ pc' = "OPEN"
        /\ UNCHANGED <<session, bars, closes, cash, peak, position, fills,
                       entitlements, daily, Config>>

Commit(b, next) ==
    /\ cash' = b.cash
    /\ position' = b.position
    /\ orders' = b.orders
    /\ fills' = b.fills
    /\ pc' = IF b.raised THEN "FAILED" ELSE next
    /\ UNCHANGED <<session, bars, closes, peak, entitlements, daily, Config>>

\* _execute_open_orders
ExecuteOpenOrders ==
    LET step(b, i) == IF Pending(b, i) THEN Executed(b, i) ELSE b
    IN  /\ pc = "OPEN"
        /\ Commit(FoldLeft(step, book, [i \in DOMAIN orders |-> i]), "EXITS")

\* What a position is sold for: its stop at 95% of the cost or its target at
\* 105%, the stop when the bar touches both.
ExitPrice(pos, bar) ==
    LET stop == (pos.average * 95) \div 10000
        target == (pos.average * 105) \div 10000
    IN  IF bar.low <= stop THEN stop
        ELSE IF bar.high >= target THEN target
        ELSE NoPrice

\* _process_exits, of one symbol: shares bought today are no help.
Exited(b, s) ==
    LET pos == b.position[s]
        price == ExitPrice(pos, bars[s])
        sell(quantity) == new_order(s, "SELL", "LIMIT", quantity, session,
                                    session, price)
        blocked == [sell(pos.total) EXCEPT !.status = "BLOCKED_T1"]
        placed(o) == [b EXCEPT !.orders = Append(@, o)]
    IN  IF b.raised \/ pos.total <= 0 \/ price = NoPrice THEN b
        ELSE IF pos.available <= 0 THEN placed(blocked)
        ELSE Executed(placed(sell(pos.available)), Len(b.orders) + 1)

ProcessExits ==
    /\ pc = "EXITS"
    /\ LET step(s, b) == Exited(b, s)
       IN  Commit(MapThenFoldSet(step, book, LAMBDA s : s, Max, Symbols), "CLOSE")

\* mark_to_market
MarkToMarket ==
    LET marked == [s \in Symbols |-> IF position[s].total > 0
                                     THEN mark(position[s], bars[s].close)
                                     ELSE position[s]]
        value == [s \in Symbols |-> market_value(marked[s])]
    IN  /\ pc = "CLOSE"
        /\ position' = marked
        /\ peak' = Greater(peak, cash + SumFunctionOnSet(value, Symbols))
        /\ pc' = "SIGNALS"
        /\ UNCHANGED <<session, bars, closes, cash, orders, fills,
                       entitlements, daily, Config>>

\* to_account_snapshot
Snapshot(s) ==
    [equity |-> Greater(total_equity, 1), cash |-> Greater(cash, 0),
     marketValue |-> total_market_value, frozen |-> 0, dailyPnl |-> 0,
     peak |-> Greater(Greater(peak, total_equity), 1), losses |-> 0,
     symbolValue |-> market_value(position[s]), industryValue |-> NoIndustry]

is_delisted(s) == \E a \in ToSet(actions) :
    a.symbol = s /\ a.type = "DELISTING" /\ a.ex <= session

\* _expiry_session: the last of the days an order is good for
expiry_session == Min({d \in Later(Days, session) :
                          Cardinality({e \in Later(Days, session) : e <= d}) >= Expiry})

\* _generate_next_session_orders, of one symbol.  The signals of an evening
\* have identities of their own, so none is taken for a pending order's.
Generated(b, s, signal) ==
    LET reference == bars[s].close
        decision == evaluate(signal, Snapshot(s), reference,
                             (reference * StopRate) \div Basis)
        quantity == floor_to_lot(decision.approved)
    IN  IF b.raised THEN b
        ELSE IF is_delisted(s)
        THEN [b EXCEPT !.raised = b.position[s].total > 0]
        ELSE IF ~Proposes(signal, decision) \/ quantity < Rules.lot THEN b
        ELSE IF Cardinality(Later(Days, session)) < Expiry THEN [b EXCEPT !.raised = TRUE]
        ELSE [b EXCEPT !.orders = Append(@,
                new_order(s, "BUY", "MARKET_ON_NEXT_OPEN", quantity,
                          Min(Later(Days, session)), expiry_session, NoPrice))]

\* The evening's orders, and the day's equity recorded.  The calendar's last
\* day places no orders.
GenerateNextSessionOrders ==
    \E signals \in SignalSets :
        LET step(s, b) == Generated(b, s, signals[s])
            b == IF Later(Days, session) = {} THEN book
                 ELSE MapThenFoldSet(step, book, LAMBDA s : s, Max, Listed)
        IN  /\ pc = "SIGNALS"
            /\ orders' = b.orders
            /\ daily' = IF b.raised THEN daily ELSE Append(daily, total_equity)
            /\ pc' = IF b.raised THEN "FAILED"
                     ELSE IF Later(Period, session) = {} THEN "COMPLETED"
                     ELSE "CORPORATE_ACTIONS"
            /\ UNCHANGED <<session, bars, closes, cash, peak, position, fills,
                           entitlements, Config>>

Finished == pc \in {"COMPLETED", "FAILED"}

\* save_backtest_run: nothing is stored of a run that has a row.  Corporate
\* actions are unique in the database, so a run with one that an earlier run
\* stored is rolled back, and nobody is told.
SaveBacktestRun ==
    LET ids == {a.id : a \in ToSet(actions)}
    IN  /\ Finished
        /\ IF run \in database.runs \/ ids \cap database.actions # {}
           THEN UNCHANGED database
           ELSE database' = [runs |-> database.runs \cup {run},
                             actions |-> database.actions \cup ids]
        /\ pc' = "SAVED"
        /\ UNCHANGED <<run, session, actions, bars, closes, cash, peak,
                       position, orders, fills, entitlements, daily>>

\* Another backtest, with another configuration.
NewRun ==
    /\ pc = "SAVED"
    /\ run + 1 \in RunIds
    /\ run' = run + 1
    /\ actions' \in ActionLists
    /\ pc' = "CORPORATE_ACTIONS"
    /\ session' = 0
    /\ bars' \in BarSets
    /\ closes' = [s \in Symbols |-> FirstClose]
    /\ cash' = InitialCash /\ peak' = InitialCash
    /\ position' = [s \in Symbols |-> NoPosition]
    /\ orders' = <<>> /\ fills' = <<>> /\ entitlements' = <<>> /\ daily' = <<>>
    /\ UNCHANGED database

Rest == pc = "SAVED" /\ UNCHANGED vars

Next ==
    \/ ProcessCorporateActions \/ ReleaseShares \/ PayDividends \/ CancelOrders
    \/ ExecuteOpenOrders \/ ProcessExits \/ MarkToMarket
    \/ GenerateNextSessionOrders \/ SaveBacktestRun \/ NewRun \/ Rest

Spec == Init /\ [][Next]_vars

----------------------------------------------------------------------------
(* The figures of a result (calculate_metrics); averages, Sharpe and the    *)
(* like are left out.                                                      *)

\* Decline of equity from a peak, in units of 0.0001
decline(from, to) == IF from = 0 THEN 0 ELSE ((from - to) * Basis) \div from

\* _drawdown: the worst decline from a peak seen before
max_drawdown(list) ==
    LET step(acc, e) ==
            LET top == Greater(acc.peak, e)
            IN  [peak |-> top, worst |-> Greater(acc.worst, decline(top, e))]
    IN  FoldLeft(step, [peak |-> list[1], worst |-> 0], list).worst

----------------------------------------------------------------------------
(* Properties.                                                             *)

TypeOK ==
    /\ pc \in {"CORPORATE_ACTIONS", "RELEASE", "DIVIDENDS", "CANCEL", "OPEN",
               "EXITS", "CLOSE", "SIGNALS", "COMPLETED", "FAILED", "SAVED"}
    /\ run \in RunIds /\ session \in {0} \cup Period
    /\ cash \in Int /\ peak \in Nat
    /\ position \in [Symbols -> BacktestPosition]
    /\ orders \in Seq(BacktestOrder)
    /\ entitlements \in Seq(DividendEntitlement)
    /\ daily \in Seq(Nat)

\* Every share is in exactly one bucket of its position, through purchases,
\* sales, bonus shares, splits and their rounding: to be sold, locked, or
\* bought today.  (The code checks that they are not more than the total.)
SharesInBuckets ==
    \A s \in Symbols :
        position[s].available + position[s].locked + position[s].today
            = position[s].total

\* T+1: what was bought today is still in today's bucket when the day's
\* trading is over, and so was not sold.
TodayHeldBack ==
    LET today(s) == {i \in DOMAIN fills : /\ fills[i].symbol = s
                                          /\ fills[i].side = "BUY"
                                          /\ fills[i].session = session}
        quantity == [i \in DOMAIN fills |-> fills[i].quantity]
    IN  pc \in {"EXITS", "CLOSE", "SIGNALS"} =>
            \A s \in Symbols :
                position[s].today = SumFunctionOnSet(quantity, today(s))

\* What the equity differs from the initial cash is the profit that was realised,
\* the profit on paper and the dividends, and nothing else, as long as the backtest
\* has not failed.  Rounding explains no more than this: an average cost is rounded
\* to a hundredth of a fen per share, so a purchase, a bonus or a split moves up to
\* half of that for each share then held; a sale drops less than a fen, and so does
\* the paper profit of a position.  What a reverse split takes away whole is the one
\* cost that no profit shows.
OverSymbols(of) == SumFunctionOnSet(of, Symbols)
PaidOut == SumFunctionOnSet([i \in DOMAIN entitlements |-> entitlements[i].net],
                            {i \in DOMAIN entitlements : entitlements[i].status = "PAID"})
EquityExplained ==
    LET profit == total_equity - InitialCash - PaidOut
                  - OverSymbols([s \in Symbols |-> position[s].realized])
                  - OverSymbols([s \in Symbols |-> unrealized_pnl(position[s])])
        gap == 100 * profit + OverSymbols([s \in Symbols |-> position[s].lost])
        slack == OverSymbols([s \in Symbols |-> position[s].rounded + 200])
    IN  pc \notin {"FAILED", "SAVED"} => 2 * gap \in -slack..slack

\* An order is not filled over an ex date: between the evening it was placed
\* and its fill no action on its symbol changed what a share is worth.
NoFillOverExDate ==
    \A f \in ToSet(fills), a \in ToSet(actions) :
        a.type # "SYMBOL_CHANGE" /\ a.symbol = f.symbol =>
            ~(orders[f.order].created < a.ex /\ a.ex <= f.session)

\* A dividend goes to the holding at the start of its record date, shares
\* bought the day before included, once: what is bought from then on earns
\* nothing, and what is sold keeps it.  (The holding is that of the fills when
\* nothing but dividends has touched the symbol by then; a backtest that failed
\* may have stopped before the entitlement.)
DividendFollowsHolding ==
    LET shares == [i \in DOMAIN fills |->
                      IF fills[i].side = "BUY" THEN fills[i].quantity
                                               ELSE -fills[i].quantity]
        before(a) == {i \in DOMAIN fills : fills[i].symbol = a.symbol
                                           /\ fills[i].session < a.record}
        held(a) == SumFunctionOnSet(shares, before(a))
        mine(a) == {i \in DOMAIN entitlements : entitlements[i].action = a.id}
        untouched(a) == \A c \in ToSet(actions) : a.symbol \in {c.symbol, c.to} =>
                            c.type = "CASH_DIVIDEND" \/ c.ex > a.record
    IN  pc \notin {"FAILED", "SAVED"} =>
            \A a \in ToSet(actions) :
                /\ a.type = "CASH_DIVIDEND"
                /\ a.record \in Period /\ a.record <= session /\ untouched(a)
                => /\ Cardinality(mine(a)) = IF held(a) > 0 THEN 1 ELSE 0
                   /\ \A i \in mine(a) : entitlements[i].quantity = held(a)

\* A dividend whose payment date was a trading day is paid by its evening,
\* also when that is the record date.
DividendPaid ==
    pc = "SIGNALS" =>
        \A e \in ToSet(entitlements) :
            e.payment \in Period /\ e.payment <= session => e.status = "PAID"

\* Nothing is held or waits to be bought of a symbol that is delisted.
DelistedGone ==
    \A a \in ToSet(actions) :
        /\ a.type = "DELISTING" /\ a.ex <= session
        /\ pc \notin {"FAILED", "SAVED"}
        => /\ position[a.symbol].total = 0
           /\ \A o \in ToSet(orders) : o.symbol = a.symbol => o.status # "PENDING"

\* The reported drawdown is the worst decline between any two days.
DrawdownIsWorst ==
    pc = "COMPLETED" =>
        max_drawdown(daily) =
            Max({0} \cup {decline(daily[p[1]], daily[p[2]]) :
                            p \in {q \in (DOMAIN daily) \X (DOMAIN daily) :
                                      q[1] < q[2]}})

\* docs/BACKTESTING.md:79: "New shares remain locked until `tradable_date`".
LockedUntilTradable ==
    [][\A s \in Symbols : position'[s].locked < position[s].locked =>
         \A a \in ToSet(actions) :
            a.symbol = s /\ a.type \in BonusTypes /\ a.ex < session'
                => a.tradable <= session']_vars

\* Positions are whole through purchases, sales and every corporate action: no
\* bucket is negative, none loses a share, and what was bought today is held
\* back until the next session.
PositionsKept == TypeOK /\ SharesInBuckets /\ TodayHeldBack

\* The reported equity follows from the fills, prices and dividends, and the
\* reported drawdown from the equity of the days.
EquityReported == EquityExplained /\ DrawdownIsWorst

\* An order is not carried over what made it meaningless: it is not filled over
\* an ex date, and nothing of a delisted symbol waits or is held.
OrdersHeedActions == NoFillOverExDate /\ DelistedGone

\* A dividend is earned by the right holding and paid on its day.
DividendsRight == DividendFollowsHolding /\ DividendPaid
=============================================================================
