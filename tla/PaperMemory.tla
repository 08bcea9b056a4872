---------------------------- MODULE PaperMemory ----------------------------
(***************************************************************************)
(* PaperTradingService of src/app/paper.py: the paper-trading service that *)
(* keeps one account's book in memory.  Its caller hands it market events, *)
(* prices, scheduled tasks and the moments to send notifications, in any   *)
(* order.  A call that raises keeps what it changed before: there is no    *)
(* transaction to roll back.  The notifications it posts are left out:     *)
(* no operation reads them.                                                *)
(*                                                                         *)
(* The clock counts half days.  Every half day belongs to a trading        *)
(* session; calls for a day that is none are refused and change nothing.   *)
(***************************************************************************)
EXTENDS Matching, RiskRules, Sequences, SequencesExt

CONSTANTS
    Symbols,        \* traded symbols, numbers
    Proposals,      \* sequence of [symbol, quantity, reference, expires]
    Keys,           \* idempotency keys of accept_proposal
    Events,         \* ids of market events
    Bars,           \* bars a market event may carry
    Previous,       \* the previous close every bar is compared with
    Marks,          \* prices monitor_positions may be called with; 0: no price
    SellQuantities, \* quantities create_sell_order may be called with
    Limits,         \* limit prices of create_sell_order, 0 for none
    InitialCash,
    OrderTTL,       \* half days until an order expires
    MaxClock, MaxOrders, MaxAttempts, MaxCalls     \* bounds

VARIABLES
    now,        \* the clock
    account,    \* PaperAccount
    position,   \* PaperPosition of each symbol
    orders,     \* PaperOrders in the order they were created
    keys,       \* _fill_keys: market events each order was matched against
    ledger,     \* what the ledger entries add up to, and the last entry
    status,     \* proposal_status
    tasks,      \* attempts of each task run
    calls,      \* number of operations called so far (for the bound)
    traded      \* the fills there were, summed up by symbol (history)

ASSUME PaperMemoryAssumption ==
    /\ Symbols \subseteq Nat /\ IsFiniteSet(Symbols)
    /\ Proposals \in Seq([symbol : Symbols, quantity : Nat \ {0},
                          reference : Nat, expires : Nat])
    /\ Bars \subseteq Bar /\ Marks \subseteq Nat /\ Limits \subseteq Nat
    /\ SellQuantities \subseteq Nat \ {0}
    /\ {Previous, InitialCash, OrderTTL, MaxClock} \subseteq Nat
    \* no fee but commission and tax: the ledger has no entry for others
    /\ Fees.otherBuy = 0 /\ Fees.otherSell = 0 /\ Fees.transfer = 0

vars == <<now, account, position, orders, keys, ledger, status, tasks,
          calls, traded>>

----------------------------------------------------------------------------
AccountStatus == {"ACTIVE", "PAUSED", "RISK_OFF"}
ActiveOrder == {"PAPER_PENDING", "PARTIALLY_FILLED"}
OrderStatus == ActiveOrder \cup {"FILLED", "EXPIRED", "REJECTED",
    "BLOCKED_T1", "BLOCKED_SUSPENSION", "BLOCKED_PRICE_LIMIT",
    "BLOCKED_RISK", "BLOCKED_STALE_DATA"}

Account == [status : AccountStatus, available : Int, frozen : Int,
            value : Nat, unrealized : Int, peak : Nat]
\* average is the average cost in hundredths of a fen
Position == [total : Nat, available : Nat, today : Nat, locked : Nat,
             average : Nat, last : Nat]
Order == [symbol : Symbols, side : Sides, type : OrderTypes, limit : Nat,
          quantity : Nat, remaining : Nat, expires : Nat,
          status : OrderStatus, proposal : {0} \cup DOMAIN Proposals,
          key : Keys \cup {"none"}]
Ledger == [cash : Int, available : Int, frozen : Int]

TaskTypes == {"SESSION_START", "DAILY_REPORT"}
ProposalMoves ==
    [s \in {"PROPOSED", "REVIEWED", "ACCEPTED", "REJECTED", "EXPIRED",
            "CANCELLED"} |->
       CASE s = "PROPOSED" -> {"REVIEWED", "ACCEPTED", "REJECTED", "EXPIRED",
                               "CANCELLED"}
         [] s = "REVIEWED" -> {"ACCEPTED", "REJECTED", "EXPIRED", "CANCELLED"}
         [] OTHER -> {}]

Day == now \div 2
Equity(a) == a.available + a.frozen + a.value

\* Decimal.quantize of n / d: to the nearest, a half to the even neighbour.
quantize(n, d) ==
    LET q == n \div d
        r == 2 * (n % d)
    IN  IF r > d \/ (r = d /\ q % 2 = 1) THEN q + 1 ELSE q

Init ==
    /\ now = 0
    /\ account = [status |-> "ACTIVE", available |-> InitialCash, frozen |-> 0,
                  value |-> 0, unrealized |-> 0, peak |-> InitialCash]
    /\ position = [s \in Symbols |-> [total |-> 0, available |-> 0, today |-> 0,
                                      locked |-> 0, average |-> 0, last |-> 0]]
    /\ orders = <<>>
    /\ keys = {}
    /\ ledger = [cash |-> InitialCash, available |-> InitialCash, frozen |-> 0]
    /\ status = [p \in DOMAIN Proposals |-> "PROPOSED"]
    /\ tasks = [t \in TaskTypes |-> [d \in 0..(MaxClock \div 2) |-> 0]]
    /\ calls = 0
    /\ traded = [s \in Symbols |-> [bought |-> 0, sold |-> 0, today |-> 0]]

----------------------------------------------------------------------------
(* A handler works on the whole book, order by order: book is the state a  *)
(* loop starts from, and b what it has made of it so far.                  *)

book == [account |-> account, position |-> position, orders |-> orders,
         keys |-> keys, ledger |-> ledger,
         traded |-> traded, raised |-> FALSE]

Commit(b) ==
    /\ account' = b.account
    /\ position' = b.position
    /\ orders' = b.orders
    /\ keys' = b.keys
    /\ ledger' = b.ledger
    /\ traded' = b.traded

\* _ledger: an entry of some amount, with the balances it leaves.
Booked(b, amount) ==
    [b EXCEPT !.ledger = [cash |-> @.cash + amount,
                          available |-> b.account.available,
                          frozen |-> b.account.frozen]]

mark(pos, price) == [pos EXCEPT !.last = price]
market_value(pos) == pos.last * pos.total
unrealized_pnl(pos) == quantize((100 * pos.last - pos.average) * pos.total, 100)

\* PaperPosition.buy
bought(pos, quantity, paid, price) ==
    [mark(pos, price) EXCEPT
        !.average = quantize(pos.average * pos.total + 100 * paid,
                             pos.total + quantity),
        !.total = @ + quantity,
        !.today = @ + quantity]

\* PaperPosition.freeze_for_sell, release_frozen, release_t1
freeze_for_sell(pos, quantity) ==
    [pos EXCEPT !.available = @ - quantity, !.locked = @ + quantity]
release_frozen(pos, quantity) ==
    LET release == Lesser(quantity, pos.locked)
    IN  [pos EXCEPT !.locked = @ - release, !.available = @ + release]
release_t1(pos) == [pos EXCEPT !.available = @ + pos.today, !.today = 0]

\* PaperPosition.sell: the locked shares go first (mutant: the shares beyond
\* the locked ones are not taken from anywhere).
SoldUnlocked(pos, quantity, price) ==
    [pos EXCEPT !.total = @ - quantity, !.locked = Greater(0, @ - quantity),
                !.last = price]
sold(pos, quantity, price) ==
    LET left == pos.total - quantity
        unlocked == Greater(0, quantity - pos.locked)
    IN  [pos EXCEPT
            !.total = left,
            !.locked = Greater(0, @ - quantity),
            !.available = Greater(0, @ - unlocked),
            !.average = IF left = 0 THEN 0 ELSE @,
            !.last = IF left = 0 THEN 0 ELSE price]

\* _revalue_account
Revalued(b) ==
    LET value == SumFunction([s \in Symbols |-> market_value(b.position[s])])
        pnl == SumFunction([s \in Symbols |-> unrealized_pnl(b.position[s])])
        a == [b.account EXCEPT !.value = value, !.unrealized = pnl]
    IN  [b EXCEPT !.account = [a EXCEPT !.peak = Greater(@, Equity(a))]]

\* _release_order
Released(b, i) ==
    LET o == b.orders[i]
    IN  IF o.side = "SELL"
        THEN Booked([b EXCEPT !.position[o.symbol] =
                                  release_frozen(@, o.remaining)], 0)
        ELSE IF b.account.frozen > 0
        THEN Booked([b EXCEPT !.account.available = @ + b.account.frozen,
                              !.account.frozen = 0], 0)
        ELSE b

\* An order leaves the market for good (mutant: its cash stays frozen).
ClosedUnreleased(b, i, to) == [b EXCEPT !.orders[i].status = to]
Closed(b, i, to) == Released([b EXCEPT !.orders[i].status = to], i)

\* What a buy takes from the cash (mutant: without its commission).
ValueOnly(fill) == fill.value
total_cost(fill) == fill.value + fill.fee.commission + fill.fee.other

\* The history of a symbol with one more fill.
MoreBought(h, quantity) ==
    [h EXCEPT !.bought = @ + quantity, !.today = @ + quantity]
MoreSold(h, quantity) == [h EXCEPT !.sold = @ + quantity]

\* _apply_fill
Applied(b, i, fill) ==
    LET o == b.orders[i]
        s == o.symbol
        proceeds == fill.value - fill.fee.commission - fill.fee.tax
                    - fill.fee.other
        release == Greater(0, b.account.frozen - total_cost(fill))
        buy == [b EXCEPT
            !.account.frozen = @ - total_cost(fill) - release,
            !.account.available = @ + release,
            !.position[s] = bought(@, fill.quantity, total_cost(fill), fill.price),
            !.traded[s] = MoreBought(@, fill.quantity)]
        sale == [b EXCEPT
            !.account.available = @ + proceeds,
            !.position[s] = sold(@, fill.quantity, fill.price),
            !.traded[s] = MoreSold(@, fill.quantity)]
    IN  IF fill.side = "BUY"
        THEN Revalued(Booked(buy, -fill.value - fill.fee.commission))
        ELSE Revalued(Booked(sale, fill.value - fill.fee.commission
                                   - fill.fee.tax))

\* What the matching engine sees of a paper order: a new order of this
\* session with the open quantity.
matched(o) == [status |-> "PENDING", side |-> o.side, type |-> o.type,
               limit |-> o.limit, remaining |-> o.remaining,
               earliest |-> Day, expiry |-> Day]

\* _execute_order, with the cash and shares of _matching_portfolio
Executed(b, i, bar, e) ==
    LET o == b.orders[i]
        pos == b.position[o.symbol]
        result == execute(matched(o), bar, Previous,
                          b.account.available + b.account.frozen,
                          pos.available + pos.locked, Day)
        seen == [b EXCEPT !.keys = @ \cup {<<i, e>>}]
        blocked == [seen EXCEPT !.orders[i].status = result.status]
        filled == [blocked EXCEPT !.orders[i].remaining = result.remaining]
    IN  IF result.fill # NoFill
        THEN Applied(filled, i, result.fill)
        ELSE IF result.status \in {"PENDING", "BLOCKED_LIQUIDITY"} THEN seen
        ELSE IF o.side = "BUY" \/ result.status \in {"EXPIRED", "REJECTED"}
        THEN Released(blocked, i)
        ELSE blocked

\* account_snapshot, which no account with negative cash has.
Snapshot(b, s) ==
    [equity |-> Greater(1, Equity(b.account)), cash |-> b.account.available,
     marketValue |-> b.account.value, frozen |-> b.account.frozen,
     dailyPnl |-> b.account.unrealized,
     peak |-> Greater(Greater(b.account.peak, Equity(b.account)), 1),
     losses |-> 0, symbolValue |-> market_value(b.position[s]),
     industryValue |-> NoIndustry]
HasSnapshot(b) == b.account.available >= 0 /\ b.account.frozen >= 0

\* The signal stub of _risk_allows: a buy has no limit price, so it is sized
\* as a stock of one yuan with a stop 5% lower.
RiskDecision(b, o) == evaluate("BUY_WATCH", Snapshot(b, o.symbol), 100, 95)

\* _risk_allows
RiskBlocks(b, o) == b.account.status # "ACTIVE"

\* An event is matched against an order once.
AlreadyMatched(b, i, e) == <<i, e>> \in b.keys

\* A buy that the risk recheck refuses is closed, one it reduces goes on with
\* the smaller quantity.
Rechecked(b, i, bar, e) ==
    LET o == b.orders[i]
        decision == RiskDecision(b, o)
        refused(c) == Closed(c, i, "BLOCKED_RISK")
    IN  IF RiskBlocks(b, o) THEN refused(b)
        ELSE IF ~HasSnapshot(b) THEN [b EXCEPT !.raised = TRUE]
        ELSE IF decision.status = "RISK_OFF"
        THEN refused([b EXCEPT !.account.status = "RISK_OFF"])
        ELSE IF decision.approved < Rules.lot THEN refused(b)
        ELSE Executed([b EXCEPT !.orders[i].remaining =
                         Lesser(o.remaining, decision.approved)], i, bar, e)

----------------------------------------------------------------------------
(* The operations.                                                         *)

Tick ==
    /\ now < MaxClock
    /\ now' = now + 1
    /\ traded' = IF now' \div 2 = Day THEN traded
                 ELSE [s \in Symbols |-> [traded[s] EXCEPT !.today = 0]]
    /\ UNCHANGED <<account, position, orders, keys, ledger, status, tasks,
                   calls>>

\* transition_proposal, called by a user
TransitionProposal(p, to) ==
    /\ to \in ProposalMoves[status[p]] \ {"ACCEPTED"}
    /\ status' = [status EXCEPT ![p] = to]
    /\ UNCHANGED <<now, account, position, orders, keys, ledger, tasks, traded>>

Live(i) == orders[i].status \in ActiveOrder

NewOrder(s, side, type, limit, quantity, p, k) ==
    [symbol |-> s, side |-> side, type |-> type, limit |-> limit,
     quantity |-> quantity, remaining |-> quantity, expires |-> now + OrderTTL,
     status |-> "PAPER_PENDING", proposal |-> p, key |-> k]

\* accept_proposal once the signal's checks are passed.  The proposal's status
\* is looked at last: a proposal that was rejected, cancelled or expired makes
\* the call raise after the cash is frozen and the order is in the book.
AcceptProposal(p, k) ==
    LET freeze == quantize(Proposals[p].reference * Proposals[p].quantity * 103,
                           100)
        frozen == [book EXCEPT !.account.available = @ - freeze,
                               !.account.frozen = @ + freeze]
        placed == [Booked(frozen, 0) EXCEPT !.orders =
                     Append(@, NewOrder(Proposals[p].symbol, "BUY",
                                        "MARKET_ON_NEXT_OPEN", NoPrice,
                                        Proposals[p].quantity, p, k))]
    IN  /\ account.status = "ACTIVE"
        /\ now <= Proposals[p].expires
        /\ \A i \in DOMAIN orders : orders[i].key # k
        /\ ~\E i \in DOMAIN orders : orders[i].proposal = p /\ Live(i)
        /\ freeze <= account.available
        /\ Len(orders) < MaxOrders
        /\ IF status[p] = "ACCEPTED" \/ "ACCEPTED" \in ProposalMoves[status[p]]
           THEN status' = [status EXCEPT ![p] = "ACCEPTED"]
           ELSE UNCHANGED status
        /\ Commit(placed)
        /\ UNCHANGED <<now, tasks>>

\* accept_proposal of a proposal that has expired
AcceptExpired(p) ==
    /\ account.status = "ACTIVE"
    /\ now > Proposals[p].expires
    /\ "EXPIRED" \in ProposalMoves[status[p]]
    /\ status' = [status EXCEPT ![p] = "EXPIRED"]
    /\ UNCHANGED <<now, account, position, orders, keys, ledger, tasks, traded>>

Selling(b, s) ==
    \E i \in DOMAIN b.orders : /\ b.orders[i].symbol = s
                               /\ b.orders[i].side = "SELL"
                               /\ b.orders[i].status \in ActiveOrder

\* create_sell_order where no sell order of the symbol is active: the shares
\* are locked if that many can be sold, and the order is created anyway.
SellPlaced(b, s, quantity, limit) ==
    LET locked == IF quantity > b.position[s].available THEN b
                  ELSE Booked([b EXCEPT !.position[s] =
                                   freeze_for_sell(@, quantity)], 0)
        type == IF limit = NoPrice THEN "MARKET_ON_NEXT_OPEN" ELSE "LIMIT"
    IN  [locked EXCEPT !.orders =
            Append(@, NewOrder(s, "SELL", type, limit, quantity, 0, "none"))]

CreateSellOrder(s, quantity, limit) ==
    /\ ~Selling(book, s)
    /\ quantity \in 1..position[s].total
    /\ Len(orders) < MaxOrders
    /\ Commit(SellPlaced(book, s, quantity, limit))
    /\ UNCHANGED <<now, status, tasks>>

\* process_market_event looks at every order of the symbol, oldest first, until
\* a risk check raises.
Matched(b, i, s, bar, e) ==
    LET o == b.orders[i] IN
    IF \/ b.raised \/ o.symbol # s
       \/ o.status \notin ActiveOrder \/ AlreadyMatched(b, i, e) THEN b
    ELSE IF now > o.expires THEN Closed(b, i, "EXPIRED")
    ELSE IF o.side = "BUY" THEN Rechecked(b, i, bar, e)
    ELSE Executed(b, i, bar, e)

ProcessMarketEvent(s, bar, e) ==
    LET step(b, i) == Matched(b, i, s, bar, e)
    IN  /\ Commit(FoldLeft(step, book, [i \in DOMAIN orders |-> i]))
        /\ UNCHANGED <<now, status, tasks>>

\* process_market_event with data of another day: _block_symbol_orders
StaleMarketEvent(s) ==
    LET step(b, i) == IF b.orders[i].symbol = s
                         /\ b.orders[i].status \in ActiveOrder
                      THEN Closed(b, i, "BLOCKED_STALE_DATA") ELSE b
    IN  /\ Commit(FoldLeft(step, book, [i \in DOMAIN orders |-> i]))
        /\ UNCHANGED <<now, status, tasks>>

\* PaperTradingService.release_t1 (mutant: it stops at the first position)
T1ReleasedFirst(b) ==
    LET s == Min(Symbols) IN
    [b EXCEPT !.position[s].available = @ + b.position[s].today,
              !.position[s].today = 0]
T1Released(b) ==
    IF \A s \in Symbols : b.position[s].today = 0 THEN b
    ELSE Booked([b EXCEPT !.position = [s \in Symbols |-> release_t1(@[s])]], 0)

\* daily_settlement; prices may leave symbols out (price 0)
Settled(b, prices) ==
    LET marked == [b EXCEPT !.position = [s \in Symbols |->
                     IF prices[s] = NoPrice THEN @[s] ELSE mark(@[s], prices[s])]]
    IN  Booked(Revalued(marked), 0)

DailySettlement(prices) ==
    /\ Commit(Settled(book, prices))
    /\ UNCHANGED <<now, status, tasks>>

\* monitor_positions, by symbol: a position beyond its stop or its target is sold, as far
\* as T+1 allows and unless a sell order is active already.
Trigger(pos, price) ==
    IF price <= quantize(pos.average * 95, 10000) THEN "STOP_LOSS_TRIGGERED"
    ELSE IF price >= quantize(pos.average * 108, 10000)
    THEN "TAKE_PROFIT_TRIGGERED"
    ELSE "none"

Monitored(b, s, price) ==
    LET marked == [b EXCEPT !.position[s] = mark(@, price)]
        pos == marked.position[s]
        reason == Trigger(pos, price)
    IN  IF pos.total = 0 THEN b
        ELSE IF reason = "none" \/ Selling(marked, s) \/ pos.available = 0
        THEN marked
        ELSE SellPlaced(marked, s, pos.available, NoPrice)

\* The loop raises at the first holding without a price; what it did before stays.
Raised(prices, s) ==
    \E m \in Symbols : m <= s /\ position[m].total > 0 /\ prices[m] = NoPrice

Visited(b, s, prices) == IF Raised(prices, s) THEN b ELSE Monitored(b, s, prices[s])

MonitorPositions(prices) ==
    LET step(s, b) == Visited(b, s, prices)
    IN  /\ Len(orders) + Cardinality(Symbols) <= MaxOrders
        /\ Commit(MapThenFoldSet(step, book, LAMBDA s : s, Max, Symbols))
        /\ UNCHANGED <<now, status, tasks>>

\* run_task: a task that has run in this session is skipped unless it is a
\* retry.  SUCCESS is recorded before the work is done.
MayRun(t, retry) == tasks[t][Day] = 0 \/ retry

RunTask(t, retry) ==
    /\ MayRun(t, retry)
    /\ tasks[t][Day] < MaxAttempts
    /\ tasks' = [tasks EXCEPT ![t][Day] = @ + 1]
    /\ Commit(CASE t = "SESSION_START" -> T1Released(book)
                [] t = "DAILY_REPORT" ->
                     Settled(book, [s \in Symbols |-> NoPrice]))
    /\ UNCHANGED <<now, status>>

\* recover_account finds nothing to repair: no order is ever SUBMITTED here
\* and the deposit entry is never changed.
Operation ==
    \/ \E p \in DOMAIN Proposals, to \in {"REVIEWED", "REJECTED", "CANCELLED"} :
         TransitionProposal(p, to)
    \/ \E p \in DOMAIN Proposals, k \in Keys : AcceptProposal(p, k)
    \/ \E p \in DOMAIN Proposals : AcceptExpired(p)
    \/ \E s \in Symbols, l \in Limits :
         \E q \in SellQuantities : CreateSellOrder(s, q, l)
    \/ \E s \in Symbols, bar \in Bars, e \in Events :
         ProcessMarketEvent(s, bar, e)
    \/ \E s \in Symbols : StaleMarketEvent(s)
    \/ \E prices \in [Symbols -> Marks] : MonitorPositions(prices)
    \/ \E prices \in [Symbols -> Marks] : DailySettlement(prices)
    \/ \E t \in TaskTypes, retry \in BOOLEAN : RunTask(t, retry)

Call == calls < MaxCalls /\ calls' = calls + 1 /\ Operation

\* The caller may stop at any time.
Rest == UNCHANGED vars

Next == Tick \/ Call \/ Rest

Spec == Init /\ [][Next]_vars

----------------------------------------------------------------------------
(* Properties.                                                             *)

TypeOK ==
    /\ now \in 0..MaxClock
    /\ account \in Account
    /\ position \in [Symbols -> Position]
    /\ orders \in Seq(Order)
    /\ keys \subseteq (DOMAIN orders) \X Events
    /\ ledger \in Ledger
    /\ status \in [DOMAIN Proposals -> DOMAIN ProposalMoves]
    /\ tasks \in [TaskTypes -> [0..(MaxClock \div 2) -> Nat]]
    /\ traded \in [Symbols -> [bought : Nat, sold : Nat, today : Nat]]

\* The cash of the account is what its ledger explains, and the last entry
\* shows the balances as they are: whatever is frozen, released and settled
\* twice over by overlapping orders, no money appears or disappears.
LedgerExplainsCash ==
    /\ account.available + account.frozen = ledger.cash
    /\ ledger.available = account.available
    /\ ledger.frozen = account.frozen

\* Every share bought and not sold is in exactly one bucket of its position:
\* to be sold, bought today, or locked for a sell order.
SharesInBuckets ==
    \A s \in Symbols :
        /\ position[s].total = traded[s].bought - traded[s].sold
        /\ position[s].total = position[s].available + position[s].today
                               + position[s].locked

\* Cash is frozen only while a buy order is active that may still use it.
FrozenCashHasOrder ==
    account.frozen > 0 => \E i \in DOMAIN orders :
                              orders[i].side = "BUY" /\ Live(i)

\* Once SESSION_START of the day has run, the shares of earlier days can be
\* sold: at most today's purchases are held back.  The task is marked SUCCESS
\* before it releases anything, and is then not run again.
StartedSessionReleased ==
    tasks["SESSION_START"][Day] > 0 =>
        \A s \in Symbols : position[s].today <= traded[s].today


\* Positions are whole, whatever call fails half-way: no bucket is ever
\* negative, and no share is lost between buying, locking and selling it.
PositionsKept == TypeOK /\ SharesInBuckets
=============================================================================
