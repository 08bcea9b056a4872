# Stock Guard: verification of the trading core and its services

This directory holds TLA+ models of Stock Guard (`src/app`), the TLC
configurations that check them on small instances, and proofs that TLAPS checks
for every instance. The models follow the code at the commit in `src/`; every
definition that stands for code is listed with its lines in `PROJECT.json`
("map").

## 1. The system

Stock Guard scans a watchlist, proposes orders, and trades them on paper. There
is no broker. State lives in one database (SQLite by default, PostgreSQL
optionally), written by the HTTP API, by a paper runtime that runs scheduled
tasks, and by job scripts started from cron.

| component | code | state | operations |
|---|---|---|---|
| Paper book, HTTP side | `api/paper.py` | accounts (status, available and frozen cash), proposals, orders, ledger entries | create account, pause, resume, review / reject / cancel / accept proposal, cancel order |
| Paper book, market monitor | `paper_monitor.py`, `repositories.py` | orders, fills, positions, order-event rows, market snapshots | claim a batch of orders, process one order against the latest snapshot, save a snapshot |
| Matching engine | `backtest.py` (MatchingEngine) | none | how much of an order a bar fills, or why not |
| Settlement | `paper_monitor.py` (PaperSettlementService) | account snapshot rows, account status | settle all accounts or one |
| Recovery | `paper_runtime.py` (RecoveryService) | account status, task rows, issues | run |
| Task runtime | `paper_runtime.py`, `repositories.py` | task rows, lease rows | run a task under a lease, recover RUNNING rows |
| Notification outbox | `paper_runtime.py` (NotificationWorker) | outbox rows with retry counts | enqueue, send a batch |
| Transaction runner | `transactions.py` | none | run, roll back, retry |
| In-memory paper service | `paper.py` | the same entities as Python objects, used by tests and the demonstration flow | accept, sell, process market event, release T+1, settle, run task, recover |
| Risk engine | `risk.py`, `risk_service.py` | risk decisions, proposals | evaluate, create a proposal |
| Backtest | `backtest.py` | portfolio, T+1 lots, orders, corporate actions | run over sessions |
| Realtime quotes | `realtime_quotes.py` | quote rows, provider health, shadow runs, admission results, degradation events | fetch, normalise, save, select, degrade, admit |
| Ingestion jobs | `data_jobs.py`, `public_market_data.py` | ingestion run rows | run a job unless one is RUNNING |
| Scheduler and local jobs | `scheduler.py`, `local_jobs.py`, `recommendations.py` | queued task rows | enqueue once a day, pick and run one |
| Daily bars | `data_provider.py` | cache files, rate-limiter slots | fetch with retries, cache |
| Strategy, scan | `strategy.py`, `service.py` | signal rows | score, save |
| Authentication | `auth.py`, `api/auth.py` | users, sessions | log in, refresh, log out |
| Schema, migrations, backup | `db.py`, `schema.py`, `migrations/` | tables and constraints | upgrade, back up |
| Read-only API, frontend, configuration, deployment | `api/v1.py`, `api/market.py`, `main.py`, `frontend/`, `config.py`, ... | none of their own | queries, views |

How they interact: a signal from the scan is sized by the risk engine and stored
as a proposal. `accept_proposal` turns a proposal into a buy order and freezes
cash. The market monitor, started by the task runtime as one of its tasks, claims
orders, reads the latest snapshot of the symbol, asks the risk engine again, asks
the matching engine, and books the fill. Settlement and recovery are also tasks of
the runtime; they read the book and pause accounts they find inconsistent. All of
them put messages into the outbox.

What is hard about it: the monitor works on order ids it claimed in an earlier
transaction, so anything may happen in between; several API threads and runtime
instances work on the same rows; one frozen balance per account is shared by all of
its orders; three components have their own list of "active" order statuses; tasks
are repeated and must not repeat their effects; transactions fail at any point and
are retried. `PROJECT.json` ("hazards") lists each of these at its line, with the
properties that guard it.

What makes each component correct:

* book: an order is created once per proposal and filled once per event, never
  beyond its quantity, never after it is closed; cash is never negative, never
  created or lost against the ledger, and frozen cash belongs to some order;
* settlement, recovery: one snapshot per account and day, written only from a
  consistent book; accounts are held only for a reason, and a held account does
  not trade;
* task runtime: a task succeeds at most once a day, one runner at a time;
* outbox: every message is sent or given up after the configured attempts;
* quotes: a quote that is matched against is valid, fresh and the newest; health
  never jumps from broken to healthy; a provider is not admitted early;
* jobs, cache, rate limiter, sessions: one run at a time, no leaked slot, a revoked
  session stays revoked.

## 2. Modules

| module | what it is |
|---|---|
| `OrderPromise` | what the book promises about orders, with no accounts, prices or monitors |
| `PaperBook` | the book: HTTP handlers, market snapshots, monitors, fills and cash |
| `BookSessions` | `PaperBook` with transactions that overlap: read first, commit later |
| `PaperSettlement` | extends `PaperBook` with settlement and recovery |
| `Matching` | the matching engine as operators: rules, fees, slippage, what a bar does to an order |
| `RiskRules` | the risk engine as operators: from an account and a signal to a decision and a proposal |
| `PaperMemory` | the in-memory paper trading service, over `Matching` and `RiskRules` |
| `Backtest` | the backtest engine, its portfolio and corporate actions, over `Matching` and `RiskRules` |
| `QuoteFeed` | quote gateways, normalisation, health, recording, selection |
| `ShadowAdmission` | extends `QuoteFeed` with daily reports, admission, degradation and the connectivity check |
| `TaskRuntime` | one scheduled task of a day, run by several runtime instances |
| `Jobs` | the job queue, what fills it, and the ingestion jobs |
| `Outbox` | the notification outbox and its worker |
| `AuthSession` | users, sessions and the cookies of browsers |
| `DailyBars` | the daily bar provider: cache, rate limiter, retries, validation |
| `MCPaperBook`, `MCBookSessions`, `MCPaperSettlement`, `MCPaperMemory`, `MCBacktest`, `MCQuoteFeed`, `MCShadowAdmission` | instances for TLC |
| `MCDaily`, `MCAdmission`, `MCServices` | instances of several components side by side |
| `SetFolds` | lemmas about finite sets: induction over subsets, folds and sums over a set, the greatest element |
| `PaperBookProofs` | theorems and proofs about `PaperBook`, `PaperSettlement` and `BookSessions` |
| `PaperMemoryProofs`, `BacktestProofs` | theorems and proofs about the module of that name |
| `MatchingProofs` | lemmas about the operators of `Matching` and `RiskRules`: what an execution and a decision may be |
| `FeedProofs` | theorems and proofs about `QuoteFeed` and `ShadowAdmission` |
| `BackgroundProofs` | theorems and proofs about `TaskRuntime`, `Jobs` and `Outbox` |
| `ServiceProofs` | theorems and proofs about `AuthSession` and `DailyBars` |

Components that share state are composed by extension: settlement works on the rows of
the book, admission on the rows of the feed, the backtest and the in-memory service
call the operators of matching and risk. The components of `MCDaily`, `MCAdmission` and
`MCServices` share no state and no variable; the variable `part` picks one of them, whose steps
are taken while the others rest, so that one run checks each of them on its own. This
only saves runs: nothing is claimed about their interleaving, and nothing needs to be. The
one part taken in two is the admission: the operator's reports and evaluations, and the connectivity
check. Both watch the same feed, neither reads what the other writes.

Definitions marked "(mutant: ...)" are plausible bugs of the definition that follows
them. They are part of no specification; `PROJECT.json` ("mutants") says which property
notices each when it takes the place of the definition.

### PaperBook

Each action is one committed transaction of the code.

| variable | code |
|---|---|
| `clock` | the business day |
| `account` | `paper_accounts`: status, cash_available, cash_frozen |
| `ledger` | sum of INITIAL_DEPOSIT, BUY_SETTLED and COMMISSION_CHARGED amounts; CASH_FROZEN and CASH_RELEASED only move cash within the account |
| `proposal` | status column of `proposed_orders` |
| `order` | `paper_orders`, by idempotency key (unique) |
| `decided` | COMPLETED rows of `paper_order_market_events` |
| `fills`, `holding` | `paper_fills`, total_quantity of `paper_positions` |
| `feed` | the newest `paper_market_snapshots` row of each symbol |
| `batch` | order ids in `run_once`'s local list |

A handler that answers 409 changes nothing and is no action; the one that commits
before it answers (`AcceptExpired`) is. `_process_order_tx` is split by outcome:
inactive account, suspended, risk off, risk rejected, unmatched, filled, or nothing
at all (`ProcessNothing`: a missing or stale snapshot, an order that is no longer
executable, an event already completed, or an exception that rolled the attempt
back). `Decidable` is the sequence of checks those outcomes share, and `Fill` is the
whole of the booking, the release of what is left frozen included.

Abstractions: quantities are lots. Money is integers in hundredths of the price unit,
so that the 3% margin is exact; the commission is its flat minimum (the rate applies
to larger trades and changes no property) and the other fees are zero, as in the
`FeeConfig` the monitor is built with. The verdict of the risk engine is any verdict
and any reduction. A tick of the clock is a day; orders and proposals expire at some
hour of a day, so on that day both outcomes are possible. The limit and ordering of a
batch are "some non-empty subset". Account creation is the initial state.

Left out: sell orders, locked positions and T+1 (no code in `src` creates a sell
order in this path), shadow decisions (they change no account), event outcomes and
outbox rows, average cost, market value and equity (settlement recomputes equity from
its parts right before it compares them, so that check cannot fail), the branch for
a duplicate fill row (theorem `NoDuplicateFill`: it cannot be reached),
and the statuses no code sets (SUBMITTED, EXPIRED, BLOCKED_T1, BLOCKED_STALE_DATA,
CLOSED).

In `PaperBook` one transaction follows another, in any order; what happens when they
overlap is the subject of `BookSessions`.

### BookSessions

The handlers and the monitor read rows without locks, and the `version` columns are
counted up but compared nowhere, so two transactions that overlap can overwrite each
other. `BookSessions` splits each of them: a `Begin...` action reads the rows and
computes what the session will write, `Commit` issues the UPDATEs (of the columns that
changed, as SQLAlchemy does) and the INSERTs, and fails where a unique constraint refuses
a row (`Refused`); `RollBack` is that failure, a lost process, or an attempt that the
transaction runner repeats. Guards and results are those of `PaperBook`, shared through its
operators (`MayAccept`, `NewOrder`, `Decidable`, `MatchedLots`, `PaidFromFrozen`, ...).
`released` are the CASH_RELEASED entries, whose id is unique per order.

`stale` is history: some session has written a row that had changed since it was read.
`ConstraintsHold` is what the database guarantees in any case: one order per proposal, one
fill per order and event, no negative balance. `OnlyStaleWritesHurt` says that the rest of
what `PaperBook` promises fails only after such a write, so that a comparison of
`version` in every UPDATE would be enough to keep it. After a stale write nearly
everything can fail: an accept that overlaps a fill gives the spent cash back, a review that
overlaps an accept reopens the proposal, a fill that overlaps a cancel fills the
cancelled order.

A session reads all its rows at one moment. One that reads some of them later sees either the
same rows or a row that somebody changed in between; the second kind is not covered where
it then writes only rows that did not change (a lock-free read of several rows that do
not belong together). Holds of accounts are left out; they write the status column, as
`BeginPause` does. Claims and snapshots are single statements.

### PaperSettlement

`Settle` visits the accounts in order, skips the ones that have their snapshot, writes
the others', and stops at the first it cannot settle, which it pauses and commits.
`Recover` pauses every account whose frozen cash it thinks orphaned. `held` remembers
which accounts were ever held. In `PaperBook` the pause is `HoldAccounts` of any set,
so that everything shown there holds whoever pauses accounts.

### TaskRuntime

One task key, as keys do not interact, and PostgreSQL at READ COMMITTED. A call of
`run_task` is one transaction, so `task` and `lease` hold the committed rows and
`holder` is the instance whose open transaction has written both. `step` follows
`ScheduledTaskStore.run` between the points where another session can come in: the
task row is read (`Begin`), the lease row is read with SKIP LOCKED (`ReadLease`,
`MissLease`), inserted, which waits for a transaction that has the row and then fails
on the unique key (`InsertLease`), and the outcome is committed (`Succeed`, `Fail`) or
lost (`Abort`: a crash, or an exception that leaves `run_task`). A call that is refused
the lease writes RUNNING and LEASE_HELD into the task row (`MarkHeld`). A startup
recovery run reads RUNNING rows (`FindRunning`), waits for the row and updates it
(`MarkRecovered`). `seen` is the row a call read when it began, which is what it counts
attempts from; the UPDATE of a status leaves the committed attempt alone.

`failures`, `successes` and `overlapped` are history. A lease that has expired or not
is a free choice, so no clock is needed; as `LeaseFreeBetweenRuns` shows, the question
never arises, because a lease is taken and released in one transaction. What the task
function does is not modelled: it succeeds, fails, or its process dies. It commits
through sessions of its own, so an `Abort` may come after its work was done; the
model counts committed successes only.

Left out: `heartbeat` and `recover_timed_out_running` (nothing in `src` calls them), the
recovery task's update of its own row, and SQLite, where the first writer locks the
whole database.

### Matching and RiskRules

`Matching` is `MatchingEngine.execute` from the raw price of an order to a fill with fees
or a blocking reason: tick rounding against the trader, price limits, participation of
the bar's volume, whole lots, the trimming of a buy that its cash does not cover.
`RiskRules` is `RiskEngine.evaluate` and `build_proposed_order`: drawdown and loss limits,
the capacities under each limit, the smallest of them in whole lots. Money is an integer
number of fen, which is what `money()` rounds to; rates are basis points. They have no
state, and are checked through the modules that use them.

### PaperMemory

The service keeps Python objects and has no transactions, so a call that raises keeps
what it had changed. Actions are the public methods: accept a proposal, create a sell
order, process a market event (recheck, match, book, release), cancel, expire, monitor
positions, run a scheduled task, pause and resume. `book` collects the objects a method
changes, and `Commit` puts them back; the order of the assignments inside a method is
the order of the operators. `ledger` holds what the entries add up to and the balances
of the last one. `traded` is history. Clock ticks are half days, so that a task may run
early or late in its session. Left out: notifications and audit entries, which no
operation reads, and limit orders in the instance (the operators have them).

`monitor_positions` raises a KeyError at the first holding its caller gives no price for; what it
did for the holdings before that one stays (`Raised`, `Visited`).

### Backtest

`pc` follows the engine through a session: corporate actions, release, dividends,
cancelling, fills at the open, exits, marking, signals for the next session. Bars and
signals are chosen freely each day, the list of corporate actions at the beginning.
An exception ends the run FAILED, as the engine's handler does, and the run is saved
or lost on a unique key. A position has two history fields: `rounded`, the most that rounding may have
moved so far, and `lost`, the cost of shares that a reverse split took away whole. Money is in fen, average costs in hundredths of a fen (they are
rounded to 0.0001 yuan), ratios are integer pairs. Left out: win rate, Sharpe and the other
metrics, of which only the drawdown is kept, and the reports.

### QuoteFeed and ShadowAdmission

`MarketDataGateway.run_once` reads the checksum of the paper book in a transaction of its own
(`BeginPoll`), fetches outside any (`Retry`, `FetchFails`, `SchemaEscapes`), inserts its rows and reads the
book again in another one (`StoreBatch`, `RecordingClashes`), and commits that (`CommitPoll`). Between
any two of these the clock ticks, other providers store and the book moves.
A raw quote has its symbol, time, price and at most one fault; `normalize_quote` and
`Quality` give it the status the code gives it, the look at earlier rows for duplicates
and late quotes included. `health` is the provider's row, `runs` are the shadow-run rows,
`outbox` the status messages, `files` the recorded files. `select_for_matching` is the
monitor's choice.

The checksum (`Checksum`) is what `_paper_state_checksum` can tell apart: ids of orders and ledger
entries only grow, so an order, a fill or an entry committed in between always shows
(`BookMoves`); statuses may come back, so that of an account which is paused and resumed (`SwitchAccount`)
shows at every other switch only. `touched`, `stored` and `ended` of a shadow run tell when the book moved and when the
row was written and committed (the first two are history).

`ShadowAdmission` adds the daily report (written over when it is made again), the policy
for complete days, the two computations of the admission status (the stored evaluation
and the summary), degradation events and the connectivity check around a poll. The stored evaluation takes a provider
for configured when its health row says so (`ProviderConfigured`), the summary shown to the operator goes by the
settings (`Configured`). `escaped` is history: polls that a schema error ended before they wrote anything.

### Jobs

`jobs` are rows of `scheduled_task_runs`, `runs` those of `data_ingestion_runs`. Enqueuers
look for an open row and insert in two transactions (`Ask`, `Enqueue`); a runner picks a job,
selects its row if it is open (`RunOne`), marks it RUNNING (`MarkRunning`), works through the syncs of the type, each with a run row of its own (checked and
inserted in two steps), fetches, saves the batch, reads the row of the job again (`ReadBack`) and writes the outcome
(`Close`). The row is selected without a lock and written by its primary key, so another runner may
have finished the job in between; a status that is the one that was read is not written. `readers` (history) are the
runners that had selected the row and not yet written it when it was last finished. A runner may be
killed at any of these points. A batch item that violates a unique column rolls the
session back (`Rollback`), which is where the counts could go wrong.

### Outbox

`RunOnce` reads the due rows in their order up to the limit, `Send` sends one, with
either outcome, `CommitTask` writes what became of them in the transaction of the task (a RETRYABLE row that
failed again keeps the status column that is there, as the session writes changed columns only),
`Lost` is a run that dies in between. Two dates' delivery tasks may be open together;
the lease only keeps apart two runs of one date.

### AuthSession

A login reads the user and commits after the password check; a refresh reads the session
and commits the rotated token; the cookies travel after the commit and may be lost. Other
requests commit in between. An UPDATE writes the columns that changed, as SQLAlchemy
emits it. `era` (history) counts the account changes that end sessions, `late` marks a
session opened by a login that had read the user before such a change, `torn` one with
overlapping refreshes or a lost answer.

### DailyBars

A call of a thread takes its date from the clock (`FetchDailyHistory`), looks into the cache and asks the
clock again whether that date is the latest (`LookUp`), and then lets the provider take a date of its own
(`BeginFetch`), against which everything it fetches is validated. It acquires a slot (waiting outside
the limiter's lock and trying again), fetches, validates (`GotBars`) and writes the cache file of the
first date (`WriteCache`). The market may close between any two of these. The process may be killed
and restarted, a file may be changed from outside. Bars are their dates and whether their values are sound. `starts` and `genuine`
are history.

## 3. Runs

| run | instance | what it shows |
|---|---|---|
| `book` | 1 account, 2 proposals (3 lots and 1 lot, one expires), 2 keys, 2 monitors, prices at and 10% above reference, all regimes, 2 events, 2 days | orders are created once, filled once per event; cash is never short of the ledger and frozen cash has an owner, under every interleaving of claims, processing, cancels and pauses |
| `sessions` | 1 account, 2 proposals (2 lots and 1 lot, the first expires), 2 keys, 2 monitors, 2 requests, 2 sessions open at once, a depth of one, 2 events | what unique constraints keep when transactions overlap; nothing else of the book's promises fails before a stale write |
| `settlement` | 2 proposals, 2 events, 1 monitor, settlement and recovery; 2 accounts on one day without price limits, or 1 account over 2 days with them | positions are sums of fills; `OrderPromise` is implemented with settlement running; a settlement that stops half-way and is repeated writes one snapshot a day; a snapshot's frozen cash has an order, holds have a reason and stop trading |
| `memory` | 2 symbols, 3 orders, 2 keys, 2 events, 6 calls over 3 half days | shares and cash of the in-memory service through half-done calls |
| `backtest` | a symbol at 10 yuan, one at 0.20 yuan and a third to rename to, 4 sessions around a weekend, 8 lists of corporate actions, 4 kinds of bars, 3 kinds of signals | positions, T+1, equity, dividends, orders over ex dates, drawdown |
| `daily` | feed: 2 providers, 3 polls, 3 instants over 2 days, 5 kinds of batches, 2 kinds of failure; tasks: 2 instances, 3 attempts, 3 failures | order of rows, health, selection; one runner, no lease left, attempts not over-counted; every call ends |
| `admission` | admission: 1 provider, 3 polls, morning, afternoon and evening, 2 changes of the book or switches of an account; sessions: 2 users, 1 browser with 2 tabs | eligibility is earned; what a passed poll and a passed check rule out; sessions follow accounts and stay revoked |
| `services` | jobs: 2 enqueuers, 2 runners, 2 types, a kill; outbox: 2 messages, 2 dates, 2 attempts; bars: 2 threads, 6 histories, 3 days | rows tell the truth, no second run but by the known race; deliveries are accounted for; limits hold, answers are current and genuine; jobs, messages and calls end |
| `overlap` (violation) | 2 orders | closing one order releases the cash frozen for the other, which is then filled for free |
| `recovery_resume` (violation) | 1 account | pause, then resume, clears a recovery hold |
| `bonus_lock` (violation) | 2 bonus issues of one symbol | the first tradable date releases the shares of both |
| `schema_day` (violation) | 4 instants of a day | a poll lost to a schema error leaves no record, and the day is COMPLETE |

Several properties are conjunctions of named parts, for instance `SessionsSound`; the
parts are stated, each with its comment, in the module.

Why the bounds are enough. Book: two keys for one proposal show repeated accepts, two
orders on one account share the frozen balance, three lots with a depth of two give partial
fills, two monitors can hold the same order, two events let an order be matched again
after a block, two days let a claim and its processing, or a snapshot and its
settlement, fall on different days. Sessions of the book: two open
sessions give every pair of transactions, and whatever a third did came before or after; a
depth of one makes the first order fill in two parts; behaviours end at the first stale
write, after which only the constraints are claimed. Memory: six calls are enough to buy twice, sell, fill in parts and
run a task, and half days place a task before and after the others. Backtest: an order for the cheap symbol is for
1500 shares, so that rounding an average cost moves several fen and a slack that does not grow with the holding is exceeded,
and a reverse split of 1:50 leaves nothing of a small position. A position is
bought on the second day at the earliest, and meets every kind of action, dates on the same
day, a day apart and over the weekend, on the third and fourth; one symbol takes a new name on the third
day, under which it is split on the fourth. Quotes: three polls are one more
than the failure and the recovery threshold, a late quote comes after a newer one, the day changes. Admission: two changes
are a pause and a resume, or a fill after either, on any side of the four reads of a poll and a check.
Jobs: two runners and two enqueuers give every race of two; the third party adds nothing to
a check-then-act. Outbox: two attempts distinguish retry and give up; one message more than
the batch limit shows the queue. Sessions: a change of account between any two commits,
two tabs of one browser, an expiry. Bars: two threads on one slot, two windows of the limiter, one restart or
changed file, and a market close in the middle of a call; a wait of at most two ticks
(`MaxBackoff`) is longer than a window of the limiter. Tasks: two instances show every way two calls can meet, next to a
recovery run; three failures reach FAILED_FINAL and go past it.

Monitors, keys, requests and events are interchangeable in `book`, `sessions`, `settlement`
and `memory` (symmetry); it is used in no run with a liveness property.

Deadlock is checked in every run; where a component may come to rest, a named stuttering
step says so (`Sent`, `Resting`, ...). Fairness:

* `CallEnds`: a call that can take its next step takes it, a task function returns or its
  process dies (weak fairness), and a call that waits for a row is not overtaken for ever
  (strong fairness of `InsertLease` and `MarkHeld`: PostgreSQL wakes a waiter when the
  transaction it waits for ends, and calls start at the pace of a schedule);
* `JobsFinish`: the runner loop keeps being started and its steps return; kills are bounded
  and the property excuses the job that was killed. It asks that a job is finished for good in the end, as
  it may be reopened on the way;
* `NotificationEnds`: the delivery task is scheduled on every trading date and the sender
  returns (it has a time-out);
* `CallReturns`: the clock moves on and a thread that can take a step does.

In each the fairness is of the union of a step's outcomes, so no outcome is forced.
All other properties are safety properties.

## 4. Proofs

Assumptions. `MoneyAssumption`: prices and reference prices are positive integers, cash and
commission natural numbers. `RowsAssumption`: there is an account, a proposal and a key.
`AccountOrderAssumption`: settlement visits every account. `FeedAssumption`: instants follow
the order of days, and the counts the configuration checks to be positive are
(`realtime_quotes.py:261`). `AdmissionAssumption`: finitely many trading days, at least one day
is asked for. `DailyBarsAssumption`: limits and windows are positive, a minute is no shorter
than a second, the first wait of a retry is no longer than the longest. `RulesAssumption`:
positive lot and tick and a limit strictly between 0 and 1, which `InstrumentRules.__post_init__`
checks; and, not checked by the code but true of every sensible `FeeConfig` and `SlippageConfig` and
of their defaults, rates that are natural numbers, a sale slipping by at most its whole price and a
participation between 1 basis point and the whole volume. `ConfigAssumption`: a finite calendar with a
period in it, finitely many symbols, a positive cash and expiry, as `BacktestConfig` checks; and that the
tax on a dividend is not more than the dividend, which it does not check (the default is 0). `PaperMemoryAssumption`: finitely many symbols, and no fees but commission and tax,
as in the default `FeeConfig`: the ledger of `paper.py:847` has no entry for others, so with them it
would not add up to the cash.
`ActionsAssumption`: what two theorems about the backtest ask of a list of corporate actions, named in
their statements: an id names one action (`ActionIdsUnique`), an ex date within the backtest is one of its
sessions (`ExDatesTraded`), and a symbol that another one changes to has had no actions of its own
(`NewSymbolsAfresh`). The engine takes any list; ids are made of symbol, type, ex date and version
(`backtest.py:276`) and the column is unique (`db.py:265`), the other two are what market data of one source
looks like. None can be dropped: TLC finds a dividend that the second of two actions with one id does not
give, an order that is filled over an ex date on a weekend, and one that comes under the name of a symbol
delisted the day before.
`ShapeAssumption`, `AttemptsAssumption`, `AuthAssumption`, `OutboxAssumption`, `JobsAssumption` and
the rest of those named are the constants' types. TLC evaluates each of them on the
instances of section 3.

Folds and sums. The library has no theorem that the provers here can use for a
recursion over data, as they take an operator as a parameter. `SetFolds` goes around that: the
predicate of an induction is the set of values that have it (`SubsetInduction`, from
well-founded induction over strict subsets), and the recursion behind the fold of the
community modules, a function named by `CHOOSE`, exists (`FoldExists`) and is unique
(`FoldUnique`). Sums over a finite set (`SumAdd`, `SumSame`, `SumMonotone`, ...) and folds
over a sequence (`PrefixInduction`) follow.

`PaperBookProofs` first splits a step of the book into the few ways it can touch each
part of the state (lemma `StepKinds`), so that each invariant is shown once per
kind and not once per handler.

* `TypeCorrect`: no balance becomes negative. The interesting step is a fill: what is
  taken from the frozen balance is floored at zero.
* `AcceptedOnce`: inductive as it stands, from the status check and the key check.
* `FilledOncePerEvent`: inductive; a fill of an event is preceded by the event being
  outside `decided` and followed by it being inside.
* `CashCoversLedger`: inductive with `TypeOK`; a fill charges the ledger the full cost
  and the cash at most that.
* `FrozenCashHasOwner`: inductive; the two ways to close an order also empty the frozen
  balance, so whatever is frozen later comes from an order accepted later, or from one
  that is still open or blocked.
* `HoldingsAreFills`: the position of an account and symbol is the sum of its fills. One
  fill adds its quantity to one holding and leaves the sum of every other as it is.
* `ClosedOrdersStayClosed`: every transaction that changes an order first finds it in a
  status that is not closed.
* `PromiseImplemented`: initial states map to initial states and each kind of step to
  `Place`, `Trade`, `Decline`, `Withdraw` or a stutter.
* `PaperBookProofs`, settlement: `SettlementKeepsBook` makes all of the above available with
  settlement running; `SnapshotOncePerDay` needs the strengthening that no snapshot is
  dated after today; the action properties follow from the definitions of `Settle` and
  `Recover` and from the invariants of the book.
* `BackgroundProofs`, scheduled tasks: `TaskRunsExclusive` and `TaskOutcomesCounted` state the properties of the
  run `daily` and combine the theorems that follow. `TaskTypeCorrect` needs that rows are never deleted (`RowsStay`).
  `TaskOneRunner` and `TaskLeaseFree` follow from `Holding`: an instance is past
  `acquire` exactly while its transaction has the rows. `TaskGivenUpLate` is inductive
  once it also bounds the attempt of every row a call has read (`Counted`).
  `TaskSequentialOnce` rests on `Alone`: until calls overlap, at most one is under way,
  and after a success none is, as only a finished row has been read since.

* `ServiceProofs`, sessions: types first, then that a session that was never opened is named by no
  jar and no request (`Unopened`), which is what makes revocation permanent
  (`SessionsStayRevoked`): the only step that writes a whole session opens a new one.
  `SessionsEndWithAccount` needs that users exist before their sessions (`Created`).
  `SessionsAlwaysSound` adds the cookies: no token is in two sessions (`TokensApart`), a
  session stays with the browser that logged in (`OneBrowser`), and the newest token of a
  session that is not torn is in its browser's jar or on the way to it (`CookieCurrent`).
* `BackgroundProofs`, outbox: `DeliveriesAccounted`. The invariant `Accounted` says that a run that is not
  sending holds nothing (`HandsEmpty`), that what a run has noted of a message happened
  (`Noted`), and that a message nobody excuses is in one run's hands at most, which has sent
  it at most once, and never after its row says SENT (`Once`).
* `BackgroundProofs`, jobs: `RowsAreTrue` (what a run row and a job row say was stored is
  what was), `RunsAreOneOfAKind` (a second run of a type, or a second recommendation, only by the known race) and
  `FinishedJobsReopenedByRace` (a finished job is opened again only by a runner that had read its row
  before: one that has selected a row which was finished since is among its `readers`, `ReadersNoted`). The invariant `JobsSound` says what each runner knows at each of
  its steps: the run row it works on is RUNNING and its own (`RunnerSound`, `RunnersApart`), nothing
  is stored under it before the batch is (`RowsCounted`), and of the rows it had seen when it looked,
  none of its type was RUNNING (`Looked`).
* `ServiceProofs`, daily bars: `LimiterIsSound` and `AnswersAreSound`. The limiter keeps its events by a
  fold that drops the old ones; `Remembers` says that what it keeps is the tail of all fetches
  and that the rest is a minute old, from which the spacing of any `PerSecond + 1` fetches
  follows. `SlotsInv` counts the threads between the lock and the release; `AnswersInv` follows
  the bars of a call from the source or the file to its answer, and the two dates it has taken from the clock.
* `FeedProofs`, feed: `RowsAlwaysKept`, `HealthAlwaysEarned`, `PassedPollsUntouched` and
  `SelectionStaysForward` from the invariant `FeedSound`. Storing a batch is a fold that looks
  at the rows it has added so far; the set `Saving` is what such a fold may have reached, and
  each quote of the batch keeps it in there (`SavedExtends`); what waits for the commit
  stays good (`RunPending`, `NewRows`), as nobody else stores quotes of the provider. Of a selection: the stored
  quotes only grow, and one that is no longer fresh is older than every one that is.
* `FeedProofs`, admission: `AdmissionRunsFeed` (whatever the operator does, the feed
  under the admission is the feed, so that `FeedSound` holds there as well);
  `EligibilityIsEarned` needs that a report says what the runs of its day bear out (`ReportSound`), and
  `PassedChecksMatchRuns` that what a poll under a check saw move has moved since the check began, too
  (`CheckSound`), and would show in its second checksum.
* `PaperBookProofs`, overlapping transactions: `OverlapKeepsConstraints`, whatever overlaps and whatever is overwritten.
  The invariant adds what an open session may hold (`OpenSound`): well-typed rows, an order
  it will add only for the proposal it has read, an order it has read only in place
  (`WrittenOrder`), and fills only with an event. The rest is the unique constraints at the commit.
  `OverlapHurtsOnlyStale` shows what else holds until a stale write. Its invariant
  `HonestSessions` says that what an open session will write follows from what it has read as in a
  single transaction (`Honest`): it accepts only with the order it adds, it changes the position by the lots
  of its fill, and the account by no more than the cost it records. A commit that is not stale
  writes exactly these rows (`CommitWrites`), so each promise is kept as in `PaperBook`. That
  frozen cash has an owner is not inductive here: a cancel that saw nothing frozen closes its
  order without writing the account, so it is not stale when another session has frozen cash
  since. `OwnerStays` therefore asks for an owner that no open session closes in this way (`Blind`);
  the order of the session that froze the cash is one, as nobody can have read it before.

* `MatchingProofs`: what `execute` makes of an order (`ExecuteType`): a status of the ones the
  service can translate, or a fill of at most what is open, what the bar has and, of a sale,
  what can be sold, with its value and fees; and that the risk rules approve a number of shares
  (`ApprovedType`).
* `PaperMemoryProofs`: `PositionsAlwaysKept`, `LedgerAlwaysExplains`, `FrozenCashAlwaysHasOrder` and
  `SessionsAlwaysReleased` from one invariant of the book, `Sound`: positions add up
  (`PositionSound`), the ledger explains the cash (`Explained`) and its last entry shows it (`Shown`), and
  what is frozen has an active buy (`Owned`). A call works on the book order by order, so
  `Sound` is shown of every operator a handler is made of (`ClosedSound`, `BuyApplied`, `SaleApplied`,
  `ExecutedSound`, ...), and the loops are folds that stay within the sound books
  (`MatchesSound`, `StaleSound`, `MonitorSound`). Between two steps of a fill the book is not
  sound: `Explained` carries the amount that is not in the ledger yet. `FrozenCashHasOrder` is
  inductive only because a buy that is filled, in part or in full, leaves nothing frozen, and
  closing one neither: what another order had frozen is gone with it.

* `BacktestProofs`: `SharesStayWhole` from the invariant `BacktestSound`: positions add up, cash is
  not negative while the backtest goes on (`CashKept`), days pass and fills lie behind them
  (`DaysPass`), today's buckets are empty before the open (`Emptied`) and hold what the day's fills
  bought after it (`Filled`). Each operator on a position is shown to keep `PositionSound` (`BoughtKept`,
  `SoldKept`, `BonusKept`, `RescaleKept`, ...), where the rounding of a split goes included; the
  loops over orders, symbols and actions are folds that stay within the sound books.
* `BacktestProofs`, dividends: `DividendsAlwaysRight` from the invariant `DividendSound`. Until something
  else than a dividend touches a symbol, its position is what the fills of the earlier days add up
  to (`Counted`); an entitlement is of an action of the list and of its record date
  (`Known`), and of the holding the fills had at that day's start (`Earned`); there is one for
  each action at most (`Once`), and after the dividends of a day none that is due waits (`PaidInTime`). The
  loop over the actions of a day is shown action by action (`Earning`): one seen before has its entitlement,
  one still to come has none, which is where ids must be unique.
* `BacktestProofs`, orders and actions: `OrdersAlwaysHeed` from the invariant `OrdersSound`. No fill lies over an ex
  date of its symbol (`Heeds`), so no waiting order may have been placed before one that has passed
  (`Waiting`), once the day's cancelling is done; of a delisted symbol neither shares nor a waiting order
  are left (`DelistedBy`), and a backtest begins with neither (`Started`). The two loops over the day's
  actions are taken one action at a time: an order keeps its symbol or takes a new name that has had no
  actions yet (`Shifted`), and no order of a symbol whose ex date it is still waits (`Cleared`).
* `BacktestProofs`, drawdown: `DrawdownAlwaysWorst`. After any number of days the one pass of `_drawdown` knows the
  highest of them and the worst decline between two (`Drawn`); that the peak is enough follows from a
  decline being the worse the higher it starts (`DeclineGrows`), rounding included.

Model-checked only: liveness (`CallEnds`, `JobEnds` of `JobsFinish`, `NotificationEnds`,
`CallReturns`), which needs ENABLED; and of `EquityReported` the part `EquityExplained`. It bounds what
the equity differs from the profits by what rounding can have moved: half of a hundredth of a fen for every
share held at each purchase, bonus and split, and a fen for each sale and each position. It counts the
cost of a position that a reverse split leaves without shares apart (`lost`): the code sets the average cost
to zero there, so that the loss is in the equity and in neither profit (`backtest.py:562`).

## 5. Disagreements between code and documentation

`PROJECT.json` ("findings") quotes each line; the four runs marked "violation" show them.
Modelling met others of the same kind, which no run of its own shows:

* a fill more than 3% above the reference price costs more than was frozen, and the
  shortfall is never charged (`paper_monitor.py:449`; the ledger explains less cash than
  there is, which is the same promise `overlap` breaks);
* an order that is rejected or parked keeps its frozen cash, which the settlement's
  assertion `paper_monitor.py:838` then refuses (`paper_monitor.py:704`);
* recovery's list of active statuses lacks the three BLOCKED ones the monitor works on, so
  it holds accounts whose order is merely waiting (`paper_runtime.py:372`);
* the `version` columns are counted up and never compared, although
  `docs/POSTGRESQL_MIGRATION.md:24` keeps them "to detect stale writers"
  (`paper_monitor.py:473`, `api/paper.py:254`); `OnlyStaleWritesHurt` is what remains;
* a call that read the task row before another one succeeded runs the task again
  (`paper_runtime.py:195`), against `docs/ROADMAP.md:127`; `OutcomesCounted` is what remains;
* `local_jobs.run_one` selects a job without a lock and marks it RUNNING by its primary key later
  (`local_jobs.py:41`, `:54`), so a job that another runner has finished in between is opened and run again, against
  `docs/DEFINITION_OF_DONE.md:40` ("Repeated jobs are idempotent where applicable"); `ReopenedOnlyByReaders`
  is what remains;
* a poll compares checksums of the book's state (`realtime_quotes.py:2196`), which an account paused and resumed during the
  poll leaves equal, and reads the second one before it commits (`:954`, `:994`): the run is PASSED though the book was
  touched. For the same reason a connectivity check may report PASSED around a run that found the account paused and
  recorded ACCOUNT_MUTATION_DETECTED. `PassedMeansUntouched` and `CheckImpliesRun` are what remains;
* a thread that took its date before the market closed and its bars after it stores them in the cache file of the
  earlier date (`data_provider.py:454`, `:355`, `:487`); another thread that also asked before the close and looks
  into the cache after that finds bars of the future and raises, as a file that does not validate is no reason to fetch (`:475`,
  `:745`);
* in `paper.py`, a fill that leaves an order open releases the rest of the frozen balance,
  and the next fill makes it negative (`:845`); a late SESSION_START releases shares bought
  the same day (`:664`);
* in `backtest.py`, dividends and lock releases due on a day without a session never
  happen (`:1161`), an action whose ex date is no session is never applied (`:1109`), and a
  symbol change overwrites a position in the new symbol (`:1215`);
* in `realtime_quotes.py`, a broken provider is HEALTHY after its second success, and a degraded one
  after its first, whatever `provider_recovery_success_count` says (`:2141`, against the setting in
  `config.py:82` and `tests/test_realtime_quotes.py:489`, which tries a count of two);
  `HealthEarned` is what the code does keep;
* in `realtime_quotes.py`, a first failing poll ends the polling loop (`:2105`), and the name
  of a recorded file omits the provider, so that a second provider's identical quote loses
  its whole poll (`:1009`).

## 6. Not modelled, and plan

Not modelled: factor scores and the watchlist scan (floating point over price history),
the schema and migration scripts, backup, queries and views, the frontend, configuration,
the provider adapters that parse third-party answers. Within the components: sell
orders and shadow decisions of the database book, profit and exposure figures of
snapshots, issue rows of recovery, `run_one` without an id, which takes rows of any task
type, and SQLite, where the first writer locks the whole database.

Open, in this order:

1. the runtime on SQLite, with the sessions a task opens inside its own;
2. a shared model of the outbox and the components that post to it.
