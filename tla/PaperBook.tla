----------------------------- MODULE PaperBook -----------------------------
(***************************************************************************)
(* The paper-trading book in the database: proposals, accounts, buy        *)
(* orders, fills, positions and the cash ledger, as they are changed by    *)
(* the HTTP handlers (src/app/api/paper.py) and by the market monitor      *)
(* (src/app/paper_monitor.py).  Every action is one committed transaction. *)
(* The monitors keep the orders they claimed in memory, so anything may    *)
(* happen between a claim and the transaction that processes an order.     *)
(*                                                                         *)
(* A tick of the clock is a day.  What ends at some hour of a day may have *)
(* ended or not at any moment of that day.                                 *)
(*                                                                         *)
(* Quantities are board lots.  A price is per lot; money is counted in     *)
(* hundredths of the price unit, so that the 3% margin of accept_proposal  *)
(* is exact.  The charge for a fill is its flat minimum commission.        *)
(***************************************************************************)
EXTENDS Integers, FiniteSetsExt

CONSTANTS
    Accounts,       \* account ids
    Symbols,        \* traded symbols
    Proposals,      \* proposal ids
    Keys,           \* idempotency keys; an order is identified by its key
    Monitors,       \* running PaperMarketMonitorService instances
    SymbolOf,       \* symbol of each proposal
    LotsOf,         \* quantity of each proposal, in lots
    RefPrice,       \* reference price of each proposal
    ExpiresAt,      \* day on which each proposal expires
    InitialCash,    \* initial deposit of every account
    Prices,         \* execution prices a snapshot may lead to
    Depths,         \* lots a snapshot's volume allows to be filled
    Regimes,        \* trading conditions a snapshot may report
    Commission,     \* minimum commission of a fill
    OrderTTL,       \* days until a new order expires (24 hours: 1)
    MaxClock,       \* bound on the clock
    MaxEvents       \* bound on the number of snapshots of a symbol

ASSUME MoneyAssumption ==
    /\ InitialCash \in Nat
    /\ Commission \in Nat
    /\ Prices \subseteq Nat \ {0}
    /\ RefPrice \in [Proposals -> Nat \ {0}]

ASSUME ShapeAssumption ==
    /\ SymbolOf \in [Proposals -> Symbols]
    /\ LotsOf \in [Proposals -> Nat]
    /\ ExpiresAt \in [Proposals -> Nat]
    /\ Depths \subseteq Nat
    /\ Regimes \subseteq {"trading", "suspended", "no_volume", "limit_up"}
    /\ OrderTTL \in Nat /\ MaxClock \in Nat /\ MaxEvents \in Nat

VARIABLES
    clock,      \* business day
    account,    \* status and cash of each account
    ledger,     \* sum of the deposit, settlement and commission entries
    proposal,   \* status of each proposal
    order,      \* order row of each idempotency key
    decided,    \* market events each order has a COMPLETED event row for
    fills,      \* fill rows
    holding,    \* total_quantity of each position
    feed,       \* latest market snapshot of each symbol
    batch       \* orders each monitor has claimed and not yet processed

vars == <<clock, account, ledger, proposal, order, decided, fills, holding,
          feed, batch>>
books == <<account, ledger, fills, holding>>

----------------------------------------------------------------------------
AccountStatus == {"ACTIVE", "PAUSED", "PAUSED_RECOVERY_REQUIRED", "RISK_OFF"}

ProposalStatus == {"PROPOSED", "REVIEWED", "ACCEPTED", "REJECTED",
                   "CANCELLED", "EXPIRED"}

ActiveOrderStatuses == {"PAPER_PENDING", "PARTIALLY_FILLED",
                        "BLOCKED_SUSPENSION", "BLOCKED_PRICE_LIMIT",
                        "BLOCKED_LIQUIDITY"}

CancellableStatuses == {"PAPER_PENDING", "PARTIALLY_FILLED"}

\* Statuses that neither the monitor nor the cancel handler ever leaves.
ClosedStatuses == {"FILLED", "CANCELLED", "REJECTED", "BLOCKED_RISK",
                   "BLOCKED_ACCOUNT"}

Account == [status : AccountStatus, available : Nat, frozen : Nat]

Order == [account : Accounts, proposal : Proposals, lots : Nat \ {0},
          remaining : Nat, expires : Nat,
          status : ActiveOrderStatuses \cup ClosedStatuses]
NoOrder == [status |-> "NONE"]

Snapshot == [id : 1..MaxEvents, at : 0..MaxClock, price : Prices,
             depth : Depths, regime : Regimes]
NoSnapshot == [id |-> 0]

Lesser(x, y) == IF x <= y THEN x ELSE y

Placed(k) == order[k] # NoOrder
OnAccount(a) == {k \in Keys : Placed(k) /\ order[k].account = a}

Freeze(p) == 103 * RefPrice[p] * LotsOf[p]
Cost(price, lots) == 100 * price * lots + Commission
Cash(a) == account[a].available + account[a].frozen
Quote(k) == feed[SymbolOf[order[k].proposal]]

Init ==
    /\ clock = 0
    /\ account = [a \in Accounts |->
         [status |-> "ACTIVE", available |-> InitialCash, frozen |-> 0]]
    /\ ledger = [a \in Accounts |-> InitialCash]
    /\ proposal = [p \in Proposals |-> "PROPOSED"]
    /\ order = [k \in Keys |-> NoOrder]
    /\ decided = [k \in Keys |-> {}]
    /\ fills = {}
    /\ holding = [a \in Accounts |-> [s \in Symbols |-> 0]]
    /\ feed = [s \in Symbols |-> NoSnapshot]
    /\ batch = [m \in Monitors |-> {}]

----------------------------------------------------------------------------
(* HTTP handlers.  A request the handler refuses (409) changes nothing.    *)

\* accept_proposal up to its status checks (mutant: without the status check).
\* A key that is already used makes the handler return that order, whatever
\* the proposal.
AcceptableInAnyStatus(p, k) == ~Placed(k)
Acceptable(p, k) == ~Placed(k) /\ proposal[p] \in {"PROPOSED", "REVIEWED"}

MayAccept(p, a, k) ==
    /\ Acceptable(p, k)
    /\ clock <= ExpiresAt[p]
    /\ account[a].status = "ACTIVE"
    /\ LotsOf[p] >= 1
    /\ account[a].available >= Freeze(p)

NewOrder(p, a) ==
    [account |-> a, proposal |-> p, lots |-> LotsOf[p], remaining |-> LotsOf[p],
     expires |-> clock + OrderTTL, status |-> "PAPER_PENDING"]

Accept(p, a, k) ==
    /\ MayAccept(p, a, k)
    /\ \A j \in Keys : Placed(j) => order[j].proposal # p  \* uq_paper_order_active_proposal
    /\ account' = [account EXCEPT ![a].available = @ - Freeze(p),
                                  ![a].frozen = @ + Freeze(p)]
    /\ proposal' = [proposal EXCEPT ![p] = "ACCEPTED"]
    /\ order' = [order EXCEPT ![k] = NewOrder(p, a)]
    /\ UNCHANGED <<clock, ledger, decided, fills, holding, feed, batch>>

\* The expiry branch commits the EXPIRED status before it answers 409.
AcceptExpired(p, k) ==
    /\ Acceptable(p, k)
    /\ clock >= ExpiresAt[p]
    /\ proposal' = [proposal EXCEPT ![p] = "EXPIRED"]
    /\ UNCHANGED <<clock, books, order, decided, feed, batch>>

\* _transition_proposal: review, reject and cancel.
MayTransition(p, to) ==
    \/ proposal[p] = "PROPOSED" /\ to \in {"REVIEWED", "REJECTED", "CANCELLED"}
    \/ proposal[p] = "REVIEWED" /\ to \in {"REJECTED", "CANCELLED"}

TransitionProposal(p, to) ==
    /\ MayTransition(p, to)
    /\ proposal' = [proposal EXCEPT ![p] = to]
    /\ UNCHANGED <<clock, books, order, decided, feed, batch>>

\* cancel_order releases the whole frozen balance of the account.
CancelOrder(k) ==
    /\ order[k].status \in CancellableStatuses
    /\ LET a == order[k].account
       IN account' = [account EXCEPT ![a].available = @ + account[a].frozen,
                                     ![a].frozen = 0]
    /\ order' = [order EXCEPT ![k].status = "CANCELLED"]
    /\ UNCHANGED <<clock, ledger, proposal, decided, fills, holding, feed, batch>>

PauseAccount(a) ==
    /\ account' = [account EXCEPT ![a].status = "PAUSED"]
    /\ UNCHANGED <<clock, ledger, proposal, order, decided, fills, holding,
                   feed, batch>>

ResumeAccount(a) ==
    /\ account[a].status # "PAUSED_RECOVERY_REQUIRED"
    /\ account' = [account EXCEPT ![a].status = "ACTIVE"]
    /\ UNCHANGED <<clock, ledger, proposal, order, decided, fills, holding,
                   feed, batch>>

\* Settlement and recovery pause accounts they find inconsistent; here they
\* may pause any, PaperSettlement says which.
HoldAccounts(S) ==
    /\ account' = [a \in Accounts |->
         IF a \in S THEN [account[a] EXCEPT !.status = "PAUSED_RECOVERY_REQUIRED"]
                    ELSE account[a]]
    /\ UNCHANGED <<clock, ledger, proposal, order, decided, fills, holding,
                   feed, batch>>

----------------------------------------------------------------------------
(* Market snapshots and time.                                              *)

\* save_market_snapshot stores a snapshot with a new market event id.
SaveSnapshot(s) ==
    /\ feed[s].id < MaxEvents
    /\ \E price \in Prices, depth \in Depths, regime \in Regimes :
         feed' = [feed EXCEPT ![s] =
           [id |-> feed[s].id + 1, at |-> clock, price |-> price,
            depth |-> depth, regime |-> regime]]
    /\ UNCHANGED <<clock, books, proposal, order, decided, batch>>

Tick ==
    /\ clock < MaxClock
    /\ clock' = clock + 1
    /\ UNCHANGED <<books, proposal, order, decided, feed, batch>>

----------------------------------------------------------------------------
(* The market monitor.                                                     *)

\* _query_executable_orders
Executable(k) ==
    order[k].status \in ActiveOrderStatuses /\ order[k].remaining > 0

\* claim_executable_orders; the account filter and the batch size choose
\* among the eligible orders.  No row stays locked once the claim commits.
Eligible == {k \in Keys : /\ Executable(k)
                          /\ order[k].expires >= clock
                          /\ account[order[k].account].status = "ACTIVE"}

Claim(m) ==
    /\ batch[m] = {}
    /\ \E claimed \in (SUBSET Eligible) \ {{}} :
         batch' = [batch EXCEPT ![m] = claimed]
    /\ UNCHANGED <<clock, books, proposal, order, decided, feed>>

\* The process restarts: the claimed ids are forgotten.
Restart(m) ==
    /\ batch[m] # {}
    /\ batch' = [batch EXCEPT ![m] = {}]
    /\ UNCHANGED <<clock, books, proposal, order, decided, feed>>

Dequeue(m, k) == batch' = [batch EXCEPT ![m] = @ \ {k}]

\* process_order ends without changing the book: the order is no longer
\* executable, the snapshot is missing or not of this session, its event is
\* already completed, or the transaction failed and was rolled back.
ProcessNothing(m, k) ==
    /\ k \in batch[m]
    /\ Dequeue(m, k)
    /\ UNCHANGED <<clock, books, proposal, order, decided, feed>>

\* _complete_block: the order takes the status, its frozen cash stays frozen.
CompleteBlock(k, status, remaining) ==
    /\ order' = [order EXCEPT ![k].status = status, ![k].remaining = remaining]
    /\ decided' = [decided EXCEPT ![k] = @ \cup {Quote(k).id}]

ProcessInactiveAccount(m, k) ==
    /\ k \in batch[m]
    /\ Executable(k)
    /\ Quote(k) # NoSnapshot
    /\ account[order[k].account].status # "ACTIVE"
    /\ CompleteBlock(k, "BLOCKED_ACCOUNT", order[k].remaining)
    /\ Dequeue(m, k)
    /\ UNCHANGED <<clock, books, proposal, feed>>

\* What _process_order_tx has checked when it starts to decide on an event
\* (mutants: without _declare_event, and without the account check).
DecidableReplayed(m, k) ==
    /\ k \in batch[m]
    /\ Executable(k)
    /\ account[order[k].account].status = "ACTIVE"
    /\ Quote(k) # NoSnapshot
    /\ Quote(k).at = clock
DecidableForAnyAccount(m, k) ==
    /\ k \in batch[m]
    /\ Executable(k)
    /\ Quote(k) # NoSnapshot
    /\ Quote(k).at = clock
    /\ Quote(k).id \notin decided[k]
Decidable(m, k) ==
    /\ k \in batch[m]
    /\ Executable(k)
    /\ account[order[k].account].status = "ACTIVE"
    /\ Quote(k) # NoSnapshot
    /\ Quote(k).at = clock
    /\ Quote(k).id \notin decided[k]

ProcessSuspended(m, k) ==
    /\ Decidable(m, k)
    /\ Quote(k).regime = "suspended"
    /\ CompleteBlock(k, "BLOCKED_SUSPENSION", order[k].remaining)
    /\ Dequeue(m, k)
    /\ UNCHANGED <<clock, books, proposal, feed>>

ProcessRiskOff(m, k) ==
    /\ Decidable(m, k)
    /\ Quote(k).regime # "suspended"
    /\ account' = [account EXCEPT ![order[k].account].status = "RISK_OFF"]
    /\ CompleteBlock(k, "BLOCKED_RISK", order[k].remaining)
    /\ Dequeue(m, k)
    /\ UNCHANGED <<clock, ledger, proposal, fills, holding, feed>>

ProcessRiskRejected(m, k) ==
    /\ Decidable(m, k)
    /\ Quote(k).regime # "suspended"
    /\ CompleteBlock(k, "BLOCKED_RISK", order[k].remaining)
    /\ Dequeue(m, k)
    /\ UNCHANGED <<clock, books, proposal, feed>>

\* MatchingEngine.execute for a buy of at most open lots: the lots it fills.
\* The portfolio it sees owns the available and the frozen cash.
MatchedLots(k, open) ==
    LET quote == Quote(k)
        cash  == Cash(order[k].account)
        lots  == Lesser(Lesser(open, quote.depth), cash \div (100 * quote.price))
    IN IF lots > 0 /\ Cost(quote.price, lots) > cash THEN lots - 1 ELSE lots

BlockedStatus(k, open) ==
    CASE Quote(k).regime = "no_volume" -> "BLOCKED_SUSPENSION"
      [] Quote(k).regime = "limit_up"  -> "BLOCKED_PRICE_LIMIT"
      [] Quote(k).depth = 0            -> "BLOCKED_LIQUIDITY"
      [] OTHER                         -> "REJECTED"

Matches(k, open) == Quote(k).regime = "trading" /\ MatchedLots(k, open) > 0

\* The risk check approves; an approval below the remaining lots shrinks the
\* order, and it stays shrunk when the matching engine then blocks it.
ProcessUnmatched(m, k) ==
    /\ Decidable(m, k)
    /\ Quote(k).regime # "suspended"
    /\ \E open \in 1..order[k].remaining :
         /\ ~Matches(k, open)
         /\ CompleteBlock(k, BlockedStatus(k, open), open)
    /\ Dequeue(m, k)
    /\ UNCHANGED <<clock, books, proposal, feed>>

\* _apply_fill: a buy is paid from the frozen balance, never below zero; the
\* fill that completes the order releases whatever is left frozen (mutants:
\* without the floor, without handing the rest back, without releasing it).
PaidWithoutFloor(acct, cost, completes) ==
    LET rest == acct.frozen - cost
    IN IF completes
       THEN [acct EXCEPT !.available = @ + rest, !.frozen = 0]
       ELSE [acct EXCEPT !.frozen = rest]
PaidAndForfeited(acct, cost, completes) ==
    [acct EXCEPT !.frozen = IF completes \/ @ < cost THEN 0 ELSE @ - cost]
PaidKeepingRest(acct, cost, completes) ==
    [acct EXCEPT !.frozen = IF @ > cost THEN @ - cost ELSE 0]
PaidFromFrozen(acct, cost, completes) ==
    LET rest == IF acct.frozen > cost THEN acct.frozen - cost ELSE 0
    IN IF completes
       THEN [acct EXCEPT !.available = @ + rest, !.frozen = 0]
       ELSE [acct EXCEPT !.frozen = rest]

\* The order row after a fill of the given lots (mutant: what is open is
\* recomputed from the ordered quantity).
FilledOfTotal(row, open, lots) ==
    [row EXCEPT !.remaining = row.lots - lots,
                !.status = IF lots = row.lots THEN "FILLED" ELSE "PARTIALLY_FILLED"]
Filled(row, open, lots) ==
    [row EXCEPT !.remaining = open - lots,
                !.status = IF lots = open THEN "FILLED" ELSE "PARTIALLY_FILLED"]

\* _position_buy (mutant: adds all that was open).
BoughtOpen(held, open, lots) == held + open
Bought(held, open, lots) == held + lots

\* A fill row is identified by its order, event and quantity
\* (fill_idempotency_key).  That the row exists already cannot happen, as an
\* event with a fill is completed: the DUPLICATE_FILL branch is never taken.
Fill(k, open) ==
    LET a     == order[k].account
        event == Quote(k).id
        lots  == MatchedLots(k, open)
        cost  == Cost(Quote(k).price, lots)
        row   == [key |-> k, event |-> event, lots |-> lots]
    IN /\ Matches(k, open)
       /\ row \notin fills
       /\ account' = [account EXCEPT ![a] = PaidFromFrozen(@, cost, lots = open)]
       /\ ledger' = [ledger EXCEPT ![a] = @ - cost]
       /\ fills' = fills \cup {row}
       /\ holding' = [holding EXCEPT ![a][SymbolOf[order[k].proposal]] = Bought(@, open, lots)]
       /\ order' = [order EXCEPT ![k] = Filled(@, open, lots)]
       /\ decided' = [decided EXCEPT ![k] = @ \cup {event}]

ProcessFill(m, k) ==
    /\ Decidable(m, k)
    /\ \E open \in 1..order[k].remaining : Fill(k, open)
    /\ Dequeue(m, k)
    /\ UNCHANGED <<clock, proposal, feed>>

----------------------------------------------------------------------------
Handlers ==
    \/ \E p \in Proposals, k \in Keys :
         \/ \E a \in Accounts : Accept(p, a, k)
         \/ AcceptExpired(p, k)
    \/ \E p \in Proposals, to \in ProposalStatus : TransitionProposal(p, to)
    \/ \E k \in Keys : CancelOrder(k)
    \/ \E a \in Accounts : PauseAccount(a) \/ ResumeAccount(a)

Monitoring ==
    \E m \in Monitors :
      \/ Claim(m)
      \/ Restart(m)
      \/ \E k \in Keys :
           \/ ProcessNothing(m, k)
           \/ ProcessInactiveAccount(m, k)
           \/ ProcessSuspended(m, k)
           \/ ProcessRiskOff(m, k)
           \/ ProcessRiskRejected(m, k)
           \/ ProcessUnmatched(m, k)
           \/ ProcessFill(m, k)

Market == Tick \/ \E s \in Symbols : SaveSnapshot(s)

Next == Handlers \/ Monitoring \/ Market \/ \E S \in SUBSET Accounts : HoldAccounts(S)

Spec == Init /\ [][Next]_vars

----------------------------------------------------------------------------
(* Properties.                                                             *)

\* Every row holds values of its column, and no balance is negative: the
\* order transactions must never drive cash_available or cash_frozen below 0.
TypeOK ==
    /\ clock \in 0..MaxClock
    /\ account \in [Accounts -> Account]
    /\ ledger \in [Accounts -> Int]
    /\ proposal \in [Proposals -> ProposalStatus]
    /\ order \in [Keys -> Order \cup {NoOrder}]
    /\ decided \in [Keys -> SUBSET (1..MaxEvents)]
    /\ fills \subseteq [key : Keys, event : 1..MaxEvents, lots : Nat \ {0}]
    /\ holding \in [Accounts -> [Symbols -> Nat]]
    /\ feed \in [Symbols -> Snapshot \cup {NoSnapshot}]
    /\ batch \in [Monitors -> SUBSET Keys]

\* Whatever keys clients send and however often they repeat a request, a
\* proposal is ACCEPTED exactly when one order was created for it, and no
\* second order is ever created (accept_proposal).
OneOrderPerProposal ==
    /\ \A j, k \in Keys : /\ Placed(j) /\ Placed(k)
                         /\ order[j].proposal = order[k].proposal => j = k
    /\ \A p \in Proposals :
         proposal[p] = "ACCEPTED" <=> \E k \in Keys : Placed(k) /\ order[k].proposal = p

\* Two monitors that claimed the same order, or one that claims it again,
\* book at most one fill of it for a market event (_declare_event), and that
\* event is then completed.
OneFillPerEvent ==
    /\ \A f, g \in fills : f.key = g.key /\ f.event = g.event => f = g
    /\ \A f \in fills : Placed(f.key) /\ f.event \in decided[f.key]

LotsFilled(rows) == SumFunction([f \in rows |-> f.lots])

\* A position is the sum of the account's fills of the symbol: no fill is
\* applied to the position twice or not at all (_apply_fill).
HoldingIsFills ==
    \A a \in Accounts, s \in Symbols :
      holding[a][s] = LotsFilled({f \in fills :
        /\ f.key \in OnAccount(a)
        /\ SymbolOf[order[f.key].proposal] = s})

\* Cash never falls behind what the ledger entries explain: no handler and no
\* fill charges an account more than it records.
LedgerNeverAhead == \A a \in Accounts : ledger[a] <= Cash(a)

\* Frozen cash always has an order it was frozen for that was neither filled
\* nor cancelled, although both ways of closing release all of it.
FrozenHasOwner ==
    \A a \in Accounts : account[a].frozen > 0 =>
      \E k \in OnAccount(a) : order[k].status \notin {"FILLED", "CANCELLED"}

\* An order that was filled, cancelled, rejected or parked by a risk or
\* account block never changes again, even when a monitor still holds it in
\* a batch it claimed while the order was active.
ClosedForGood ==
    [][\A k \in Keys : order[k].status \in ClosedStatuses => order'[k] = order[k]]_vars

\* The promise about orders (OrderPromise) that the book implements.
Phase(k) ==
    CASE order[k].status = "NONE"                 -> "absent"
      [] order[k].status \in ActiveOrderStatuses -> "open"
      [] order[k].status = "FILLED"               -> "filled"
      [] OTHER                                    -> "stopped"

Promise == INSTANCE OrderPromise WITH
    Orders   <- Keys,
    Events   <- 1..MaxEvents,
    Sizes    <- {LotsOf[p] : p \in Proposals} \ {0},
    phase    <- [k \in Keys |-> Phase(k)],
    room     <- [k \in Keys |-> IF Placed(k) THEN order[k].remaining ELSE 0],
    answered <- decided,
    trades   <- fills

\* Every transaction of the handlers and the monitors is, for each order, a
\* step its promise allows.
OrderPromiseKept == Promise!Spec

\* The whole account can be recomputed from its ledger
\* (src/docs/ROADMAP.md:126, src/docs/POSTGRESQL_MIGRATION.md:117).
LedgerReconstructs == \A a \in Accounts : ledger[a] = Cash(a)
=============================================================================
