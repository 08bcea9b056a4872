--------------------------- MODULE PaperBookProofs ---------------------------
(***************************************************************************)
(* Proofs about PaperBook, about the settlement and the recovery that run   *)
(* beside it (PaperSettlement) and about transactions that overlap          *)
(* (BookSessions), for every choice of their constants.                    *)
(***************************************************************************)
EXTENDS PaperSettlement, BookSessions, SetFolds, TLAPS

USE DEF AccountStatus, ProposalStatus, ActiveOrderStatuses,
        CancellableStatuses, ClosedStatuses, Account

\* What an order row that the monitor may work on looks like.
LEMMA ExecutableOrder ==
    ASSUME TypeOK, NEW k \in Keys, Executable(k)
    PROVE  /\ Placed(k)
           /\ order[k] \in Order
           /\ order[k].remaining \in Nat \ {0}
           /\ order[k].account \in Accounts
           /\ order[k].proposal \in Proposals
           /\ order[k].status \notin ClosedStatuses
  <1>1. order[k] \in Order \cup {NoOrder}
    BY DEF TypeOK
  <1>2. order[k] # NoOrder
    BY DEF Executable, NoOrder
  <1> QED
    BY <1>1, <1>2 DEF Executable, Placed, Order

\* The snapshot a monitor decides on.
LEMMA QuoteType ==
    ASSUME TypeOK, NEW k \in Keys, Executable(k), Quote(k) # NoSnapshot
    PROVE  Quote(k) \in Snapshot
  <1>1. SymbolOf[order[k].proposal] \in Symbols
    BY ExecutableOrder, ShapeAssumption
  <1> QED
    BY <1>1 DEF TypeOK, Quote

\* The matching engine never fills more than is open.
LEMMA MatchedLotsBound ==
    ASSUME TypeOK, NEW k \in Keys, Executable(k), Quote(k) \in Snapshot,
           NEW open \in 1..order[k].remaining, Matches(k, open)
    PROVE  /\ MatchedLots(k, open) \in Nat \ {0}
           /\ MatchedLots(k, open) <= open
  <1> DEFINE quote == Quote(k)
             cash  == Cash(order[k].account)
             bound == cash \div (100 * quote.price)
  <1>1. open \in Nat /\ order[k].remaining \in Nat
    BY ExecutableOrder
  <1>2. quote.depth \in Nat /\ quote.price \in Nat \ {0}
    BY ShapeAssumption, MoneyAssumption DEF Snapshot
  <1>3. cash \in Int
    BY ExecutableOrder DEF TypeOK, Cash
  <1>4. bound \in Int
    <2>1. 100 * quote.price \in Int /\ 100 * quote.price > 0
      BY <1>2
    <2> QED
      BY <2>1, <1>3
  <1>5. MatchedLots(k, open) > 0
    BY DEF Matches
  <1> HIDE DEF bound, cash, quote
  <1>6. MatchedLots(k, open) =
          LET lots == Lesser(Lesser(open, quote.depth), bound)
          IN IF lots > 0 /\ Cost(quote.price, lots) > cash THEN lots - 1 ELSE lots
    BY DEF MatchedLots, bound, cash, quote
  <1> QED
    BY <1>1, <1>2, <1>4, <1>5, <1>6 DEF Lesser

----------------------------------------------------------------------------
(* Type correctness.                                                       *)

\* A new book is well typed.
LEMMA InitType == Init => TypeOK
  BY MoneyAssumption, ShapeAssumption
  DEF Init, TypeOK, Order, NoOrder, Snapshot, NoSnapshot

\* Whatever event an order is answered with leaves its row well typed.
LEMMA CompleteBlockType ==
    ASSUME TypeOK, NEW k \in Keys, Executable(k), Quote(k) # NoSnapshot,
           NEW status \in ActiveOrderStatuses \cup ClosedStatuses,
           NEW remaining \in 1..order[k].remaining,
           CompleteBlock(k, status, remaining)
    PROVE  /\ order' \in [Keys -> Order \cup {NoOrder}]
           /\ decided' \in [Keys -> SUBSET (1..MaxEvents)]
  <1>1. order[k] \in Order /\ remaining \in Nat
    BY ExecutableOrder
  <1>2. [order[k] EXCEPT !.status = status, !.remaining = remaining] \in Order
    BY <1>1 DEF Order
  <1>3. order' \in [Keys -> Order \cup {NoOrder}]
    BY <1>2 DEF TypeOK, CompleteBlock
  <1>4. Quote(k).id \in 1..MaxEvents
    BY QuoteType DEF Snapshot
  <1> QED
    BY <1>3, <1>4 DEF TypeOK, CompleteBlock

\* An order that is blocked waits or is closed.
LEMMA BlockedStatusType ==
    ASSUME NEW k, NEW open
    PROVE  BlockedStatus(k, open) \in ActiveOrderStatuses \cup ClosedStatuses
  BY DEF BlockedStatus

\* Paying a fill keeps both balances natural numbers.
LEMMA PaidType ==
    ASSUME NEW acct \in Account,
           NEW cost \in Nat, NEW completes \in BOOLEAN
    PROVE  PaidFromFrozen(acct, cost, completes) \in Account
  <1> DEFINE rest == IF acct.frozen > cost THEN acct.frozen - cost ELSE 0
  <1>1. rest \in Nat
    OBVIOUS
  <1> HIDE DEF rest
  <1>2. [acct EXCEPT !.available = @ + rest, !.frozen = 0] \in Account
    <2>1. acct.available + rest \in Nat
      BY <1>1
    <2> DEFINE total == acct.available + rest
    <2> HIDE DEF total
    <2>2. total \in Nat
      BY <2>1 DEF total
    <2>3. [acct EXCEPT !.available = total, !.frozen = 0] \in Account
      BY <2>2
    <2> QED
      BY <2>3 DEF total
  <1>3. [acct EXCEPT !.frozen = rest] \in Account
    BY <1>1
  <1> QED
    BY <1>2, <1>3 DEF PaidFromFrozen, rest

\* A fill leaves the rows it books well typed.
LEMMA FillType ==
    ASSUME TypeOK, NEW k \in Keys, Executable(k),
           Quote(k) # NoSnapshot, NEW open \in 1..order[k].remaining,
           Fill(k, open)
    PROVE  /\ account' \in [Accounts -> Account]
           /\ ledger' \in [Accounts -> Int]
           /\ order' \in [Keys -> Order \cup {NoOrder}]
           /\ decided' \in [Keys -> SUBSET (1..MaxEvents)]
           /\ fills' \subseteq [key : Keys, event : 1..MaxEvents, lots : Nat \ {0}]
           /\ holding' \in [Accounts -> [Symbols -> Nat]]
  <1> DEFINE a == order[k].account
             s == SymbolOf[order[k].proposal]
             lots == MatchedLots(k, open)
             cost == Cost(Quote(k).price, lots)
  <1>1. order[k] \in Order /\ a \in Accounts /\ s \in Symbols
    BY ExecutableOrder, ShapeAssumption
  <1>2. Quote(k) \in Snapshot
    BY QuoteType
  <1>3. lots \in Nat \ {0} /\ lots <= open
    BY <1>2, MatchedLotsBound DEF Fill
  <1>4. open \in Nat /\ open - lots \in Nat
    BY <1>1, <1>3 DEF Order
  <1>5. cost \in Nat
    <2>1. Quote(k).price \in Nat /\ Commission \in Nat
      BY <1>2, MoneyAssumption DEF Snapshot
    <2> QED
      BY <2>1, <1>3 DEF Cost
  <1> HIDE DEF lots, cost
  <1>6. account' \in [Accounts -> Account]
    <2>1. account' = [account EXCEPT ![a] = PaidFromFrozen(@, cost, lots = open)]
      BY DEF Fill, cost, lots
    <2>2. PaidFromFrozen(account[a], cost, lots = open) \in Account
      BY <1>1, <1>5, PaidType DEF TypeOK
    <2> QED
      BY <2>1, <2>2 DEF TypeOK
  <1>7. ledger' \in [Accounts -> Int]
    <2>1. ledger' = [ledger EXCEPT ![a] = @ - cost]
      BY DEF Fill, cost, lots
    <2> QED
      BY <2>1, <1>1, <1>5 DEF TypeOK
  <1>8. order' \in [Keys -> Order \cup {NoOrder}]
    <2>1. order' = [order EXCEPT ![k] = Filled(@, open, lots)]
      BY DEF Fill, lots
    <2>2. Filled(order[k], open, lots) \in Order
      BY <1>1, <1>4 DEF Filled, Order
    <2> QED
      BY <2>1, <2>2 DEF TypeOK
  <1>9. decided' \in [Keys -> SUBSET (1..MaxEvents)]
    BY <1>2 DEF TypeOK, Fill, Snapshot
  <1>10. fills' \subseteq [key : Keys, event : 1..MaxEvents, lots : Nat \ {0}]
    <2>1. fills' = fills \cup {[key |-> k, event |-> Quote(k).id, lots |-> lots]}
      BY DEF Fill, lots
    <2> QED
      BY <2>1, <1>2, <1>3 DEF TypeOK, Snapshot
  <1>11. holding' \in [Accounts -> [Symbols -> Nat]]
    <2>1. holding' = [holding EXCEPT ![a][s] = @ + lots]
      BY DEF Fill, Bought, lots
    <2> QED
      BY <2>1, <1>1, <1>3 DEF TypeOK
  <1> QED
    BY <1>6, <1>7, <1>8, <1>9, <1>10, <1>11

\* The HTTP handlers keep the types.
LEMMA HandlerType == TypeOK /\ Handlers => TypeOK'
  <1> SUFFICES ASSUME TypeOK, Handlers PROVE TypeOK'
    OBVIOUS
  <1>1. ASSUME NEW p \in Proposals, NEW k \in Keys, NEW a \in Accounts,
               Accept(p, a, k)
        PROVE  TypeOK'
    <2>1. Freeze(p) \in Nat
      BY MoneyAssumption, ShapeAssumption DEF Freeze
    <2>2. account' \in [Accounts -> Account]
      <3> DEFINE before == account[a]
      <3>1. before \in Account
        BY DEF TypeOK
      <3>2. before.available - Freeze(p) \in Nat /\ before.frozen + Freeze(p) \in Nat
        BY <3>1, <2>1, <1>1 DEF Accept, MayAccept, NewOrder
      <3> QED
        BY <3>1, <3>2, <1>1 DEF TypeOK, Accept, MayAccept, NewOrder
    <2>3. order' \in [Keys -> Order \cup {NoOrder}]
      <3>1. LotsOf[p] \in Nat \ {0} /\ clock + OrderTTL \in Nat
        <4>1. LotsOf[p] \in Nat /\ OrderTTL \in Nat /\ MaxClock \in Nat
          BY ShapeAssumption
        <4>2. clock \in Nat
          BY <4>1 DEF TypeOK
        <4>3. LotsOf[p] >= 1
          BY <1>1 DEF Accept, MayAccept, NewOrder
        <4> QED
          BY <4>1, <4>2, <4>3
      <3>2. [account |-> a, proposal |-> p, lots |-> LotsOf[p],
             remaining |-> LotsOf[p], expires |-> clock + OrderTTL,
             status |-> "PAPER_PENDING"] \in Order
        BY <3>1 DEF Order
      <3> QED
        BY <3>2, <1>1 DEF TypeOK, Accept, MayAccept, NewOrder
    <2>4. proposal' \in [Proposals -> ProposalStatus]
      BY <1>1 DEF TypeOK, Accept, MayAccept, NewOrder
    <2>5. UNCHANGED <<clock, ledger, decided, fills, holding, feed, batch>>
      BY <1>1 DEF Accept, MayAccept, NewOrder
    <2> QED
      BY <2>2, <2>3, <2>4, <2>5 DEF TypeOK
  <1>2. ASSUME NEW p \in Proposals, NEW k \in Keys, AcceptExpired(p, k)
        PROVE  TypeOK'
    BY <1>2 DEF TypeOK, AcceptExpired, books
  <1>3. ASSUME NEW p \in Proposals, NEW to \in ProposalStatus,
               TransitionProposal(p, to)
        PROVE  TypeOK'
    BY <1>3 DEF TypeOK, TransitionProposal, MayTransition, books
  <1>4. ASSUME NEW k \in Keys, CancelOrder(k)
        PROVE  TypeOK'
    <2> DEFINE a == order[k].account
    <2>1. order[k] \in Order /\ a \in Accounts
      BY <1>4 DEF TypeOK, CancelOrder, Order, NoOrder
    <2>2. [order[k] EXCEPT !.status = "CANCELLED"] \in Order
      BY <2>1 DEF Order
    <2>3. account' \in [Accounts -> Account]
      BY <2>1, <1>4 DEF TypeOK, CancelOrder
    <2> QED
      BY <2>2, <2>3, <1>4 DEF TypeOK, CancelOrder
  <1>5. ASSUME NEW a \in Accounts, PauseAccount(a) \/ ResumeAccount(a)
        PROVE  TypeOK'
    BY <1>5 DEF TypeOK, PauseAccount, ResumeAccount
  <1> QED
    BY <1>1, <1>2, <1>3, <1>4, <1>5 DEF Handlers

\* The monitors keep the types.
LEMMA MonitorType == TypeOK /\ Monitoring => TypeOK'
  <1> SUFFICES ASSUME TypeOK, NEW m \in Monitors,
                      \/ Claim(m)
                      \/ Restart(m)
                      \/ \E k \in Keys :
                           \/ ProcessNothing(m, k)
                           \/ ProcessInactiveAccount(m, k)
                           \/ ProcessSuspended(m, k)
                           \/ ProcessRiskOff(m, k)
                           \/ ProcessRiskRejected(m, k)
                           \/ ProcessUnmatched(m, k)
                           \/ ProcessFill(m, k)
               PROVE  TypeOK'
    BY DEF Monitoring
  <1>1. CASE Claim(m)
    BY <1>1 DEF TypeOK, Claim, Eligible, books
  <1>2. CASE Restart(m)
    BY <1>2 DEF TypeOK, Restart, books
  <1>3. ASSUME NEW k \in Keys, Dequeue(m, k)
        PROVE  batch' \in [Monitors -> SUBSET Keys]
    BY <1>3 DEF TypeOK, Dequeue
  <1>4. ASSUME NEW k \in Keys, ProcessNothing(m, k)
        PROVE  TypeOK'
    BY <1>3, <1>4 DEF TypeOK, ProcessNothing, books
  <1>5. ASSUME NEW k \in Keys, Executable(k)
        PROVE  order[k].remaining \in 1..order[k].remaining
    BY <1>5, ExecutableOrder
  <1>6. ASSUME NEW k \in Keys, ProcessInactiveAccount(m, k)
        PROVE  TypeOK'
    <2>1. /\ order' \in [Keys -> Order \cup {NoOrder}]
          /\ decided' \in [Keys -> SUBSET (1..MaxEvents)]
      BY <1>5, <1>6, CompleteBlockType DEF ProcessInactiveAccount
    <2> QED
      BY <1>3, <1>6, <2>1 DEF TypeOK, ProcessInactiveAccount, books
  <1>7. ASSUME NEW k \in Keys, ProcessSuspended(m, k)
        PROVE  TypeOK'
    <2>1. /\ order' \in [Keys -> Order \cup {NoOrder}]
          /\ decided' \in [Keys -> SUBSET (1..MaxEvents)]
      BY <1>5, <1>7, CompleteBlockType DEF ProcessSuspended, Decidable
    <2> QED
      BY <1>3, <1>7, <2>1 DEF TypeOK, ProcessSuspended, books
  <1>8. ASSUME NEW k \in Keys, ProcessRiskOff(m, k)
        PROVE  TypeOK'
    <2>1. /\ order' \in [Keys -> Order \cup {NoOrder}]
          /\ decided' \in [Keys -> SUBSET (1..MaxEvents)]
      BY <1>5, <1>8, CompleteBlockType DEF ProcessRiskOff, Decidable
    <2>2. account' \in [Accounts -> Account]
      BY <1>8 DEF TypeOK, ProcessRiskOff
    <2> QED
      BY <1>3, <1>8, <2>1, <2>2 DEF TypeOK, ProcessRiskOff
  <1>9. ASSUME NEW k \in Keys, ProcessRiskRejected(m, k)
        PROVE  TypeOK'
    <2>1. /\ order' \in [Keys -> Order \cup {NoOrder}]
          /\ decided' \in [Keys -> SUBSET (1..MaxEvents)]
      BY <1>5, <1>9, CompleteBlockType DEF ProcessRiskRejected, Decidable
    <2> QED
      BY <1>3, <1>9, <2>1 DEF TypeOK, ProcessRiskRejected, books
  <1>10. ASSUME NEW k \in Keys, ProcessUnmatched(m, k)
         PROVE  TypeOK'
    <2>1. PICK open \in 1..order[k].remaining :
            CompleteBlock(k, BlockedStatus(k, open), open)
      BY <1>10 DEF ProcessUnmatched
    <2>2. /\ order' \in [Keys -> Order \cup {NoOrder}]
          /\ decided' \in [Keys -> SUBSET (1..MaxEvents)]
      BY <1>10, <2>1, BlockedStatusType, CompleteBlockType
      DEF ProcessUnmatched, Decidable
    <2> QED
      BY <1>3, <1>10, <2>2 DEF TypeOK, ProcessUnmatched, books
  <1>11. ASSUME NEW k \in Keys, ProcessFill(m, k)
         PROVE  TypeOK'
    <2>1. PICK open \in 1..order[k].remaining : Fill(k, open)
      BY <1>11 DEF ProcessFill
    <2>2. Executable(k) /\ Quote(k) # NoSnapshot
      BY <1>11 DEF ProcessFill, Decidable
    <2> QED
      BY <1>3, <1>11, <2>1, <2>2, FillType DEF TypeOK, ProcessFill
  <1> QED
    BY <1>1, <1>2, <1>4, <1>6, <1>7, <1>8, <1>9, <1>10, <1>11

\* The market data and the clock keep the types.
LEMMA MarketType == TypeOK /\ Market => TypeOK'
  <1>1. TypeOK /\ Tick => TypeOK'
    BY ShapeAssumption DEF TypeOK, Tick, books
  <1>2. ASSUME TypeOK, NEW s \in Symbols, SaveSnapshot(s)
        PROVE  TypeOK'
    <2>1. PICK price \in Prices, depth \in Depths, regime \in Regimes :
            feed' = [feed EXCEPT ![s] =
              [id |-> feed[s].id + 1, at |-> clock, price |-> price,
               depth |-> depth, regime |-> regime]]
      BY <1>2 DEF SaveSnapshot
    <2>2. feed[s].id + 1 \in 1..MaxEvents
      <3>1. feed[s].id \in Nat
        BY <1>2, ShapeAssumption DEF TypeOK, Snapshot, NoSnapshot
      <3> QED
        BY <3>1, <1>2, ShapeAssumption DEF SaveSnapshot
    <2>3. [id |-> feed[s].id + 1, at |-> clock, price |-> price,
           depth |-> depth, regime |-> regime] \in Snapshot
      BY <1>2, <2>2 DEF TypeOK, Snapshot
    <2>4. feed' \in [Symbols -> Snapshot \cup {NoSnapshot}]
      BY <1>2, <2>1, <2>3 DEF TypeOK
    <2> QED
      BY <1>2, <2>4 DEF TypeOK, SaveSnapshot, books
  <1> QED
    BY <1>1, <1>2 DEF Market

\* Holding accounts keeps the types.
LEMMA HoldType ==
    ASSUME TypeOK, NEW S \in SUBSET Accounts, HoldAccounts(S)
    PROVE  TypeOK'
  BY DEF TypeOK, HoldAccounts

\* Every step of the book keeps the types.
LEMMA StepType == TypeOK /\ [Next]_vars => TypeOK'
  <1>1. TypeOK /\ UNCHANGED vars => TypeOK'
    BY DEF TypeOK, vars
  <1> QED
    BY <1>1, HandlerType, MonitorType, MarketType, HoldType DEF Next

\* The rows keep their types, and no interleaving of handlers, monitors,
\* settlement and recovery drives the available or the frozen cash below zero.
THEOREM TypeCorrect == Spec => []TypeOK
  BY InitType, StepType, PTL DEF Spec

----------------------------------------------------------------------------
(* The five kinds of steps, as far as orders, fills and cash are concerned. *)

SameCash ==
    \A a \in Accounts : /\ account'[a].available = account[a].available
                        /\ account'[a].frozen = account[a].frozen

\* An event is answered without a fill.
BlockStatuses == {"BLOCKED_SUSPENSION", "BLOCKED_PRICE_LIMIT",
                  "BLOCKED_LIQUIDITY", "REJECTED", "BLOCKED_RISK",
                  "BLOCKED_ACCOUNT"}

Block(k, status, remaining) ==
    /\ Executable(k)
    /\ Quote(k) # NoSnapshot
    /\ CompleteBlock(k, status, remaining)
    /\ SameCash
    /\ UNCHANGED <<ledger, proposal, fills, holding>>

\* An event is answered with a fill.
Execution(k, open) ==
    /\ Executable(k)
    /\ account[order[k].account].status = "ACTIVE"
    /\ Quote(k) # NoSnapshot
    /\ Quote(k).id \notin decided[k]
    /\ Fill(k, open)
    /\ UNCHANGED proposal

\* No order is touched, and no proposal becomes or ceases to be accepted.
Quiet ==
    /\ SameCash
    /\ UNCHANGED <<ledger, order, decided, fills, holding>>
    /\ \A p \in Proposals : proposal'[p] = "ACCEPTED" <=> proposal[p] = "ACCEPTED"

\* Every step of the book is an acceptance, a cancel, a block or a fill of one order,
\* or leaves orders, fills, cash and ledger alone.
LEMMA StepKinds ==
    ASSUME TypeOK, [Next]_vars
    PROVE  \/ \E p \in Proposals, a \in Accounts, k \in Keys : Accept(p, a, k)
           \/ \E k \in Keys : CancelOrder(k)
           \/ \E k \in Keys, status \in BlockStatuses :
                \E remaining \in 1..order[k].remaining : Block(k, status, remaining)
           \/ \E k \in Keys : \E open \in 1..order[k].remaining : Execution(k, open)
           \/ Quiet
  <1>1. UNCHANGED vars => Quiet
    BY DEF vars, Quiet, SameCash
  <1>2. ASSUME NEW p \in Proposals, NEW k \in Keys, AcceptExpired(p, k)
        PROVE  Quiet
    BY <1>2 DEF AcceptExpired, Acceptable, books, Quiet, SameCash, TypeOK
  <1>3. ASSUME NEW p \in Proposals, NEW to \in ProposalStatus,
               TransitionProposal(p, to)
        PROVE  Quiet
    BY <1>3 DEF TransitionProposal, MayTransition, books, Quiet, SameCash, TypeOK
  <1>4. ASSUME NEW a \in Accounts, PauseAccount(a) \/ ResumeAccount(a)
        PROVE  Quiet
    <2>1. PICK status \in AccountStatus :
            account' = [account EXCEPT ![a].status = status]
      BY <1>4 DEF PauseAccount, ResumeAccount
    <2>2. ASSUME NEW b \in Accounts
          PROVE  /\ account'[b].available = account[b].available
                 /\ account'[b].frozen = account[b].frozen
      <3>1. account[b] \in Account
        BY DEF TypeOK
      <3>2. account'[b] = IF b = a THEN [account[b] EXCEPT !.status = status]
                                   ELSE account[b]
        BY <2>1 DEF TypeOK
      <3> QED
        BY <3>1, <3>2
    <2>3. UNCHANGED <<ledger, proposal, order, decided, fills, holding>>
      BY <1>4 DEF PauseAccount, ResumeAccount
    <2>4. SameCash
      BY <2>2 DEF SameCash
    <2> QED
      BY <2>3, <2>4 DEF Quiet
  <1>5. ASSUME NEW S \in SUBSET Accounts, HoldAccounts(S)
        PROVE  Quiet
    <2>1. ASSUME NEW a \in Accounts
          PROVE  /\ account'[a].available = account[a].available
                 /\ account'[a].frozen = account[a].frozen
      <3>1. account[a] \in Account
        BY DEF TypeOK
      <3>2. account'[a] = IF a \in S
              THEN [account[a] EXCEPT !.status = "PAUSED_RECOVERY_REQUIRED"]
              ELSE account[a]
        BY <1>5 DEF HoldAccounts
      <3> QED
        BY <3>1, <3>2
    <2>2. SameCash
      BY <2>1 DEF SameCash
    <2>3. UNCHANGED <<ledger, proposal, order, decided, fills, holding>>
      BY <1>5 DEF HoldAccounts
    <2> QED
      BY <2>2, <2>3 DEF Quiet
  <1>6. Market => Quiet
    BY DEF Market, Tick, SaveSnapshot, books, Quiet, SameCash
  <1>7. ASSUME NEW m \in Monitors,
               \/ Claim(m)
               \/ Restart(m)
               \/ \E k \in Keys : ProcessNothing(m, k)
        PROVE  Quiet
    BY <1>7 DEF Claim, Restart, ProcessNothing, books, Quiet, SameCash
  <1>8. ASSUME NEW k \in Keys, Executable(k)
        PROVE  order[k].remaining \in 1..order[k].remaining
    BY <1>8, ExecutableOrder
  <1>9. ASSUME NEW m \in Monitors, NEW k \in Keys,
               ProcessInactiveAccount(m, k)
        PROVE  \E remaining \in 1..order[k].remaining :
                 Block(k, "BLOCKED_ACCOUNT", remaining)
    BY <1>8, <1>9 DEF ProcessInactiveAccount, Block, SameCash, books
  <1>10. ASSUME NEW m \in Monitors, NEW k \in Keys, ProcessSuspended(m, k)
         PROVE  \E remaining \in 1..order[k].remaining :
                  Block(k, "BLOCKED_SUSPENSION", remaining)
    BY <1>8, <1>10 DEF ProcessSuspended, Decidable, Block, SameCash, books
  <1>11. ASSUME NEW m \in Monitors, NEW k \in Keys, ProcessRiskOff(m, k)
         PROVE  \E remaining \in 1..order[k].remaining :
                  Block(k, "BLOCKED_RISK", remaining)
    <2>1. SameCash
      BY <1>11 DEF ProcessRiskOff, TypeOK, SameCash
    <2> QED
      BY <1>8, <1>11, <2>1 DEF ProcessRiskOff, Decidable, Block
  <1>12. ASSUME NEW m \in Monitors, NEW k \in Keys, ProcessRiskRejected(m, k)
         PROVE  \E remaining \in 1..order[k].remaining :
                  Block(k, "BLOCKED_RISK", remaining)
    BY <1>8, <1>12 DEF ProcessRiskRejected, Decidable, Block, SameCash, books
  <1>13. ASSUME NEW m \in Monitors, NEW k \in Keys, ProcessUnmatched(m, k)
         PROVE  \E status \in BlockStatuses :
                  \E remaining \in 1..order[k].remaining : Block(k, status, remaining)
    <2>1. PICK open \in 1..order[k].remaining :
            CompleteBlock(k, BlockedStatus(k, open), open)
      BY <1>13 DEF ProcessUnmatched
    <2>2. BlockedStatus(k, open) \in BlockStatuses
      BY DEF BlockedStatus, BlockStatuses
    <2>3. Block(k, BlockedStatus(k, open), open)
      BY <1>13, <2>1 DEF ProcessUnmatched, Decidable, Block, SameCash, books
    <2> QED
      BY <2>2, <2>3
  <1>14. ASSUME NEW m \in Monitors, NEW k \in Keys, ProcessFill(m, k)
         PROVE  \E open \in 1..order[k].remaining : Execution(k, open)
    BY <1>14 DEF ProcessFill, Decidable, Execution
  <1>15. ASSUME Monitoring
         PROVE  \/ Quiet
                \/ \E k \in Keys, status \in BlockStatuses :
                     \E remaining \in 1..order[k].remaining :
                       Block(k, status, remaining)
                \/ \E k \in Keys : \E open \in 1..order[k].remaining :
                     Execution(k, open)
    <2>1. {"BLOCKED_ACCOUNT", "BLOCKED_SUSPENSION", "BLOCKED_RISK"} \subseteq BlockStatuses
      BY DEF BlockStatuses
    <2> QED
      BY <1>7, <1>9, <1>10, <1>11, <1>12, <1>13, <1>14, <1>15, <2>1 DEF Monitoring
  <1> QED
    BY <1>1, <1>2, <1>3, <1>4, <1>5, <1>6, <1>15 DEF Next, Handlers

----------------------------------------------------------------------------
(* Cash: the books never record less than they move, and frozen cash       *)
(* always has an order behind it.                                          *)

\* A cancel moves the frozen balance of the order's account back.
LEMMA CancelMoves ==
    ASSUME TypeOK, NEW k \in Keys, CancelOrder(k)
    PROVE  /\ order[k] \in Order
           /\ account' = [account EXCEPT
                ![order[k].account].available = @ + account[order[k].account].frozen,
                ![order[k].account].frozen = 0]
  BY DEF CancelOrder, TypeOK, Order, NoOrder

\* A fill takes at most its cost out of the account.
LEMMA PaidAtMostCost ==
    ASSUME NEW acct \in Account, NEW cost \in Nat, NEW completes \in BOOLEAN
    PROVE  LET paid == PaidFromFrozen(acct, cost, completes)
           IN /\ paid.available + paid.frozen >= acct.available + acct.frozen - cost
              /\ completes => paid.frozen = 0
  <1> DEFINE rest == IF acct.frozen > cost THEN acct.frozen - cost ELSE 0
  <1>1. rest \in Nat /\ rest >= acct.frozen - cost
    OBVIOUS
  <1>2. acct.available \in Nat /\ acct.frozen \in Nat
    OBVIOUS
  <1> HIDE DEF rest
  <1>3. CASE completes
    <2>1. PaidFromFrozen(acct, cost, completes) =
            [acct EXCEPT !.available = @ + rest, !.frozen = 0]
      BY <1>3 DEF PaidFromFrozen, rest
    <2> QED
      BY <2>1, <1>1, <1>2
  <1>4. CASE ~completes
    <2>1. PaidFromFrozen(acct, cost, completes) = [acct EXCEPT !.frozen = rest]
      BY <1>4 DEF PaidFromFrozen, rest
    <2> QED
      BY <2>1, <1>1, <1>2, <1>4
  <1> QED
    BY <1>3, <1>4

\* What an execution does to the account and its ledger.
LEMMA ExecutionMoves ==
    ASSUME TypeOK, NEW k \in Keys, NEW open \in 1..order[k].remaining,
           Execution(k, open)
    PROVE  \E cost \in Nat :
             /\ order[k].account \in Accounts
             /\ account' = [account EXCEPT ![order[k].account] =
                  PaidFromFrozen(@, cost, MatchedLots(k, open) = open)]
             /\ ledger' = [ledger EXCEPT ![order[k].account] = @ - cost]
  <1> DEFINE lots == MatchedLots(k, open)
             cost == Cost(Quote(k).price, lots)
  <1>1. Quote(k) \in Snapshot
    BY QuoteType DEF Execution
  <1>2. lots \in Nat
    BY <1>1, MatchedLotsBound DEF Execution, Fill
  <1>3. cost \in Nat
    <2>1. Quote(k).price \in Nat /\ Commission \in Nat
      BY <1>1, MoneyAssumption DEF Snapshot
    <2> QED
      BY <2>1, <1>2 DEF Cost
  <1>4. order[k].account \in Accounts
    BY ExecutableOrder DEF Execution
  <1> QED
    BY <1>3, <1>4 DEF Execution, Fill

\* No step takes out of an account more than it charges the ledger.
LEMMA LedgerStep == TypeOK /\ LedgerNeverAhead /\ [Next]_vars => LedgerNeverAhead'
  <1> SUFFICES ASSUME TypeOK, LedgerNeverAhead, [Next]_vars, NEW b \in Accounts
               PROVE  ledger'[b] <= account'[b].available + account'[b].frozen
    BY DEF LedgerNeverAhead, Cash
  <1>1. /\ account[b] \in Account /\ ledger[b] \in Int
        /\ ledger[b] <= account[b].available + account[b].frozen
    BY DEF TypeOK, LedgerNeverAhead, Cash
  <1>2. ASSUME NEW p \in Proposals, NEW a \in Accounts, NEW k \in Keys,
               Accept(p, a, k)
        PROVE  ledger'[b] <= account'[b].available + account'[b].frozen
    <2>1. Freeze(p) \in Nat
      BY MoneyAssumption, ShapeAssumption DEF Freeze
    <2>2. ledger'[b] = ledger[b]
      BY <1>2 DEF Accept, MayAccept, NewOrder
    <2>3. CASE a = b
      <3>1. account'[b] = [account[b] EXCEPT !.available = @ - Freeze(p),
                                             !.frozen = @ + Freeze(p)]
        BY <1>2, <2>3 DEF Accept, MayAccept, NewOrder, TypeOK
      <3>2. /\ account'[b].available = account[b].available - Freeze(p)
            /\ account'[b].frozen = account[b].frozen + Freeze(p)
        BY <3>1, <1>1
      <3> QED
        BY <3>2, <2>1, <2>2, <1>1
    <2>4. CASE a # b
      <3>1. account'[b] = account[b]
        BY <1>2, <2>4 DEF Accept, MayAccept, NewOrder, TypeOK
      <3> QED
        BY <3>1, <2>2, <1>1
    <2> QED
      BY <2>3, <2>4
  <1>3. ASSUME NEW k \in Keys, CancelOrder(k)
        PROVE  ledger'[b] <= account'[b].available + account'[b].frozen
    <2>1. ledger'[b] = ledger[b]
      BY <1>3 DEF CancelOrder
    <2> DEFINE a == order[k].account
    <2>2. CASE b = a
      <3>1. account'[b] = [account[b] EXCEPT !.available = @ + account[b].frozen,
                                             !.frozen = 0]
        BY <1>3, <2>2, CancelMoves DEF TypeOK
      <3>2. /\ account'[b].available = account[b].available + account[b].frozen
            /\ account'[b].frozen = 0
        BY <3>1, <1>1
      <3> QED
        BY <3>2, <2>1, <1>1
    <2>3. CASE b # a
      <3>1. account'[b] = account[b]
        BY <1>3, <2>3, CancelMoves DEF TypeOK
      <3> QED
        BY <3>1, <2>1, <1>1
    <2> QED
      BY <2>2, <2>3
  <1>4. ASSUME SameCash, UNCHANGED ledger
        PROVE  ledger'[b] <= account'[b].available + account'[b].frozen
    BY <1>1, <1>4 DEF SameCash
  <1>5. ASSUME NEW k \in Keys, NEW open \in 1..order[k].remaining,
               Execution(k, open)
        PROVE  ledger'[b] <= account'[b].available + account'[b].frozen
    <2> DEFINE completes == MatchedLots(k, open) = open
               a == order[k].account
    <2>1. PICK cost \in Nat :
            /\ a \in Accounts
            /\ account' = [account EXCEPT ![a] = PaidFromFrozen(@, cost, completes)]
            /\ ledger' = [ledger EXCEPT ![a] = @ - cost]
      BY <1>5, ExecutionMoves
    <2> HIDE DEF completes
    <2>2. CASE b = a
      <3> DEFINE paid == PaidFromFrozen(account[b], cost, completes)
      <3>1. account'[b] = paid /\ ledger'[b] = ledger[b] - cost
        BY <2>1, <2>2 DEF TypeOK
      <3>2. completes \in BOOLEAN
        BY DEF completes
      <3>3. paid \in Account
        BY <1>1, <3>2, PaidType
      <3>4. paid.available + paid.frozen >= account[b].available + account[b].frozen - cost
        BY <1>1, <3>2, PaidAtMostCost
      <3> HIDE DEF paid
      <3> QED
        BY <1>1, <3>1, <3>3, <3>4
    <2>3. CASE b # a
      <3>1. account'[b] = account[b] /\ ledger'[b] = ledger[b]
        BY <2>1, <2>3 DEF TypeOK
      <3> QED
        BY <3>1, <1>1
    <2> QED
      BY <2>2, <2>3
  <1> QED
    BY <1>2, <1>3, <1>4, <1>5, StepKinds DEF Block, Quiet

\* Whatever handlers and monitors do, in any order, an account's cash is
\* never less than its ledger explains.
THEOREM CashCoversLedger == Spec => []LedgerNeverAhead
  <1>1. Init => LedgerNeverAhead
    BY MoneyAssumption DEF Init, LedgerNeverAhead, Cash
  <1> QED
    BY <1>1, LedgerStep, TypeCorrect, PTL DEF Spec

\* Every step leaves an owner to whatever stays frozen.
LEMMA FrozenStep == TypeOK /\ FrozenHasOwner /\ [Next]_vars => FrozenHasOwner'
  <1> DEFINE Owns(a, k) == /\ k \in Keys /\ order[k] # NoOrder /\ order[k].account = a
                           /\ order[k].status \notin {"FILLED", "CANCELLED"}
  <1> SUFFICES ASSUME TypeOK, FrozenHasOwner, [Next]_vars, NEW b \in Accounts,
                      account'[b].frozen > 0
               PROVE  \E k \in Keys : Owns(b, k)'
    BY DEF FrozenHasOwner, OnAccount, Placed
  <1>1. account[b] \in Account
    BY DEF TypeOK
  <1>2. ASSUME account[b].frozen > 0
        PROVE  \E k \in Keys : Owns(b, k)
    BY <1>2 DEF FrozenHasOwner, OnAccount, Placed
  <1>3. ASSUME NEW p \in Proposals, NEW a \in Accounts, NEW k \in Keys,
               Accept(p, a, k)
        PROVE  \E j \in Keys : Owns(b, j)'
    <2>1. CASE a = b
      <3>1. order'[k] = [account |-> b, proposal |-> p, lots |-> LotsOf[p],
                         remaining |-> LotsOf[p], expires |-> clock + OrderTTL,
                         status |-> "PAPER_PENDING"]
        BY <1>3, <2>1 DEF Accept, MayAccept, NewOrder, TypeOK
      <3> QED
        BY <3>1 DEF NoOrder
    <2>2. CASE a # b
      <3>1. account'[b] = account[b]
        BY <1>3, <2>2 DEF Accept, MayAccept, NewOrder, TypeOK
      <3>2. PICK j \in Keys : Owns(b, j)
        BY <1>2, <3>1
      <3>3. j # k
        BY <1>3, <3>2 DEF Accept, MayAccept, NewOrder, Acceptable, Placed
      <3>4. order'[j] = order[j]
        BY <1>3, <3>3 DEF Accept, MayAccept, NewOrder, TypeOK
      <3> QED
        BY <3>2, <3>4
    <2> QED
      BY <2>1, <2>2
  <1>4. ASSUME NEW k \in Keys, CancelOrder(k)
        PROVE  \E j \in Keys : Owns(b, j)'
    <2>1. order[k].account # b
      <3>1. SUFFICES ASSUME order[k].account = b PROVE FALSE
        OBVIOUS
      <3>2. account'[b] = [account[b] EXCEPT !.available = @ + account[b].frozen,
                                             !.frozen = 0]
        BY <1>4, <3>1, CancelMoves DEF TypeOK
      <3> QED
        BY <3>2, <1>1
    <2>2. account'[b] = account[b]
      BY <1>4, <2>1, CancelMoves DEF TypeOK
    <2>3. PICK j \in Keys : Owns(b, j)
      BY <1>2, <2>2
    <2>4. order'[j] = order[j]
      BY <1>4, <2>1, <2>3 DEF CancelOrder, TypeOK
    <2> QED
      BY <2>3, <2>4
  <1>5. ASSUME NEW k \in Keys, NEW status \in BlockStatuses,
               NEW remaining \in 1..order[k].remaining, Block(k, status, remaining)
        PROVE  \E j \in Keys : Owns(b, j)'
    <2>1. PICK j \in Keys : Owns(b, j)
      BY <1>2, <1>5 DEF Block, SameCash
    <2>2. order' = [order EXCEPT ![k].status = status, ![k].remaining = remaining]
      BY <1>5 DEF Block, CompleteBlock
    <2>3. CASE j = k
      <3>1. order[k] \in Order
        BY <1>5, ExecutableOrder DEF Block
      <3>2. order'[k] = [order[k] EXCEPT !.status = status, !.remaining = remaining]
        BY <2>2 DEF TypeOK
      <3>3. order'[k].account = b /\ order'[k].status = status
        BY <3>1, <3>2, <2>1, <2>3 DEF Order
      <3> QED
        BY <3>3, <2>3 DEF BlockStatuses, NoOrder
    <2>4. CASE j # k
      <3>1. order'[j] = order[j]
        BY <2>2, <2>4 DEF TypeOK
      <3> QED
        BY <3>1, <2>1
    <2> QED
      BY <2>3, <2>4
  <1>6. ASSUME NEW k \in Keys, NEW open \in 1..order[k].remaining,
               Execution(k, open)
        PROVE  \E j \in Keys : Owns(b, j)'
    <2> DEFINE lots == MatchedLots(k, open)
    <2>1. order' = [order EXCEPT ![k] = Filled(@, open, lots)]
      BY <1>6 DEF Execution, Fill
    <2>2. PICK cost \in Nat :
            /\ order[k].account \in Accounts
            /\ account' = [account EXCEPT ![order[k].account] =
                             PaidFromFrozen(@, cost, lots = open)]
      BY <1>6, ExecutionMoves
    <2>3. order[k] \in Order
      BY <1>6, ExecutableOrder DEF Execution
    <2> HIDE DEF lots
    <2>4. CASE order[k].account = b
      <3>1. account'[b] = PaidFromFrozen(account[b], cost, lots = open)
        BY <2>2, <2>4 DEF TypeOK
      <3>2. lots # open
        <4> DEFINE completes == lots = open
        <4>1. completes \in BOOLEAN
          OBVIOUS
        <4>2. account'[b] = PaidFromFrozen(account[b], cost, completes)
          BY <3>1
        <4> HIDE DEF completes
        <4>3. completes => account'[b].frozen = 0
          BY <4>1, <4>2, <1>1, PaidAtMostCost
        <4> QED
          BY <4>3 DEF completes
      <3>3. order'[k] = [order[k] EXCEPT !.remaining = open - lots,
                                         !.status = "PARTIALLY_FILLED"]
        BY <2>1, <3>2 DEF TypeOK, Filled
      <3>4. order'[k].account = b /\ order'[k].status = "PARTIALLY_FILLED"
        BY <3>3, <2>3, <2>4 DEF Order
      <3> QED
        BY <3>4 DEF NoOrder
    <2>5. CASE order[k].account # b
      <3>1. account'[b] = account[b]
        BY <2>2, <2>5 DEF TypeOK
      <3>2. PICK j \in Keys : Owns(b, j)
        BY <1>2, <3>1
      <3>3. order'[j] = order[j]
        BY <2>1, <2>5, <3>2 DEF TypeOK
      <3> QED
        BY <3>2, <3>3
    <2> QED
      BY <2>4, <2>5
  <1>7. ASSUME Quiet
        PROVE  \E j \in Keys : Owns(b, j)'
    <2>1. PICK j \in Keys : Owns(b, j)
      BY <1>2, <1>7 DEF Quiet, SameCash
    <2> QED
      BY <2>1, <1>7 DEF Quiet
  <1> QED
    BY <1>3, <1>4, <1>5, <1>6, <1>7, StepKinds

\* Closing one order releases the frozen cash of all of them; even so no
\* interleaving leaves cash frozen in an account whose orders were all filled
\* or cancelled.
THEOREM FrozenCashHasOwner == Spec => []FrozenHasOwner
  <1>1. Init => FrozenHasOwner
    BY DEF Init, FrozenHasOwner
  <1> QED
    BY <1>1, FrozenStep, TypeCorrect, PTL DEF Spec

----------------------------------------------------------------------------
(* Orders and fills.                                                       *)

\* No step gives a proposal a second order.
LEMMA ProposalStep ==
    TypeOK /\ OneOrderPerProposal /\ [Next]_vars => OneOrderPerProposal'
  <1> SUFFICES ASSUME TypeOK, OneOrderPerProposal, [Next]_vars
               PROVE  OneOrderPerProposal'
    OBVIOUS
  <1>1. ASSUME NEW p \in Proposals, NEW a \in Accounts, NEW k \in Keys,
               Accept(p, a, k)
        PROVE  OneOrderPerProposal'
    <2> DEFINE row == [account |-> a, proposal |-> p, lots |-> LotsOf[p],
                       remaining |-> LotsOf[p], expires |-> clock + OrderTTL,
                       status |-> "PAPER_PENDING"]
    <2>1. /\ order' = [order EXCEPT ![k] = row]
          /\ proposal' = [proposal EXCEPT ![p] = "ACCEPTED"]
          /\ order[k] = NoOrder
          /\ proposal[p] # "ACCEPTED"
      BY <1>1 DEF Accept, MayAccept, NewOrder, Acceptable, Placed
    <2>2. row # NoOrder /\ row.proposal = p
      BY DEF NoOrder
    <2> HIDE DEF row
    <2>3. order'[k] = row /\ \A j \in Keys \ {k} : order'[j] = order[j]
      BY <2>1 DEF TypeOK
    <2>4. proposal'[p] = "ACCEPTED" /\ \A q \in Proposals \ {p} : proposal'[q] = proposal[q]
      BY <2>1 DEF TypeOK
    <2>5. \A j \in Keys : order[j] # NoOrder => order[j].proposal # p
      BY <2>1 DEF OneOrderPerProposal, Placed
    <2> QED
      BY <2>1, <2>2, <2>3, <2>4, <2>5 DEF OneOrderPerProposal, Placed
  <1>2. ASSUME UNCHANGED proposal, NEW k \in Keys, order[k] \in Order,
               NEW row \in Order, row.proposal = order[k].proposal,
               order' = [order EXCEPT ![k] = row]
        PROVE  OneOrderPerProposal'
    <2>1. order'[k] = row /\ \A j \in Keys \ {k} : order'[j] = order[j]
      BY <1>2 DEF TypeOK
    <2>2. order[k] # NoOrder /\ row # NoOrder
      BY <1>2 DEF Order, NoOrder
    <2> QED
      BY <1>2, <2>1, <2>2 DEF OneOrderPerProposal, Placed
  <1>3. ASSUME NEW k \in Keys, CancelOrder(k)
        PROVE  OneOrderPerProposal'
    <2> DEFINE row == [order[k] EXCEPT !.status = "CANCELLED"]
    <2>1. order[k] \in Order
      BY <1>3, CancelMoves
    <2>2. row \in Order /\ row.proposal = order[k].proposal
      BY <2>1 DEF Order
    <2>3. order' = [order EXCEPT ![k] = row] /\ UNCHANGED proposal
      BY <1>3 DEF CancelOrder
    <2> HIDE DEF row
    <2> QED
      BY <1>2, <2>1, <2>2, <2>3
  <1>4. ASSUME NEW k \in Keys, NEW status \in BlockStatuses,
               NEW remaining \in 1..order[k].remaining, Block(k, status, remaining)
        PROVE  OneOrderPerProposal'
    <2> DEFINE row == [order[k] EXCEPT !.status = status, !.remaining = remaining]
    <2>1. order[k] \in Order
      BY <1>4, ExecutableOrder DEF Block
    <2>2. row \in Order /\ row.proposal = order[k].proposal
      <3>1. status \in ActiveOrderStatuses \cup ClosedStatuses
        BY DEF BlockStatuses
      <3>2. remaining \in Nat
        BY <2>1 DEF Order
      <3> QED
        BY <2>1, <3>1, <3>2 DEF Order
    <2>3. order' = [order EXCEPT ![k] = row] /\ UNCHANGED proposal
      BY <1>4 DEF Block, CompleteBlock
    <2> HIDE DEF row
    <2> QED
      BY <1>2, <2>1, <2>2, <2>3
  <1>5. ASSUME NEW k \in Keys, NEW open \in 1..order[k].remaining,
               Execution(k, open)
        PROVE  OneOrderPerProposal'
    <2> DEFINE row == Filled(order[k], open, MatchedLots(k, open))
    <2>1. order[k] \in Order
      BY <1>5, ExecutableOrder DEF Execution
    <2>2. open - MatchedLots(k, open) \in Nat
      BY <1>5, <2>1, QuoteType, MatchedLotsBound DEF Execution, Fill, Order
    <2>3. row \in Order /\ row.proposal = order[k].proposal
      BY <2>1, <2>2 DEF Filled, Order
    <2>4. order' = [order EXCEPT ![k] = row] /\ UNCHANGED proposal
      BY <1>5 DEF Execution, Fill
    <2> HIDE DEF row
    <2> QED
      BY <1>2, <2>1, <2>3, <2>4
  <1>6. ASSUME Quiet PROVE OneOrderPerProposal'
    BY <1>6 DEF Quiet, OneOrderPerProposal, Placed
  <1> QED
    BY <1>1, <1>3, <1>4, <1>5, <1>6, StepKinds

\* However often and with whatever keys a proposal is accepted, it becomes at
\* most one order.
THEOREM AcceptedOnce == Spec => []OneOrderPerProposal
  <1>1. Init => OneOrderPerProposal
    BY DEF Init, OneOrderPerProposal, Placed
  <1> QED
    BY <1>1, ProposalStep, TypeCorrect, PTL DEF Spec

\* No step fills an order twice for one event.
LEMMA FillStep == TypeOK /\ OneFillPerEvent /\ [Next]_vars => OneFillPerEvent'
  <1> SUFFICES ASSUME TypeOK, OneFillPerEvent, [Next]_vars
               PROVE  OneFillPerEvent'
    OBVIOUS
  <1>1. ASSUME UNCHANGED fills,
               \A k \in Keys : Placed(k) => Placed(k)' /\ decided[k] \subseteq decided'[k]
        PROVE  OneFillPerEvent'
    BY <1>1 DEF OneFillPerEvent, TypeOK
  <1>2. ASSUME NEW p \in Proposals, NEW a \in Accounts, NEW k \in Keys,
               Accept(p, a, k)
        PROVE  OneFillPerEvent'
    <2>1. Placed(k)'
      BY <1>2 DEF Accept, MayAccept, NewOrder, Placed, NoOrder, TypeOK
    <2>2. \A j \in Keys \ {k} : order'[j] = order[j]
      BY <1>2 DEF Accept, MayAccept, NewOrder, TypeOK
    <2> QED
      BY <1>1, <1>2, <2>1, <2>2 DEF Accept, MayAccept, NewOrder, Placed
  <1>3. ASSUME NEW k \in Keys, CancelOrder(k)
        PROVE  OneFillPerEvent'
    <2>1. [order[k] EXCEPT !.status = "CANCELLED"].status # "NONE"
      BY <1>3, CancelMoves DEF Order
    <2>2. /\ order'[k] = [order[k] EXCEPT !.status = "CANCELLED"]
          /\ \A j \in Keys \ {k} : order'[j] = order[j]
      BY <1>3 DEF CancelOrder, TypeOK
    <2> QED
      BY <1>1, <1>3, <2>1, <2>2 DEF CancelOrder, Placed, NoOrder
  <1>4. ASSUME NEW k \in Keys, NEW status \in BlockStatuses,
               NEW remaining \in 1..order[k].remaining, Block(k, status, remaining)
        PROVE  OneFillPerEvent'
    <2> DEFINE row == [order[k] EXCEPT !.status = status, !.remaining = remaining]
    <2>1. order[k] \in Order
      BY <1>4, ExecutableOrder DEF Block
    <2>2. row.status # "NONE"
      BY <2>1 DEF Order, BlockStatuses
    <2>3. order'[k] = row /\ \A j \in Keys \ {k} : order'[j] = order[j]
      BY <1>4 DEF Block, CompleteBlock, TypeOK
    <2> HIDE DEF row
    <2>4. \A j \in Keys : decided[j] \subseteq decided'[j]
      BY <1>4 DEF Block, CompleteBlock, TypeOK
    <2>5. \A j \in Keys : Placed(j) => Placed(j)'
      BY <2>2, <2>3 DEF Placed, NoOrder
    <2> QED
      BY <1>1, <1>4, <2>4, <2>5 DEF Block
  <1>5. ASSUME NEW k \in Keys, NEW open \in 1..order[k].remaining,
               Execution(k, open)
        PROVE  OneFillPerEvent'
    <2> DEFINE new == [key |-> k, event |-> Quote(k).id, lots |-> MatchedLots(k, open)]
               row == Filled(order[k], open, MatchedLots(k, open))
    <2>1. fills' = fills \cup {new}
      BY <1>5 DEF Execution, Fill
    <2>2. decided' = [decided EXCEPT ![k] = @ \cup {new.event}]
      BY <1>5 DEF Execution, Fill
    <2>3. new.key = k /\ new.event \notin decided[k]
      BY <1>5 DEF Execution
    <2>4. order[k] \in Order /\ Placed(k)
      BY <1>5, ExecutableOrder DEF Execution
    <2>5. row.status # "NONE"
      BY <2>4 DEF Filled, Order
    <2>6. order'[k] = row /\ \A j \in Keys \ {k} : order'[j] = order[j]
      BY <1>5 DEF Execution, Fill, TypeOK
    <2> HIDE DEF new, row
    <2>7. \A j \in Keys : Placed(j) => Placed(j)' /\ decided[j] \subseteq decided'[j]
      BY <2>2, <2>5, <2>6 DEF Placed, NoOrder, TypeOK
    <2>8. \A f \in fills : ~(f.key = k /\ f.event = new.event)
      BY <2>3 DEF OneFillPerEvent
    <2>10. \A f \in fills' : Placed(f.key)' /\ f.event \in decided'[f.key]
      BY <2>1, <2>2, <2>3, <2>4, <2>7 DEF OneFillPerEvent, TypeOK
    <2>11. \A f, g \in fills' : f.key = g.key /\ f.event = g.event => f = g
      BY <2>1, <2>3, <2>8 DEF OneFillPerEvent
    <2> QED
      BY <2>10, <2>11 DEF OneFillPerEvent
  <1>6. ASSUME Quiet PROVE OneFillPerEvent'
    BY <1>1, <1>6 DEF Quiet, Placed
  <1> QED
    BY <1>2, <1>3, <1>4, <1>5, <1>6, StepKinds

\* However many monitors claim an order, and however often, it is filled at
\* most once for a market event.
THEOREM FilledOncePerEvent == Spec => []OneFillPerEvent
  <1>1. Init => OneFillPerEvent
    BY DEF Init, OneFillPerEvent
  <1> QED
    BY <1>1, FillStep, TypeCorrect, PTL DEF Spec

\* No step touches an order that is closed.
LEMMA ClosedStep ==
    TypeOK /\ [Next]_vars =>
      \A j \in Keys : order[j].status \in ClosedStatuses => order'[j] = order[j]
  <1> SUFFICES ASSUME TypeOK, [Next]_vars, NEW j \in Keys,
                      order[j].status \in ClosedStatuses
               PROVE  order'[j] = order[j]
    OBVIOUS
  <1>1. ASSUME NEW p \in Proposals, NEW a \in Accounts, NEW k \in Keys,
               Accept(p, a, k)
        PROVE  order'[j] = order[j]
    BY <1>1 DEF Accept, MayAccept, NewOrder, Acceptable, Placed, NoOrder, TypeOK
  <1>2. ASSUME NEW k \in Keys, CancelOrder(k)
        PROVE  order'[j] = order[j]
    BY <1>2 DEF CancelOrder, TypeOK
  <1>3. ASSUME NEW k \in Keys, NEW status, NEW remaining, Block(k, status, remaining)
        PROVE  order'[j] = order[j]
    <2>1. j # k
      BY <1>3, ExecutableOrder DEF Block
    <2> QED
      BY <1>3, <2>1 DEF Block, CompleteBlock, TypeOK
  <1>4. ASSUME NEW k \in Keys, NEW open, Execution(k, open)
        PROVE  order'[j] = order[j]
    <2>1. j # k
      BY <1>4, ExecutableOrder DEF Execution
    <2> QED
      BY <1>4, <2>1 DEF Execution, Fill, TypeOK
  <1> QED
    BY <1>1, <1>2, <1>3, <1>4, StepKinds DEF Quiet

\* An order that is filled, cancelled, rejected or parked never changes
\* again, whatever batches the monitors still hold.
THEOREM ClosedOrdersStayClosed == Spec => ClosedForGood
  <1>1. TypeOK /\ [Next]_vars =>
          [\A k \in Keys : order[k].status \in ClosedStatuses => order'[k] = order[k]]_vars
    BY ClosedStep
  <1> QED
    BY <1>1, TypeCorrect, PTL DEF Spec, ClosedForGood

----------------------------------------------------------------------------
(* The book implements the promise about orders.                           *)

Room(k) == IF Placed(k) THEN order[k].remaining ELSE 0

\* One order changes: so do its phase and its room, and no others'.
LEMMA OneOrderChanges ==
    ASSUME TypeOK, NEW k \in Keys, NEW row,
           order' = [order EXCEPT ![k] = row]
    PROVE  /\ order'[k] = row
           /\ [j \in Keys |-> Phase(j)]' =
                [[j \in Keys |-> Phase(j)] EXCEPT ![k] = Phase(k)']
           /\ [j \in Keys |-> Room(j)]' =
                [[j \in Keys |-> Room(j)] EXCEPT ![k] = Room(k)']
  <1>1. order'[k] = row /\ \A j \in Keys \ {k} : order'[j] = order[j]
    BY DEF TypeOK
  <1>2. \A j \in Keys \ {k} : Phase(j)' = Phase(j) /\ Room(j)' = Room(j)
    BY <1>1 DEF Phase, Room, Placed
  <1> QED
    BY <1>1, <1>2

\* Every step of the book is a step of the promise, or a stutter.
LEMMA PromiseStep == TypeOK /\ [Next]_vars => [Promise!Next]_(Promise!vars)
  <1> SUFFICES ASSUME TypeOK, [Next]_vars
               PROVE  Promise!Next \/ UNCHANGED Promise!vars
    OBVIOUS
  <1> DEFINE phase == [j \in Keys |-> Phase(j)]
             room  == [j \in Keys |-> Room(j)]
  <1>1. ASSUME NEW p \in Proposals, NEW a \in Accounts, NEW k \in Keys,
               Accept(p, a, k)
        PROVE  Promise!Next
    <2> DEFINE row == [account |-> a, proposal |-> p, lots |-> LotsOf[p],
                       remaining |-> LotsOf[p], expires |-> clock + OrderTTL,
                       status |-> "PAPER_PENDING"]
    <2>1. order[k] = NoOrder /\ order' = [order EXCEPT ![k] = row]
      BY <1>1 DEF Accept, MayAccept, NewOrder, Acceptable, Placed
    <2>2. /\ order'[k] = row
          /\ phase' = [phase EXCEPT ![k] = Phase(k)']
          /\ room' = [room EXCEPT ![k] = Room(k)']
      BY <2>1, OneOrderChanges
    <2>3. phase[k] = "absent"
      BY <2>1 DEF Phase, NoOrder
    <2>4. Phase(k)' = "open" /\ Room(k)' = LotsOf[p]
      BY <2>2 DEF Phase, Room, Placed, NoOrder
    <2>5. LotsOf[p] \in {LotsOf[q] : q \in Proposals} \ {0}
      BY <1>1 DEF Accept, MayAccept, NewOrder
    <2>6. UNCHANGED <<decided, fills>>
      BY <1>1 DEF Accept, MayAccept, NewOrder
    <2> HIDE DEF row
    <2>7. Promise!Place(k, LotsOf[p])
      BY <2>2, <2>3, <2>4, <2>6 DEF Promise!Place, Room
    <2> QED
      BY <2>5, <2>7 DEF Promise!Next
  <1>2. ASSUME NEW k \in Keys, CancelOrder(k)
        PROVE  Promise!Next
    <2> DEFINE row == [order[k] EXCEPT !.status = "CANCELLED"]
    <2>1. order[k] \in Order /\ order' = [order EXCEPT ![k] = row]
      BY <1>2, CancelMoves DEF CancelOrder
    <2>2. /\ order'[k] = row
          /\ phase' = [phase EXCEPT ![k] = Phase(k)']
          /\ room' = [room EXCEPT ![k] = Room(k)']
      BY <2>1, OneOrderChanges
    <2>3. row.status = "CANCELLED" /\ row.remaining = order[k].remaining
      BY <2>1 DEF Order
    <2>4. phase[k] = "open" /\ order[k] # NoOrder
      BY <1>2 DEF CancelOrder, Phase, NoOrder
    <2>5. Phase(k)' = "stopped" /\ Room(k)' = Room(k)
      BY <2>2, <2>3, <2>4 DEF Phase, Room, Placed, NoOrder
    <2>6. room' = room
      BY <2>2, <2>5
    <2>7. UNCHANGED <<decided, fills>>
      BY <1>2 DEF CancelOrder
    <2> HIDE DEF row
    <2>8. Promise!Withdraw(k)
      BY <2>2, <2>4, <2>5, <2>6, <2>7 DEF Promise!Withdraw, Room
    <2> QED
      BY <2>8 DEF Promise!Next
  <1>3. ASSUME NEW k \in Keys, NEW status \in BlockStatuses,
               NEW remaining \in 1..order[k].remaining, Block(k, status, remaining)
        PROVE  Promise!Next
    <2> DEFINE row == [order[k] EXCEPT !.status = status, !.remaining = remaining]
               event == Quote(k).id
    <2>1. /\ order[k] \in Order /\ Placed(k) /\ order[k].remaining \in Nat
          /\ order' = [order EXCEPT ![k] = row]
      BY <1>3, ExecutableOrder DEF Block, CompleteBlock
    <2>2. /\ order'[k] = row
          /\ phase' = [phase EXCEPT ![k] = Phase(k)']
          /\ room' = [room EXCEPT ![k] = Room(k)']
      BY <2>1, OneOrderChanges
    <2>3. row.status = status /\ row.remaining = remaining
      BY <2>1 DEF Order
    <2>4. phase[k] = "open"
      BY <1>3 DEF Block, Executable, Phase
    <2> HIDE DEF row
    <2>5. Room(k)' = remaining
      BY <2>2, <2>3 DEF BlockStatuses, Room, Placed, NoOrder
    <2>10. PICK verdict \in {"open", "stopped"} : Phase(k)' = verdict
      BY <2>2, <2>3 DEF BlockStatuses, Phase
    <2>6. /\ remaining >= 1 /\ remaining \in 0..room[k] /\ remaining <= room[k]
      BY <2>1 DEF Room
    <2>7. event \in 1..MaxEvents
      BY <1>3, QuoteType DEF Block, Snapshot
    <2>8. decided' = [decided EXCEPT ![k] = @ \cup {event}] /\ UNCHANGED fills
      BY <1>3 DEF Block, CompleteBlock
    <2> HIDE DEF event
    <2>9. Promise!Decline(k, event, remaining, verdict)
      BY <2>2, <2>4, <2>5, <2>6, <2>8, <2>10 DEF Promise!Decline, Room
    <2> QED
      BY <2>6, <2>7, <2>9 DEF Promise!Next, Room
  <1>4. ASSUME NEW k \in Keys, NEW open \in 1..order[k].remaining,
               Execution(k, open)
        PROVE  Promise!Next
    <2> DEFINE lots == MatchedLots(k, open)
               rest == open - lots
               row == Filled(order[k], open, lots)
               event == Quote(k).id
    <2>1. /\ order[k] \in Order /\ Placed(k) /\ order[k].remaining \in Nat
          /\ order' = [order EXCEPT ![k] = row]
      BY <1>4, ExecutableOrder DEF Execution, Fill
    <2>2. /\ order'[k] = row
          /\ phase' = [phase EXCEPT ![k] = Phase(k)']
          /\ room' = [room EXCEPT ![k] = Room(k)']
      BY <2>1, OneOrderChanges
    <2>3. Quote(k) \in Snapshot
      BY <1>4, QuoteType DEF Execution
    <2>4. lots \in Nat \ {0} /\ lots <= open
      BY <1>4, <2>3, MatchedLotsBound DEF Execution, Fill
    <2>5. event \in 1..MaxEvents
      BY <2>3 DEF Snapshot
    <2>6. /\ row.status = IF lots = open THEN "FILLED" ELSE "PARTIALLY_FILLED"
          /\ row.remaining = rest
      BY <2>1 DEF Order, Filled
    <2>7. phase[k] = "open"
      BY <1>4 DEF Execution, Executable, Phase
    <2>8. /\ event \notin decided[k]
          /\ decided' = [decided EXCEPT ![k] = @ \cup {event}]
          /\ fills' = fills \cup {[key |-> k, event |-> event, lots |-> lots]}
      BY <1>4 DEF Execution, Fill
    <2> HIDE DEF lots, event, row
    <2>9. /\ rest \in Nat /\ (rest = 0 <=> lots = open)
          /\ lots >= 1 /\ lots + rest <= order[k].remaining
          /\ lots \in 0..order[k].remaining /\ rest \in 0..order[k].remaining
      BY <2>1, <2>4
    <2> HIDE DEF rest
    <2>10. Phase(k)' = IF rest = 0 THEN "filled" ELSE "open"
      BY <2>2, <2>6, <2>9 DEF Phase
    <2>11. Room(k)' = rest
      BY <2>2, <2>6 DEF Room, Placed, NoOrder
    <2>12. room[k] = order[k].remaining
      BY <2>1 DEF Room
    <2>13. PICK l, r \in 0..room[k] : l = lots /\ r = rest
      BY <2>9, <2>12
    <2>14. Promise!Trade(k, event, l, r)
      BY <2>2, <2>7, <2>8, <2>9, <2>10, <2>11, <2>12, <2>13 DEF Promise!Trade, Room
    <2> QED
      BY <2>5, <2>13, <2>14 DEF Promise!Next, Room
  <1>5. ASSUME Quiet
        PROVE  UNCHANGED Promise!vars
    BY <1>5 DEF Quiet, Promise!vars, Phase, Placed
  <1> QED
    BY <1>1, <1>2, <1>3, <1>4, <1>5, StepKinds

\* The book implements the order promise: refined to single transactions of
\* handlers and monitors, nothing happens to an order that OrderPromise does
\* not allow.
THEOREM PromiseImplemented == Spec => OrderPromiseKept
  <1>1. Init => Promise!Init
    BY DEF Init, Promise!Init, Phase, Placed, NoOrder
  <1> QED
    BY <1>1, PromiseStep, TypeCorrect, PTL DEF Spec, OrderPromiseKept, Promise!Spec

\* The monitor never decides on an event it has a fill for: the DUPLICATE_FILL
\* branch of _process_order_tx, which Fill leaves out, cannot be reached.
THEOREM NoDuplicateFill ==
  ASSUME OneFillPerEvent, NEW m \in Monitors, NEW k \in Keys, Decidable(m, k)
  PROVE  \A f \in fills : ~(f.key = k /\ f.event = Quote(k).id)
BY DEF OneFillPerEvent, Decidable
----------------------------------------------------------------------------
(* Positions.                                                              *)

FillsOf(a, s) == {f \in fills : /\ f.key \in OnAccount(a)
                                /\ SymbolOf[order[f.key].proposal] = s}

\* The fills are finitely many and belong to orders, so that they have a sum.
FillsBooked == OneFillPerEvent /\ IsFiniteSet(fills) /\ HoldingIsFills

\* A sum of fills, by the library's sum over a set.
LEMMA LotsSum ==
    ASSUME NEW rows, IsFiniteSet(rows), \A f \in rows : f.lots \in Nat, NEW g,
           IsFiniteSet(rows \cup {g}), g \notin rows, g.lots \in Nat
    PROVE  LotsFilled(rows \cup {g}) = LotsFilled(rows) + g.lots
  <1> DEFINE all == rows \cup {g}
             lots == [f \in all |-> f.lots]
             old == [f \in rows |-> f.lots]
  <1>1. \A f \in all : lots[f] \in Int /\ lots[f] = f.lots
    OBVIOUS
  <1>2. \A f \in rows : old[f] \in Int /\ old[f] = lots[f]
    OBVIOUS
  <1>3. LotsFilled(all) = SumFunctionOnSet(lots, all)
    BY DEF LotsFilled, SumFunction
  <1>4. LotsFilled(rows) = SumFunctionOnSet(old, rows)
    BY DEF LotsFilled, SumFunction
  <1>5. lots[g] = g.lots
    OBVIOUS
  <1> HIDE DEF lots, old
  <1>6. SumFunctionOnSet(old, rows) = SumFunctionOnSet(lots, rows)
    BY <1>2, SumSame
  <1>7. SumFunctionOnSet(lots, all) = SumFunctionOnSet(lots, rows) + lots[g]
    BY <1>1, SumAdd
  <1> QED BY <1>3, <1>4, <1>5, <1>6, <1>7

\* No fills fill no lots.
LEMMA NoLots == LotsFilled({}) = 0
  BY SumEmpty DEF LotsFilled, SumFunction

\* No step takes an order away or moves it to another account or proposal.
LEMMA RowKept ==
    ASSUME TypeOK, [Next]_vars, NEW k \in Keys, Placed(k)
    PROVE  /\ Placed(k)'
           /\ order'[k].account = order[k].account
           /\ order'[k].proposal = order[k].proposal
  <1>1. order[k] \in Order
    BY DEF TypeOK, Placed
  <1>2. ASSUME NEW p \in Proposals, NEW a \in Accounts, NEW j \in Keys, Accept(p, a, j)
        PROVE  order'[k] = order[k]
    BY <1>2 DEF Accept, MayAccept, Acceptable, TypeOK
  <1>3. ASSUME NEW j \in Keys, CancelOrder(j)
        PROVE  order'[k] = order[k] \/ order'[k] = [order[k] EXCEPT !.status = "CANCELLED"]
    BY <1>3 DEF CancelOrder, TypeOK
  <1>4. ASSUME NEW j \in Keys, NEW status \in BlockStatuses,
               NEW remaining \in 1..order[j].remaining, Block(j, status, remaining)
        PROVE  \/ order'[k] = order[k]
               \/ order'[k] = [order[k] EXCEPT !.status = status, !.remaining = remaining]
    BY <1>4 DEF Block, CompleteBlock, TypeOK
  <1>5. ASSUME NEW j \in Keys, NEW open \in 1..order[j].remaining, Execution(j, open)
        PROVE  \/ order'[k] = order[k]
               \/ order'[k] = Filled(order[k], open, MatchedLots(k, open))
    BY <1>5 DEF Execution, Fill, TypeOK
  <1>6. CASE Quiet
    BY <1>6 DEF Quiet, Placed
  <1> QED
    BY <1>1, <1>2, <1>3, <1>4, <1>5, <1>6, StepKinds DEF Placed, Order, NoOrder, Filled


\* While fills and positions stay, so do the sums.
LEMMA HoldingKept ==
    ASSUME TypeOK, FillsBooked, [Next]_vars, UNCHANGED <<fills, holding>>
    PROVE  IsFiniteSet(fills') /\ HoldingIsFills'
  <1>1. ASSUME NEW f \in fills
        PROVE  /\ f.key \in Keys /\ Placed(f.key) /\ Placed(f.key)'
               /\ order'[f.key].account = order[f.key].account
               /\ order'[f.key].proposal = order[f.key].proposal
    <2>1. f.key \in Keys /\ Placed(f.key)
      BY DEF TypeOK, FillsBooked, OneFillPerEvent
    <2> QED BY <2>1, RowKept
  <1>2. ASSUME NEW a \in Accounts, NEW s \in Symbols
        PROVE  FillsOf(a, s)' = FillsOf(a, s)
    BY <1>1 DEF FillsOf, OnAccount
  <1>3. \A a \in Accounts, s \in Symbols : LotsFilled(FillsOf(a, s)') = LotsFilled(FillsOf(a, s))
    BY <1>2
  <1> QED
    BY <1>3 DEF HoldingIsFills, FillsBooked, FillsOf

\* A fill adds its lots to the position of its symbol and to no other.
LEMMA HoldingFilled ==
    ASSUME TypeOK, FillsBooked, [Next]_vars, NEW k \in Keys,
           NEW open \in 1..order[k].remaining, Execution(k, open)
    PROVE  IsFiniteSet(fills') /\ HoldingIsFills'
  <1> DEFINE b == order[k].account
             t == SymbolOf[order[k].proposal]
             lots == MatchedLots(k, open)
             row == [key |-> k, event |-> Quote(k).id, lots |-> lots]
  <1>1. /\ order[k] \in Order /\ Placed(k)
        /\ b \in Accounts /\ t \in Symbols /\ lots \in Nat
    <2>1. Executable(k) /\ Quote(k) # NoSnapshot /\ Matches(k, open)
      BY DEF Execution, Fill
    <2>2. Quote(k) \in Snapshot
      BY <2>1, QuoteType
    <2> QED BY <2>1, <2>2, ExecutableOrder, MatchedLotsBound, ShapeAssumption
  <1>2. /\ fills' = fills \cup {row} /\ row \notin fills
        /\ holding' = [holding EXCEPT ![b][t] = @ + lots]
    BY DEF Execution, Fill, Bought
  <1>3. row.lots = lots /\ row.key = k
    OBVIOUS
  <1> HIDE DEF lots, row
  <1>4. IsFiniteSet(fills')
    BY <1>2, FS_AddElement DEF FillsBooked
  <1>5. ASSUME NEW f \in fills
        PROVE  /\ f.key \in Keys /\ Placed(f.key) /\ Placed(f.key)'
               /\ order'[f.key].account = order[f.key].account
               /\ order'[f.key].proposal = order[f.key].proposal
    <2>1. f.key \in Keys /\ Placed(f.key)
      BY DEF TypeOK, FillsBooked, OneFillPerEvent
    <2> QED BY <2>1, RowKept
  <1>6. Placed(k)' /\ order'[k].account = b /\ order'[k].proposal = order[k].proposal
    BY <1>1, RowKept
  <1>7. ASSUME NEW a \in Accounts, NEW s \in Symbols
        PROVE  FillsOf(a, s)' = IF a = b /\ s = t THEN FillsOf(a, s) \cup {row}
                                ELSE FillsOf(a, s)
    BY <1>1, <1>2, <1>3, <1>5, <1>6 DEF FillsOf, OnAccount
  <1>8. ASSUME NEW a \in Accounts, NEW s \in Symbols
        PROVE  holding'[a][s] = LotsFilled(FillsOf(a, s)')
    <2>1. holding[a][s] = LotsFilled(FillsOf(a, s))
      BY DEF FillsBooked, HoldingIsFills, FillsOf
    <2>2. CASE a = b /\ s = t
      <3>1. holding'[a][s] = holding[a][s] + lots
        BY <2>2, <1>2 DEF TypeOK
      <3>2. IsFiniteSet(FillsOf(a, s)) /\ row \notin FillsOf(a, s)
        BY <1>2, FS_Subset DEF FillsOf, FillsBooked
      <3>3. IsFiniteSet(FillsOf(a, s) \cup {row})
        BY <3>2, FS_AddElement
      <3>4. \A f \in FillsOf(a, s) : f.lots \in Nat
        BY DEF TypeOK, FillsOf
      <3>5. row.lots \in Nat
        BY <1>1, <1>3
      <3>6. LotsFilled(FillsOf(a, s) \cup {row}) = LotsFilled(FillsOf(a, s)) + lots
        BY <3>2, <3>3, <3>4, <3>5, <1>3, LotsSum
      <3> QED BY <2>1, <2>2, <3>1, <3>6, <1>7
    <2>3. CASE ~(a = b /\ s = t)
      <3>1. holding'[a][s] = holding[a][s]
        BY <2>3, <1>1, <1>2 DEF TypeOK
      <3>2. FillsOf(a, s)' = FillsOf(a, s)
        BY <2>3, <1>7
      <3> QED BY <2>1, <3>1, <3>2
    <2> QED BY <2>2, <2>3
  <1> QED
    BY <1>4, <1>8 DEF HoldingIsFills, FillsOf

\* A fill adds its lots to the position and to the sum of fills alike; no other
\* step touches either.
LEMMA HoldingStep == TypeOK /\ FillsBooked /\ [Next]_vars => FillsBooked'
  <1> SUFFICES ASSUME TypeOK, FillsBooked, [Next]_vars PROVE FillsBooked'
    OBVIOUS
  <1>1. OneFillPerEvent'
    BY FillStep DEF FillsBooked
  <1>2. IsFiniteSet(fills') /\ HoldingIsFills'
    <2>1. CASE UNCHANGED <<fills, holding>>
      BY <2>1, HoldingKept
    <2>2. ASSUME NEW k \in Keys, NEW open \in 1..order[k].remaining, Execution(k, open)
          PROVE  IsFiniteSet(fills') /\ HoldingIsFills'
      BY <2>2, HoldingFilled
    <2>3. \/ UNCHANGED <<fills, holding>>
          \/ \E k \in Keys : \E open \in 1..order[k].remaining : Execution(k, open)
      BY StepKinds DEF Accept, CancelOrder, Block, Quiet
    <2> QED BY <2>1, <2>2, <2>3
  <1> QED BY <1>1, <1>2 DEF FillsBooked

\* However the monitors and the handlers interleave, every position is the sum
\* of the fills of its account and symbol: no fill is applied twice or lost.
THEOREM HoldingsAreFills == Spec => []HoldingIsFills
  <1>1. Init => FillsBooked
    <2> SUFFICES ASSUME Init PROVE FillsBooked
      OBVIOUS
    <2>1. fills = {} /\ \A a \in Accounts, s \in Symbols : holding[a][s] = 0
      BY DEF Init
    <2>2. \A a \in Accounts, s \in Symbols : FillsOf(a, s) = {}
      BY <2>1 DEF FillsOf
    <2>3. HoldingIsFills
      BY <2>1, <2>2, NoLots DEF HoldingIsFills, FillsOf
    <2> QED BY <2>1, <2>3, FS_EmptySet DEF FillsBooked, OneFillPerEvent
  <1>2. FillsBooked => HoldingIsFills
    BY DEF FillsBooked
  <1> QED
    BY <1>1, <1>2, HoldingStep, TypeCorrect, PTL DEF Spec

----------------------------------------------------------------------------
(***************************************************************************)
(* Settlement and recovery.  With them running, the book still behaves as   *)
(* PaperBook says: their proofs rest on the theorems about the book.        *)
(***************************************************************************)

\* Settlement and recovery change the book only as a step of the book may.
LEMMA SettlementStepKeepsBook ==
    [SettlementNext]_settlementVars => [Next]_vars
  <1>1. ASSUME NEW S, S \subseteq Accounts, Hold(S)
        PROVE  Next
    BY <1>1 DEF Hold, Next
  <1>2. ASSUME NEW scope \in SUBSET Accounts, Settle(scope)
        PROVE  Next
    BY <1>1, <1>2 DEF Settle
  <1>3. ASSUME NEW scope \in {Accounts} \cup {{a} : a \in Accounts}
        PROVE  scope \in SUBSET Accounts
    OBVIOUS
  <1>4. Recover => Next
    BY <1>1 DEF Recover
  <1>5. Trade => Next
    BY DEF Trade, Next
  <1> QED
    BY <1>2, <1>3, <1>4, <1>5 DEF SettlementNext, settlementVars

\* Settlement and recovery take only steps the book allows.
THEOREM SettlementKeepsBook == SettlementSpec => BookKept
  <1>1. SettlementInit => Init
    BY DEF SettlementInit
  <1> QED
    BY <1>1, SettlementStepKeepsBook, PTL DEF SettlementSpec, BookKept, Spec

\* What the book guarantees holds with settlement and recovery running.
LEMMA SettledBook == SettlementSpec => [](TypeOK /\ FrozenHasOwner)
  BY SettlementKeepsBook, TypeCorrect, FrozenCashHasOwner, PTL DEF BookKept

----------------------------------------------------------------------------
(* What a settlement writes.                                               *)

\* Settling changes account statuses and adds snapshots of settled accounts.
LEMMA SettleWrites ==
    ASSUME TypeOK, NEW scope \in SUBSET Accounts, Settle(scope)
    PROVE  \E written \in SUBSET scope :
             /\ snapshots' = snapshots \cup {SnapshotOf(a) : a \in written}
             /\ \A a \in written : ~Settled(a) /\ ~Unsettleable(a)
             /\ UNCHANGED clock
  <1> DEFINE position(a) == CHOOSE i \in DOMAIN AccountOrder : AccountOrder[i] = a
             bad     == {a \in scope : Unsettleable(a)}
             visited == {a \in scope : \A b \in bad : position(a) < position(b)}
             written == {b \in visited : ~Settled(b)}
  <1>1. ASSUME NEW a \in visited, Unsettleable(a)
        PROVE  FALSE
    <2>1. a \in bad /\ position(a) < position(a)
      BY <1>1
    <2>2. position(a) \in DOMAIN AccountOrder
      BY AccountOrderAssumption
    <2>3. position(a) \in Nat
      BY <2>2, AccountOrderAssumption
    <2> HIDE DEF position
    <2> QED
      BY <2>1, <2>3
  <1>2. /\ snapshots' = snapshots \cup {SnapshotOf(a) : a \in written}
        /\ UNCHANGED clock
    BY DEF Settle, Hold, HoldAccounts
  <1>3. written \in SUBSET scope
    OBVIOUS
  <1>4. \A a \in written : ~Settled(a) /\ ~Unsettleable(a)
    BY <1>1
  <1> HIDE DEF written
  <1> QED
    BY <1>2, <1>3, <1>4

\* The scope of a settlement is a set of accounts.
LEMMA ScopeType ==
    ASSUME NEW scope \in {Accounts} \cup {{a} : a \in Accounts}
    PROVE  scope \in SUBSET Accounts
  OBVIOUS

\* A snapshot row of a well-typed account is well typed.
LEMMA SnapshotType ==
    ASSUME TypeOK, NEW a \in Accounts
    PROVE  SnapshotOf(a) \in [account : Accounts, day : 0..MaxClock, cash : Nat,
                              frozen : Nat, holding : [Symbols -> Nat]]
  <1>1. account[a] \in Account /\ holding[a] \in [Symbols -> Nat]
    BY DEF TypeOK
  <1>2. Cash(a) \in Nat /\ account[a].frozen \in Nat
    BY <1>1 DEF Cash
  <1> QED
    BY <1>1, <1>2 DEF SnapshotOf, TypeOK

\* Every step keeps the types of snapshots and holds.
LEMMA SettlementTypeStep ==
    TypeOK /\ SettlementTypeOK /\ [SettlementNext]_settlementVars
      => SettlementTypeOK'
  <1> SUFFICES ASSUME TypeOK, SettlementTypeOK, [SettlementNext]_settlementVars
               PROVE  SettlementTypeOK'
    OBVIOUS
  <1>1. ASSUME NEW scope \in SUBSET Accounts, Settle(scope)
        PROVE  SettlementTypeOK'
    <2>1. held' \subseteq Accounts
      BY <1>1 DEF Settle, Hold, SettlementTypeOK
    <2>2. PICK written \in SUBSET scope :
            snapshots' = snapshots \cup {SnapshotOf(a) : a \in written}
      BY <1>1, SettleWrites
    <2> QED
      BY <2>1, <2>2, SnapshotType DEF SettlementTypeOK
  <1>2. CASE Recover
    BY <1>2 DEF Recover, Hold, SettlementTypeOK
  <1>3. CASE Trade
    BY <1>3 DEF Trade, SettlementTypeOK
  <1>4. CASE UNCHANGED settlementVars
    BY <1>4 DEF settlementVars, SettlementTypeOK
  <1> QED
    BY <1>1, <1>2, <1>3, <1>4, ScopeType DEF SettlementNext

\* The rows settlement writes keep their shape: it never records a negative
\* amount.
THEOREM SettlementTypeCorrect == SettlementSpec => []SettlementTypeOK
  <1>1. SettlementInit => SettlementTypeOK
    BY DEF SettlementInit, SettlementTypeOK
  <1> QED
    BY <1>1, SettlementTypeStep, SettledBook, PTL DEF SettlementSpec

----------------------------------------------------------------------------
(* One snapshot of a day.                                                  *)

\* The inductive invariant: no snapshot is of a day that has not begun.
SnapshotsInOrder ==
    /\ \A r \in snapshots : r.day <= clock
    /\ OneSnapshotPerDay

\* The business day never goes back.
LEMMA ClockMoves ==
    ASSUME TypeOK, [Next]_vars
    PROVE  clock \in Nat /\ clock' \in Nat /\ clock <= clock'
  <1>1. clock \in Nat
    BY ShapeAssumption DEF TypeOK
  <1>2. clock' = clock \/ clock' = clock + 1
    BY DEF Next, Handlers, Monitoring, Market, vars, books,
           Accept, MayAccept, NewOrder, AcceptExpired, TransitionProposal, MayTransition, CancelOrder,
           PauseAccount, ResumeAccount, HoldAccounts, SaveSnapshot, Tick,
           Claim, Restart, ProcessNothing, ProcessInactiveAccount,
           ProcessSuspended, ProcessRiskOff, ProcessRiskRejected,
           ProcessUnmatched, ProcessFill
  <1> QED
    BY <1>1, <1>2

\* No step writes a second snapshot of a day, or one dated in the future.
LEMMA SnapshotStep ==
    TypeOK /\ SettlementTypeOK /\ SnapshotsInOrder /\ [SettlementNext]_settlementVars
      => SnapshotsInOrder'
  <1> SUFFICES ASSUME TypeOK, SettlementTypeOK, SnapshotsInOrder,
                      [SettlementNext]_settlementVars
               PROVE  SnapshotsInOrder'
    OBVIOUS
  <1>1. clock \in Nat /\ clock' \in Nat /\ clock <= clock'
    BY ClockMoves, SettlementStepKeepsBook
  <1>2. \A r \in snapshots : r.day \in Int
    BY ShapeAssumption DEF SettlementTypeOK
  <1>3. CASE UNCHANGED snapshots
    BY <1>1, <1>2, <1>3 DEF SnapshotsInOrder, OneSnapshotPerDay
  <1>4. ASSUME NEW scope \in SUBSET Accounts, Settle(scope)
        PROVE  SnapshotsInOrder'
    <2>1. PICK written \in SUBSET scope :
            /\ snapshots' = snapshots \cup {SnapshotOf(a) : a \in written}
            /\ \A a \in written : ~Settled(a)
            /\ UNCHANGED clock
      BY <1>4, SettleWrites
    <2>2. \A a : SnapshotOf(a).account = a /\ SnapshotOf(a).day = clock
      BY DEF SnapshotOf
    <2>3. \A a \in written, r \in snapshots : ~(r.account = a /\ r.day = clock)
      BY <2>1 DEF Settled
    <2>4. \A r \in snapshots' : r.day <= clock'
      BY <2>1, <2>2, <1>1 DEF SnapshotsInOrder
    <2>5. \A r, t \in snapshots' : r.account = t.account /\ r.day = t.day => r = t
      <3> SUFFICES ASSUME NEW r \in snapshots', NEW t \in snapshots',
                          r.account = t.account, r.day = t.day
                   PROVE  r = t
        OBVIOUS
      <3>1. CASE r \in snapshots /\ t \in snapshots
        BY <3>1 DEF SnapshotsInOrder, OneSnapshotPerDay
      <3>2. CASE r \notin snapshots
        <4>1. PICK a \in written : r = SnapshotOf(a)
          BY <2>1, <3>2
        <4>2. t \notin snapshots
          BY <4>1, <2>2, <2>3
        <4>3. PICK b \in written : t = SnapshotOf(b)
          BY <2>1, <4>2
        <4>4. a = b
          BY <4>1, <4>3, <2>2
        <4> QED
          BY <4>1, <4>3, <4>4
      <3>3. CASE t \notin snapshots
        <4>1. PICK a \in written : t = SnapshotOf(a)
          BY <2>1, <3>3
        <4>2. r \notin snapshots
          BY <4>1, <2>2, <2>3
        <4>3. PICK b \in written : r = SnapshotOf(b)
          BY <2>1, <4>2
        <4>4. a = b
          BY <4>1, <4>3, <2>2
        <4> QED
          BY <4>1, <4>3, <4>4
      <3> QED
        BY <3>1, <3>2, <3>3
    <2> QED
      BY <2>4, <2>5 DEF SnapshotsInOrder, OneSnapshotPerDay
  <1> QED
    BY <1>3, <1>4, ScopeType DEF SettlementNext, Recover, Trade, settlementVars

\* Full, single-account and repeated settlements of a day leave one snapshot
\* of each account.
THEOREM SnapshotOncePerDay == SettlementSpec => []OneSnapshotPerDay
  <1>1. SettlementInit => SnapshotsInOrder
    BY DEF SettlementInit, SnapshotsInOrder, OneSnapshotPerDay
  <1>2. SettlementSpec => []SnapshotsInOrder
    BY <1>1, SnapshotStep, SettlementTypeCorrect, SettledBook, PTL DEF SettlementSpec
  <1>3. SnapshotsInOrder => OneSnapshotPerDay
    BY DEF SnapshotsInOrder
  <1> QED
    BY <1>2, <1>3, PTL

----------------------------------------------------------------------------
(* Which accounts are put on hold, and what is recorded of the others.     *)

\* Frozen cash that is not backed by an order in one of the statuses the
\* check looks at is backed by one the monitor blocked or rejected.
LEMMA HeldForBlockedOrder ==
    ASSUME TypeOK, FrozenHasOwner, NEW a \in Accounts,
           Unbalanced(a) \/ Orphaned(a)
    PROVE  \E k \in OnAccount(a) :
             order[k].status \notin {"FILLED", "CANCELLED", "PAPER_PENDING",
                                     "PARTIALLY_FILLED"}
  <1>1. account[a].frozen > 0
    BY DEF Unbalanced, Orphaned
  <1>2. PICK k \in OnAccount(a) : order[k].status \notin {"FILLED", "CANCELLED"}
    BY <1>1 DEF FrozenHasOwner
  <1>3. order[k].status \notin PlainActiveStatuses
    BY DEF Unbalanced, Orphaned, HasOrderIn, PlainActiveStatuses
  <1> QED
    BY <1>2, <1>3 DEF PlainActiveStatuses

\* An account is newly held only if a price is missing or one of its orders is in a
\* status that recovery does not count as active.
LEMMA HoldStep ==
    ASSUME TypeOK, FrozenHasOwner, [SettlementNext]_settlementVars,
           NEW a \in held' \ held
    PROVE  /\ a \in Accounts
           /\ \/ Unpriced(a)
              \/ \E k \in OnAccount(a) :
                   order[k].status \notin {"FILLED", "CANCELLED", "PAPER_PENDING",
                                           "PARTIALLY_FILLED"}
  <1>1. ASSUME NEW scope \in SUBSET Accounts, Settle(scope)
        PROVE  a \in Accounts /\ Unsettleable(a)
    BY <1>1 DEF Settle, Hold
  <1>2. CASE Recover
    BY <1>2, HeldForBlockedOrder DEF Recover, Hold
  <1>3. ASSUME NEW scope \in SUBSET Accounts, Settle(scope)
        PROVE  \/ Unpriced(a)
               \/ \E k \in OnAccount(a) :
                    order[k].status \notin {"FILLED", "CANCELLED",
                                            "PAPER_PENDING", "PARTIALLY_FILLED"}
    BY <1>1, <1>3, HeldForBlockedOrder DEF Unsettleable
  <1>4. ~Trade /\ ~UNCHANGED settlementVars
    BY DEF Trade, settlementVars
  <1> QED
    BY <1>1, <1>2, <1>3, <1>4, ScopeType DEF SettlementNext

\* A history of accepts, fills and cancels alone never gets an account put on
\* hold for its frozen cash.
THEOREM HoldsAreTraceable == SettlementSpec => HoldIsTraceable
  <1>1. TypeOK /\ FrozenHasOwner /\ [SettlementNext]_settlementVars =>
          [\A a \in held' \ held :
             \/ Unpriced(a)
             \/ \E k \in OnAccount(a) :
                  order[k].status \notin {"FILLED", "CANCELLED", "PAPER_PENDING",
                                          "PARTIALLY_FILLED"}]_settlementVars
    BY HoldStep
  <1> QED
    BY <1>1, SettledBook, PTL DEF SettlementSpec, HoldIsTraceable

\* Frozen cash in a new snapshot belongs to an active order.
LEMMA RecordedFrozenOwned ==
    ASSUME TypeOK, [SettlementNext]_settlementVars,
           NEW row \in snapshots' \ snapshots, row.frozen > 0
    PROVE  HasOrderIn(row.account, ActiveOrderStatuses)
  <1>1. ASSUME NEW scope \in SUBSET Accounts, Settle(scope)
        PROVE  HasOrderIn(row.account, ActiveOrderStatuses)
    <2>1. PICK written \in SUBSET scope :
            /\ snapshots' = snapshots \cup {SnapshotOf(a) : a \in written}
            /\ \A a \in written : ~Settled(a) /\ ~Unsettleable(a)
      BY <1>1, SettleWrites
    <2>2. PICK a \in written : row = SnapshotOf(a)
      BY <2>1
    <2>3. row.account = a /\ account[a].frozen > 0
      BY <2>2 DEF SnapshotOf
    <2>4. ~Unbalanced(a)
      BY <2>1 DEF Unsettleable
    <2> QED
      BY <2>3, <2>4 DEF Unbalanced
  <1> QED
    BY <1>1, ScopeType DEF SettlementNext, Recover, Trade, settlementVars

\* Frozen cash in a snapshot belongs to an order the monitor works on.
THEOREM SnapshotsBalanced == SettlementSpec => SnapshotFrozenOwned
  <1>1. TypeOK /\ [SettlementNext]_settlementVars =>
          [\A row \in snapshots' \ snapshots :
             row.frozen > 0 => HasOrderIn(row.account, ActiveOrderStatuses)]_settlementVars
    BY RecordedFrozenOwned
  <1> QED
    BY <1>1, SettledBook, PTL DEF SettlementSpec, SnapshotFrozenOwned

----------------------------------------------------------------------------
(* Accounts that are paused for recovery.                                  *)

\* The account b is not traded for in this step.
Idle(b) ==
    /\ holding'[b] = holding[b]
    /\ Cash(b)' = Cash(b)
    /\ OnAccount(b)' = OnAccount(b)

\* An order row that keeps its account does not move between accounts.
LEMMA OrderStaysOnAccount ==
    ASSUME TypeOK, NEW k \in Keys, order[k] \in Order, NEW row \in Order,
           row.account = order[k].account,
           order' = [order EXCEPT ![k] = row], NEW b \in Accounts
    PROVE  OnAccount(b)' = OnAccount(b)
  <1>1. order'[k] = row /\ \A j \in Keys \ {k} : order'[j] = order[j]
    BY DEF TypeOK
  <1>2. order[k] # NoOrder /\ row # NoOrder
    BY DEF Order, NoOrder
  <1> QED
    BY <1>1, <1>2 DEF OnAccount, Placed

\* A step of the book adds no order to a held account and leaves its positions and
\* its cash total alone.
LEMMA HeldStep ==
    ASSUME TypeOK, [Next]_vars, NEW b \in Accounts,
           account[b].status = "PAUSED_RECOVERY_REQUIRED"
    PROVE  Idle(b)
  <1>0. account[b] \in Account
    BY DEF TypeOK
  <1>1. ASSUME NEW p \in Proposals, NEW a \in Accounts, NEW k \in Keys,
               Accept(p, a, k)
        PROVE  Idle(b)
    <2>1. a # b
      BY <1>1 DEF Accept, MayAccept, NewOrder
    <2>2. account'[b] = account[b] /\ holding' = holding
      BY <1>1, <2>1 DEF Accept, MayAccept, NewOrder, TypeOK
    <2> DEFINE row == [account |-> a, proposal |-> p, lots |-> LotsOf[p],
                       remaining |-> LotsOf[p], expires |-> clock + OrderTTL,
                       status |-> "PAPER_PENDING"]
    <2>3. order[k] = NoOrder /\ order' = [order EXCEPT ![k] = row]
      BY <1>1 DEF Accept, MayAccept, NewOrder, Acceptable, Placed
    <2>4. order'[k].account = a /\ \A j \in Keys \ {k} : order'[j] = order[j]
      BY <2>3 DEF TypeOK
    <2>5. OnAccount(b)' = OnAccount(b)
      BY <2>1, <2>3, <2>4 DEF OnAccount, Placed
    <2> QED
      BY <2>2, <2>5 DEF Idle, Cash
  <1>2. ASSUME NEW k \in Keys, CancelOrder(k)
        PROVE  Idle(b)
    <2> DEFINE row == [order[k] EXCEPT !.status = "CANCELLED"]
               a == order[k].account
    <2>1. order[k] \in Order /\ order' = [order EXCEPT ![k] = row]
      BY <1>2, CancelMoves DEF CancelOrder
    <2>2. row \in Order /\ row.account = order[k].account
      BY <2>1 DEF Order
    <2>3. OnAccount(b)' = OnAccount(b)
      <3> HIDE DEF row
      <3> QED
        BY <2>1, <2>2, OrderStaysOnAccount
    <2>4. Cash(b)' = Cash(b)
      <3>1. CASE b = a
        <4>1. account'[b] = [account[b] EXCEPT !.available = @ + account[b].frozen,
                                               !.frozen = 0]
          BY <1>2, <3>1, CancelMoves DEF TypeOK
        <4>2. /\ account'[b].available = account[b].available + account[b].frozen
              /\ account'[b].frozen = 0
          BY <4>1, <1>0
        <4> QED
          BY <4>2, <1>0 DEF Cash
      <3>2. CASE b # a
        <4>1. account'[b] = account[b]
          BY <1>2, <3>2, CancelMoves DEF TypeOK
        <4> QED
          BY <4>1 DEF Cash
      <3> QED
        BY <3>1, <3>2
    <2> QED
      BY <2>3, <2>4, <1>2 DEF Idle, CancelOrder
  <1>3. ASSUME NEW k \in Keys, NEW status \in BlockStatuses,
               NEW remaining \in 1..order[k].remaining, Block(k, status, remaining)
        PROVE  Idle(b)
    <2> DEFINE row == [order[k] EXCEPT !.status = status, !.remaining = remaining]
    <2>1. order[k] \in Order /\ order' = [order EXCEPT ![k] = row]
      BY <1>3, ExecutableOrder DEF Block, CompleteBlock
    <2>2. status \in ActiveOrderStatuses \cup ClosedStatuses /\ remaining \in Nat
      BY <2>1 DEF BlockStatuses, Order
    <2>3. row \in Order /\ row.account = order[k].account
      BY <2>1, <2>2 DEF Order
    <2>4. OnAccount(b)' = OnAccount(b)
      <3> HIDE DEF row
      <3> QED
        BY <2>1, <2>3, OrderStaysOnAccount
    <2> QED
      BY <2>4, <1>3 DEF Idle, Block, SameCash, Cash
  <1>4. ASSUME NEW k \in Keys, NEW open \in 1..order[k].remaining,
               Execution(k, open)
        PROVE  Idle(b)
    <2> DEFINE row == Filled(order[k], open, MatchedLots(k, open))
               a == order[k].account
    <2>1. a # b
      BY <1>4 DEF Execution
    <2>2. order[k] \in Order /\ order' = [order EXCEPT ![k] = row]
      BY <1>4, ExecutableOrder DEF Execution, Fill
    <2>3. open - MatchedLots(k, open) \in Nat
      BY <1>4, <2>2, QuoteType, MatchedLotsBound DEF Execution, Fill, Order
    <2>4. row \in Order /\ row.account = order[k].account
      BY <2>2, <2>3 DEF Filled, Order
    <2>5. OnAccount(b)' = OnAccount(b)
      <3> HIDE DEF row
      <3> QED
        BY <2>2, <2>4, OrderStaysOnAccount
    <2>6. account'[b] = account[b]
      BY <1>4, <2>1, ExecutionMoves DEF TypeOK
    <2>7. holding'[b] = holding[b]
      BY <1>4, <2>1 DEF Execution, Fill, TypeOK
    <2> QED
      BY <2>5, <2>6, <2>7 DEF Idle, Cash
  <1>5. ASSUME Quiet
        PROVE  Idle(b)
    BY <1>5 DEF Quiet, SameCash, Idle, Cash, OnAccount, Placed
  <1> QED
    BY <1>1, <1>2, <1>3, <1>4, <1>5, StepKinds

\* While an account is paused for recovery nothing is bought for it and no
\* cash leaves it, whatever the monitors had claimed before.
THEOREM HeldAccountsIdle == SettlementSpec => HeldAccountDoesNotTrade
  <1>1. TypeOK /\ [SettlementNext]_settlementVars =>
          [\A a \in Accounts : account[a].status = "PAUSED_RECOVERY_REQUIRED" =>
             /\ holding'[a] = holding[a]
             /\ Cash(a)' = Cash(a)
             /\ OnAccount(a)' = OnAccount(a)]_settlementVars
    BY HeldStep, SettlementStepKeepsBook DEF Idle
  <1> QED
    BY <1>1, SettledBook, PTL DEF SettlementSpec, HeldAccountDoesNotTrade

----------------------------------------------------------------------------
(* Transactions that overlap: what the unique constraints keep, and the     *)
(* invariant it takes.                                                     *)

Read == [account : Account, order : Order \cup {NoOrder},
         proposal : ProposalStatus, held : Nat]
Insert == [event : 0..MaxEvents, lots : Nat, cost : Nat, release : BOOLEAN]
OpenSession == [open : {TRUE}, account : Accounts, order : Keys,
                proposal : Proposals, read : Read, new : Read, inserts : Insert]

\* A session that has read an order leaves it in place and of its proposal, one
\* that adds an order adds it for the proposal it has read, and fills belong to
\* orders and to events.
Sound(s) ==
    /\ s.read.order # NoOrder => /\ Placed(s.order)
                                 /\ s.new.order # NoOrder
                                 /\ s.new.order.proposal = s.read.order.proposal
    /\ s.read.order = NoOrder /\ s.new.order # NoOrder =>
          s.new.order.proposal = s.proposal
    /\ s.inserts.lots > 0 => Placed(s.order) /\ s.inserts.event > 0

OpenSound ==
    /\ session \in [Actors -> {Closed} \cup OpenSession]
    /\ \A x \in Actors : session[x].open => Sound(session[x])

UniqueOrders ==
    \A j, k \in Keys :
      Placed(j) /\ Placed(k) /\ order[j].proposal = order[k].proposal => j = k

IInv == TypeOK /\ UniqueOrders /\ OneFillPerEvent /\ OpenSound

----------------------------------------------------------------------------
(* Sessions that begin.                                                     *)

\* An order row is not the absence of one.
LEMMA NotAnOrder == NoOrder \notin Order
  BY DEF NoOrder, Order

\* What a session reads.
LEMMA RowsType ==
    ASSUME TypeOK, NEW a \in Accounts, NEW k \in Keys, NEW p \in Proposals
    PROVE  /\ Rows(a, k, p) \in Read
           /\ Rows(a, k, p).account = account[a]
           /\ Rows(a, k, p).order = order[k]
  <1>1. SymbolOf[p] \in Symbols
    BY ShapeAssumption
  <1> QED
    BY <1>1 DEF TypeOK, Rows, Read

\* The rows a session does not touch exist.
LEMMA AnyRows == AnyAccount \in Accounts /\ AnyKey \in Keys /\ AnyProposal \in Proposals
  BY RowsAssumption DEF AnyAccount, AnyKey, AnyProposal

\* A session that opens with sound rows keeps the invariant.
LEMMA OpenStep ==
    ASSUME IInv, NEW x \in Actors, NEW a \in Accounts, NEW k \in Keys,
           NEW p \in Proposals, NEW new \in Read, NEW inserts \in Insert,
           Open(x, a, k, p, new, inserts),
           order[k] # NoOrder => /\ new.order # NoOrder
                                 /\ new.order.proposal = order[k].proposal,
           order[k] = NoOrder /\ new.order # NoOrder => new.order.proposal = p,
           inserts.lots > 0 => Placed(k) /\ inserts.event > 0
    PROVE  IInv'
  <1> DEFINE s == [open |-> TRUE, account |-> a, order |-> k, proposal |-> p,
                   read |-> Rows(a, k, p), new |-> new, inserts |-> inserts]
  <1>1. UNCHANGED vars /\ session' = [session EXCEPT ![x] = s]
    BY DEF Open
  <1>2. s \in OpenSession
    BY RowsType DEF IInv, OpenSession
  <1>3. TypeOK' /\ UniqueOrders' /\ OneFillPerEvent'
    <2>1. UNCHANGED <<clock, account, ledger, proposal, order, decided, fills,
                      holding, feed, batch>>
      BY <1>1 DEF vars
    <2> QED
      BY <2>1 DEF IInv, TypeOK, UniqueOrders, OneFillPerEvent, Placed
  <1>4. order' = order
    BY <1>1 DEF vars
  <1>5. Sound(s)
    BY RowsType DEF IInv, Sound, Placed
  <1>6. session' \in [Actors -> {Closed} \cup OpenSession]
    BY <1>1, <1>2 DEF IInv, OpenSound
  <1>7. ASSUME NEW y \in Actors, session'[y].open PROVE Sound(session[y])'
    <2>1. CASE y = x
      <3>1. session'[y] = s
        BY <2>1, <1>1 DEF IInv, OpenSound
      <3> QED
        BY <3>1, <1>4, <1>5 DEF Sound, Placed
    <2>2. CASE y # x
      <3>1. session'[y] = session[y]
        BY <2>2, <1>1 DEF IInv, OpenSound
      <3> QED
        BY <3>1, <1>4, <1>7 DEF IInv, OpenSound, Sound, Placed
    <2> QED
      BY <2>1, <2>2
  <1> QED
    BY <1>3, <1>6, <1>7 DEF IInv, OpenSound

\* A session inserts nothing unless it says so.
LEMMA InsertsType == Inserts \in Insert /\ Inserts.lots = 0
  BY ShapeAssumption DEF Insert, Inserts

\* The order an accepted proposal gets.
LEMMA NewOrderType ==
    ASSUME TypeOK, NEW p \in Proposals, NEW a \in Accounts, LotsOf[p] >= 1
    PROVE  NewOrder(p, a) \in Order /\ NewOrder(p, a).proposal = p
  <1>1. LotsOf[p] \in Nat \ {0}
    BY ShapeAssumption
  <1>2. clock + OrderTTL \in Nat
    BY ShapeAssumption DEF TypeOK
  <1> QED
    BY <1>1, <1>2 DEF NewOrder, Order

\* A request that has read its rows keeps the invariant (the handlers).
LEMMA RequestStep ==
    ASSUME IInv, NEW x \in Requests, BeginRequest(x)
    PROVE  IInv'
  <1>1. x \in Actors /\ TypeOK
    BY DEF Actors, IInv
  <1>2. Inserts \in Insert /\ Inserts.lots = 0
    BY InsertsType
  <1>3. ASSUME NEW p \in Proposals, NEW k \in Keys, NEW a \in Accounts,
               BeginAccept(x, p, a, k)
        PROVE  IInv'
    <2> DEFINE new == [Rows(a, k, p) EXCEPT
                         !.account = [account[a] EXCEPT !.available = @ - Freeze(p),
                                                        !.frozen = @ + Freeze(p)],
                         !.order = NewOrder(p, a),
                         !.proposal = "ACCEPTED"]
    <2>1. Freeze(p) \in Nat
      BY MoneyAssumption, ShapeAssumption DEF Freeze
    <2>2. ~Placed(k) /\ LotsOf[p] >= 1 /\ account[a].available >= Freeze(p)
      BY <1>3 DEF BeginAccept, MayAccept, Acceptable
    <2>3. /\ account[a] \in Account
          /\ account[a].available - Freeze(p) \in Nat
          /\ account[a].frozen + Freeze(p) \in Nat
      BY <1>1, <2>1, <2>2 DEF TypeOK
    <2>4. new \in Read /\ new.order = NewOrder(p, a)
      <3> DEFINE acct == [account[a] EXCEPT !.available = @ - Freeze(p),
                                            !.frozen = @ + Freeze(p)]
                 rows == Rows(a, k, p)
      <3>1. acct \in Account
        BY <2>1, <2>3
      <3>2. rows \in Read
        BY <1>1, RowsType
      <3>3. NewOrder(p, a) \in Order
        BY <1>1, <2>2, NewOrderType
      <3> HIDE DEF acct, rows
      <3>4. [rows EXCEPT !.account = acct, !.order = NewOrder(p, a),
                         !.proposal = "ACCEPTED"] \in Read
        BY <3>1, <3>2, <3>3 DEF Read
      <3>5. [rows EXCEPT !.account = acct, !.order = NewOrder(p, a),
                         !.proposal = "ACCEPTED"].order = NewOrder(p, a)
        BY <3>2 DEF Read
      <3> QED
        BY <3>4, <3>5 DEF rows, acct
    <2>5. Open(x, a, k, p, new, Inserts)
      BY <1>3 DEF BeginAccept
    <2>6. new.order.proposal = p
      BY <1>1, <2>2, <2>4, NewOrderType
    <2> HIDE DEF new
    <2> QED
      BY <1>1, <1>2, <2>2, <2>4, <2>5, <2>6, OpenStep DEF Placed
  <1>4. ASSUME NEW p \in Proposals, NEW k \in Keys, BeginExpire(x, p, k)
        PROVE  IInv'
    <2> DEFINE rows == Rows(AnyAccount, AnyKey, p)
               new == [rows EXCEPT !.proposal = "EXPIRED"]
    <2>1. rows \in Read /\ rows.order = order[AnyKey]
      BY <1>1, AnyRows, RowsType
    <2>2. new \in Read /\ new.order = order[AnyKey]
      BY <2>1 DEF Read
    <2>3. Open(x, AnyAccount, AnyKey, p, new, Inserts)
      BY <1>4 DEF BeginExpire
    <2> HIDE DEF new
    <2> QED
      BY <1>1, <1>2, <2>2, <2>3, AnyRows, OpenStep
  <1>5. ASSUME NEW p \in Proposals, NEW to \in ProposalStatus, BeginTransition(x, p, to)
        PROVE  IInv'
    <2> DEFINE rows == Rows(AnyAccount, AnyKey, p)
               new == [rows EXCEPT !.proposal = to]
    <2>1. rows \in Read /\ rows.order = order[AnyKey]
      BY <1>1, AnyRows, RowsType
    <2>2. new \in Read /\ new.order = order[AnyKey]
      BY <2>1 DEF Read
    <2>3. Open(x, AnyAccount, AnyKey, p, new, Inserts)
      BY <1>5 DEF BeginTransition
    <2> HIDE DEF new
    <2> QED
      BY <1>1, <1>2, <2>2, <2>3, AnyRows, OpenStep
  <1>6. ASSUME NEW k \in Keys, BeginCancel(x, k)
        PROVE  IInv'
    <2> DEFINE a == order[k].account
               p == order[k].proposal
               new == [Rows(a, k, p) EXCEPT
                         !.account = [account[a] EXCEPT !.available = @ + account[a].frozen,
                                                        !.frozen = 0],
                         !.order.status = "CANCELLED"]
               inserts == [Inserts EXCEPT !.release = account[a].frozen > 0]
    <2>1. order[k] \in Order /\ a \in Accounts /\ p \in Proposals
      BY <1>1, <1>6 DEF BeginCancel, TypeOK, Order, NoOrder
    <2>2. account[a] \in Account /\ account[a].available + account[a].frozen \in Nat
      BY <1>1, <2>1 DEF TypeOK
    <2>3. [order[k] EXCEPT !.status = "CANCELLED"] \in Order
      BY <2>1 DEF Order
    <2>4. /\ new \in Read
          /\ new.order = [order[k] EXCEPT !.status = "CANCELLED"]
      <3> DEFINE acct == [account[a] EXCEPT !.available = @ + account[a].frozen,
                                            !.frozen = 0]
                 row == [order[k] EXCEPT !.status = "CANCELLED"]
                 rows == Rows(a, k, p)
      <3>1. acct \in Account
        BY <2>2
      <3>2. rows \in Read /\ rows.order = order[k]
        BY <1>1, <2>1, RowsType
      <3>3. row \in Order
        BY <2>3
      <3> HIDE DEF acct
      <3>4. new = [rows EXCEPT !.account = acct, !.order = row]
        BY <3>2 DEF acct
      <3> HIDE DEF new, rows, row
      <3>5. [rows EXCEPT !.account = acct, !.order = row] \in Read
        BY <3>1, <3>2, <3>3 DEF Read
      <3>6. [rows EXCEPT !.account = acct, !.order = row].order = row
        BY <3>2 DEF Read
      <3> QED
        BY <3>4, <3>5, <3>6 DEF row
    <2>5. inserts \in Insert /\ inserts.lots = 0
      <3> DEFINE frozen == account[a].frozen > 0
      <3>1. frozen \in BOOLEAN
        OBVIOUS
      <3>2. inserts = [event |-> 0, lots |-> 0, cost |-> 0, release |-> frozen]
        BY DEF Inserts
      <3> HIDE DEF frozen, inserts
      <3> QED
        BY <3>1, <3>2, ShapeAssumption DEF Insert
    <2>6. Open(x, a, k, p, new, inserts)
      BY <1>6 DEF BeginCancel
    <2>7. new.order # NoOrder /\ new.order.proposal = p /\ order[k] # NoOrder
      BY <2>1, <2>3, <2>4, NotAnOrder DEF Order
    <2>8. new \in Read
      BY <2>4
    <2> HIDE DEF new, inserts, a, p
    <2>9. /\ order[k] # NoOrder => new.order # NoOrder /\ new.order.proposal = order[k].proposal
          /\ order[k] = NoOrder /\ new.order # NoOrder => new.order.proposal = p
          /\ inserts.lots > 0 => Placed(k) /\ inserts.event > 0
      BY <2>5, <2>7 DEF p
    <2> QED
      BY <1>1, <2>1, <2>5, <2>6, <2>8, <2>9, OpenStep
  <1>7. ASSUME NEW a \in Accounts, BeginPause(x, a) \/ BeginResume(x, a)
        PROVE  IInv'
    <2>1. PICK status \in AccountStatus : BeginStatus(x, a, status)
      BY <1>7 DEF BeginPause, BeginResume
    <2> DEFINE rows == Rows(a, AnyKey, AnyProposal)
               new == [rows EXCEPT !.account.status = status]
    <2>2. rows \in Read /\ rows.order = order[AnyKey]
      BY <1>1, AnyRows, RowsType
    <2>3. new \in Read /\ new.order = order[AnyKey]
      BY <2>2 DEF Read
    <2>4. Open(x, a, AnyKey, AnyProposal, new, Inserts)
      BY <2>1 DEF BeginStatus
    <2> HIDE DEF new
    <2> QED
      BY <1>1, <1>2, <2>3, <2>4, AnyRows, OpenStep
  <1> QED
    BY <1>3, <1>4, <1>5, <1>6, <1>7 DEF BeginRequest

\* What a block writes into the order, and what it inserts.
LEMMA BlockedType ==
    ASSUME TypeOK, NEW k \in Keys, Executable(k), Quote(k) # NoSnapshot,
           NEW status \in ActiveOrderStatuses \cup ClosedStatuses,
           NEW remaining \in 1..order[k].remaining
    PROVE  /\ Blocked(k, status, remaining) \in Read
           /\ Blocked(k, status, remaining).order \in Order
           /\ Blocked(k, status, remaining).order.proposal = order[k].proposal
           /\ Declared(k) \in Insert
           /\ Declared(k).lots = 0
  <1> DEFINE row == [order[k] EXCEPT !.status = status, !.remaining = remaining]
             rows == OrderRows(k)
  <1>1. order[k] \in Order /\ order[k].account \in Accounts /\ order[k].proposal \in Proposals
        /\ order[k].remaining \in Nat
    BY ExecutableOrder
  <1>2. row \in Order /\ row.proposal = order[k].proposal
    <2>1. remaining \in Nat
      BY <1>1
    <2> QED
      BY <1>1, <2>1 DEF Order
  <1>3. rows \in Read /\ rows.order = order[k]
    BY <1>1, RowsType DEF OrderRows
  <1>4. Blocked(k, status, remaining) = [rows EXCEPT !.order = row]
    BY <1>3 DEF Blocked
  <1> HIDE DEF rows, row
  <1>5. [rows EXCEPT !.order = row] \in Read /\ [rows EXCEPT !.order = row].order = row
    BY <1>2, <1>3 DEF Read
  <1>6. Quote(k).id \in 1..MaxEvents
    BY QuoteType DEF Snapshot
  <1>7. Declared(k) \in Insert /\ Declared(k).lots = 0
    <2>1. CASE Quote(k).id \in decided[k]
      <3>1. Declared(k) = Inserts
        BY <2>1 DEF Declared
      <3> QED
        BY <3>1, InsertsType
    <2>2. CASE Quote(k).id \notin decided[k]
      <3>1. Declared(k) = [Inserts EXCEPT !.event = Quote(k).id]
        BY <2>2 DEF Declared
      <3>2. Quote(k).id \in 0..MaxEvents
        BY <1>6, ShapeAssumption
      <3> QED
        BY <3>1, <3>2, InsertsType DEF Insert
    <2> QED
      BY <2>1, <2>2
  <1> QED
    BY <1>2, <1>4, <1>5, <1>7

\* A monitor's session that blocks an order keeps the invariant.
LEMMA BlockStep ==
    ASSUME IInv, NEW m \in Monitors, NEW k \in Keys, Executable(k), Quote(k) # NoSnapshot,
           NEW new \in Read, new.order \in Order,
           new.order.proposal = order[k].proposal,
           Process(m, k, new, Declared(k))
    PROVE  IInv'
  <1>1. TypeOK /\ m \in Actors
    BY DEF IInv, Actors
  <1>2. /\ order[k] # NoOrder
        /\ order[k].account \in Accounts
        /\ order[k].proposal \in Proposals
        /\ order[k].remaining \in 1..order[k].remaining
    BY <1>1, ExecutableOrder DEF Placed
  <1>3. Declared(k) \in Insert /\ Declared(k).lots = 0
    BY <1>1, <1>2, BlockedType
  <1>4. ~(Declared(k).lots > 0)
    BY <1>3
  <1>5. new.order # NoOrder
    BY NotAnOrder
  <1>6. Open(m, order[k].account, k, order[k].proposal, new, Declared(k))
    BY DEF Process
  <1> QED
    BY <1>1, <1>2, <1>3, <1>4, <1>5, <1>6, OpenStep

\* So does a monitor that has decided on an event (_process_order_tx).
LEMMA MonitorStep ==
    ASSUME IInv, NEW m \in Monitors, NEW k \in Keys, BeginProcess(m, k)
    PROVE  IInv'
  <1>1. TypeOK /\ m \in Actors
    BY DEF IInv, Actors
  <1>2. ASSUME Executable(k), Quote(k) # NoSnapshot,
               NEW status \in ActiveOrderStatuses \cup ClosedStatuses,
               NEW remaining \in 1..order[k].remaining,
               Process(m, k, Blocked(k, status, remaining), Declared(k))
        PROVE  IInv'
    BY <1>1, <1>2, BlockedType, BlockStep
  <1>3. CASE BeginInactive(m, k)
    <2>1. Executable(k) /\ Quote(k) # NoSnapshot
      BY <1>3 DEF BeginInactive
    <2>2. order[k].remaining \in 1..order[k].remaining
      BY <1>1, <2>1, ExecutableOrder
    <2> QED
      BY <1>2, <1>3, <2>1, <2>2 DEF BeginInactive
  <1>4. CASE BeginSuspended(m, k)
    <2>1. Executable(k) /\ Quote(k) # NoSnapshot
      BY <1>4 DEF BeginSuspended, Decidable
    <2>2. order[k].remaining \in 1..order[k].remaining
      BY <1>1, <2>1, ExecutableOrder
    <2> QED
      BY <1>2, <1>4, <2>1, <2>2 DEF BeginSuspended
  <1>5. ASSUME NEW off \in BOOLEAN, BeginRisk(m, k, off)
        PROVE  IInv'
    <2> DEFINE blocked == Blocked(k, "BLOCKED_RISK", order[k].remaining)
               new == IF off THEN [blocked EXCEPT !.account.status = "RISK_OFF"]
                             ELSE blocked
    <2>1. Executable(k) /\ Quote(k) # NoSnapshot
      BY <1>5 DEF BeginRisk, Decidable
    <2>2. order[k].remaining \in 1..order[k].remaining
      BY <1>1, <2>1, ExecutableOrder
    <2>3. /\ blocked \in Read
          /\ blocked.order \in Order
          /\ blocked.order.proposal = order[k].proposal
      BY <1>1, <2>1, <2>2, BlockedType
    <2>4. Process(m, k, new, Declared(k))
      BY <1>5 DEF BeginRisk
    <2> HIDE DEF blocked
    <2>5. /\ [blocked EXCEPT !.account.status = "RISK_OFF"] \in Read
          /\ [blocked EXCEPT !.account.status = "RISK_OFF"].order = blocked.order
      BY <2>3 DEF Read
    <2>6. new \in Read /\ new.order = blocked.order
      BY <2>3, <2>5
    <2> HIDE DEF new
    <2> QED
      BY <2>1, <2>3, <2>4, <2>6, BlockStep
  <1>6. ASSUME NEW open \in 1..order[k].remaining, BeginUnmatched(m, k, open)
        PROVE  IInv'
    <2>1. Executable(k) /\ Quote(k) # NoSnapshot
      BY <1>6 DEF BeginUnmatched, Decidable
    <2> QED
      BY <1>2, <1>6, <2>1, BlockedStatusType DEF BeginUnmatched
  <1>7. ASSUME NEW open \in 1..order[k].remaining, BeginFill(m, k, open)
        PROVE  IInv'
    <2> DEFINE a == order[k].account
               p == order[k].proposal
               lots == MatchedLots(k, open)
               cost == Cost(Quote(k).price, lots)
               acct == PaidFromFrozen(account[a], cost, lots = open)
               row == Filled(order[k], open, lots)
               rows == OrderRows(k)
               shares == Bought(rows.held, open, lots)
               new == [rows EXCEPT !.account = acct, !.order = row, !.held = shares]
               inserts == [Declared(k) EXCEPT !.lots = lots, !.cost = cost]
    <2>1. /\ Executable(k) /\ Quote(k) # NoSnapshot
          /\ Quote(k).id \notin decided[k] /\ Matches(k, open)
      BY <1>7 DEF BeginFill, Decidable
    <2>2. order[k] \in Order /\ order[k] # NoOrder /\ a \in Accounts /\ p \in Proposals
          /\ order[k].remaining \in Nat
      BY <1>1, <2>1, ExecutableOrder DEF Placed
    <2>3. Quote(k) \in Snapshot
      BY <1>1, <2>1, QuoteType
    <2>4. lots \in Nat \ {0} /\ lots <= open
      BY <1>1, <2>1, <2>3, MatchedLotsBound
    <2>5. cost \in Nat
      <3>1. Quote(k).price \in Nat /\ Commission \in Nat
        BY <2>3, MoneyAssumption DEF Snapshot
      <3> QED
        BY <3>1, <2>4 DEF Cost
    <2>6. rows \in Read /\ rows.order = order[k] /\ rows.account = account[a]
      BY <1>1, <2>2, RowsType DEF OrderRows
    <2>7. Process(m, k, new, inserts)
      BY <1>7, <2>6 DEF BeginFill
    <2> HIDE DEF lots, cost
    <2>8. acct \in Account
      BY <1>1, <2>2, <2>5, PaidType DEF TypeOK
    <2>9. row \in Order /\ row.proposal = p
      <3>1. open - lots \in Nat
        BY <2>2, <2>4
      <3> QED
        BY <2>2, <3>1 DEF Filled, Order
    <2>10. shares \in Nat
      <3>1. rows.held \in Nat
        BY <2>6 DEF Read
      <3> QED
        BY <2>4, <3>1 DEF Bought
    <2>11. /\ inserts \in Insert
           /\ inserts.event > 0
      <3>1. Quote(k).id \in 1..MaxEvents
        BY <2>3 DEF Snapshot
      <3>2. Declared(k) = [Inserts EXCEPT !.event = Quote(k).id]
        BY <2>1 DEF Declared
      <3>3. Declared(k) \in Insert
        BY <3>1, <3>2, InsertsType, ShapeAssumption DEF Insert
      <3>4. Declared(k).event = Quote(k).id
        BY <3>2, InsertsType DEF Insert
      <3> DEFINE declared == Declared(k)
      <3> HIDE DEF declared
      <3>5. /\ [declared EXCEPT !.lots = lots, !.cost = cost] \in Insert
            /\ [declared EXCEPT !.lots = lots, !.cost = cost].event = declared.event
        BY <2>4, <2>5, <3>3 DEF Insert, declared
      <3>6. inserts \in Insert /\ inserts.event = Quote(k).id
        BY <3>4, <3>5 DEF declared
      <3> QED
        BY <3>1, <3>6
    <2> HIDE DEF acct, row, rows, shares
    <2>12. new \in Read /\ new.order = row
      BY <2>6, <2>8, <2>9, <2>10 DEF Read
    <2> HIDE DEF new, inserts
    <2>13. /\ order[k] # NoOrder => new.order # NoOrder /\ new.order.proposal = p
           /\ Placed(k)
      BY <2>2, <2>9, <2>12, NotAnOrder DEF Placed
    <2>14. Open(m, a, k, p, new, inserts)
      BY <2>7 DEF Process
    <2> QED
      BY <1>1, <2>2, <2>11, <2>12, <2>13, <2>14, OpenStep
  <1> QED
    BY <1>3, <1>4, <1>5, <1>6, <1>7 DEF BeginProcess

----------------------------------------------------------------------------
(* Sessions that end.                                                       *)

\* What is known of the sessions that stay open does not change when another
\* one ends, as orders stay.
LEMMA CloseStep ==
    ASSUME OpenSound, NEW x \in Actors,
           session' = [session EXCEPT ![x] = Closed],
           \A k \in Keys : Placed(k) => Placed(k)'
    PROVE  OpenSound'
  <1>1. session' \in [Actors -> {Closed} \cup OpenSession]
    BY DEF OpenSound
  <1>2. ASSUME NEW y \in Actors, session'[y].open PROVE Sound(session[y])'
    <2>1. CASE y = x
      BY <2>1, <1>2 DEF OpenSound, Closed
    <2>2. CASE y # x
      <3> DEFINE s == session[y]
      <3>1. session'[y] = s
        BY <2>2 DEF OpenSound
      <3>2. s \in OpenSession /\ Sound(s)
        BY <3>1, <1>2 DEF OpenSound, Closed
      <3>3. s.order \in Keys
        BY <3>2 DEF OpenSession
      <3> HIDE DEF s
      <3> QED
        BY <3>1, <3>2, <3>3 DEF Sound
    <2> QED
      BY <2>1, <2>2
  <1> QED
    BY <1>1, <1>2 DEF OpenSound

\* A session that rolls back leaves the rows as they are.
LEMMA RollBackStep ==
    ASSUME IInv, NEW x \in Actors, RollBack(x)
    PROVE  IInv'
  <1>1. /\ session' = [session EXCEPT ![x] = Closed]
        /\ UNCHANGED <<clock, account, ledger, proposal, order, decided, fills,
                       holding, feed>>
    BY DEF RollBack, Done
  <1>2. batch' \in [Monitors -> SUBSET Keys]
    BY DEF IInv, TypeOK, RollBack, Done
  <1>3. TypeOK' /\ UniqueOrders' /\ OneFillPerEvent'
    BY <1>1, <1>2 DEF IInv, TypeOK, UniqueOrders, OneFillPerEvent, Placed
  <1>4. \A k \in Keys : Placed(k) => Placed(k)'
    BY <1>1 DEF Placed
  <1> QED
    BY <1>1, <1>3, <1>4, CloseStep DEF IInv

\* The order row a commit writes: a new row where there was none, and then the
\* only one of its proposal, or columns of the row that is there.
LEMMA WrittenOrder ==
    ASSUME IInv, NEW x \in Actors, Commit(x)
    PROVE  LET s == session[x]
               now == order[s.order]
           IN \E row \in Order \cup {NoOrder} :
                /\ order' = [order EXCEPT ![s.order] = row]
                /\ now # NoOrder => row # NoOrder /\ row.proposal = now.proposal
                /\ now = NoOrder /\ row # NoOrder =>
                     \A j \in Keys : Placed(j) => order[j].proposal # row.proposal
  <1> DEFINE s == session[x]
             now == order[s.order]
             read == s.read.order
             new == s.new.order
             row == IF Inserted(x) \/ new = read THEN Replaced(now, read, new)
                                                 ELSE Updated(now, read, new)
  <1>1. s \in OpenSession /\ Sound(s)
    BY DEF IInv, OpenSound, Commit, Closed
  <1>2. s.order \in Keys /\ read \in Order \cup {NoOrder} /\ new \in Order \cup {NoOrder}
    BY <1>1 DEF OpenSession, Read
  <1>3. now \in Order \cup {NoOrder}
    BY <1>2 DEF IInv, TypeOK
  <1>4. order' = [order EXCEPT ![s.order] = row]
    BY DEF Commit
  <1>5. CASE new = read
    <2>1. row = now
      BY <1>5 DEF Replaced
    <2> QED
      BY <1>3, <1>4, <2>1
  <1>6. CASE new # read /\ Inserted(x)
    <2>1. read = NoOrder /\ new # NoOrder /\ row = new
      BY <1>6 DEF Inserted, Replaced
    <2>2. now = NoOrder /\ new.proposal = s.proposal
      BY <1>1, <1>6, <2>1 DEF Commit, Refused, KeyTaken, Placed, Sound
    <2>3. \A j \in Keys : Placed(j) => order[j].proposal # s.proposal
      BY <1>6 DEF Commit, Refused, ProposalTaken
    <2> HIDE DEF row, new
    <2> QED
      BY <1>2, <1>4, <2>1, <2>2, <2>3
  <1>7. CASE new # read /\ ~Inserted(x)
    <2>1. read # NoOrder
      BY <1>7 DEF Inserted
    <2>2. new # NoOrder /\ new.proposal = read.proposal /\ now # NoOrder
      BY <1>1, <2>1 DEF Sound, Placed
    <2>3. new \in Order /\ read \in Order /\ now \in Order
      BY <1>2, <1>3, <2>1, <2>2
    <2>4. row = Updated(now, read, new)
      BY <1>7
    <2> HIDE DEF row, now, read, new
    <2>5. Updated(now, read, new) \in Order
      BY <2>3 DEF Updated, Order
    <2>6. Updated(now, read, new).proposal = now.proposal
      BY <2>2, <2>3 DEF Updated, Order
    <2>7. row \in Order /\ row # NoOrder
      BY <2>4, <2>5, NotAnOrder
    <2> QED
      BY <1>4, <2>2, <2>4, <2>6, <2>7 DEF now
  <1> QED
    BY <1>5, <1>6, <1>7

\* A commit writes values of the columns, whatever it overwrites.
LEMMA CommitType ==
    ASSUME IInv, NEW x \in Actors, Commit(x)
    PROVE  TypeOK'
  <1> DEFINE s == session[x]
  <1>1. s \in OpenSession /\ Sound(s) /\ TypeOK
    BY DEF IInv, OpenSound, Commit, Closed
  <1>2. /\ s.account \in Accounts /\ s.order \in Keys /\ s.proposal \in Proposals
        /\ s.read \in Read /\ s.new \in Read /\ s.inserts \in Insert
        /\ SymbolOf[s.proposal] \in Symbols
    BY <1>1, ShapeAssumption DEF OpenSession
  <1>3. account' \in [Accounts -> Account]
    <2>1. /\ account[s.account] \in Account
          /\ s.read.account \in Account
          /\ s.new.account \in Account
      BY <1>1, <1>2 DEF TypeOK, Read
    <2>2. Updated(account[s.account], s.read.account, s.new.account) \in Account
      BY <2>1 DEF Updated
    <2>3. account' = [account EXCEPT ![s.account] =
                        Updated(@, s.read.account, s.new.account)]
      BY DEF Commit
    <2> QED
      BY <1>1, <2>2, <2>3 DEF TypeOK
  <1>4. order' \in [Keys -> Order \cup {NoOrder}]
    BY <1>1, WrittenOrder DEF TypeOK
  <1>5. proposal' \in [Proposals -> ProposalStatus]
    <2>1. s.new.proposal \in ProposalStatus /\ s.read.proposal \in ProposalStatus
      BY <1>2 DEF Read
    <2>2. proposal' = [proposal EXCEPT ![s.proposal] =
                         Replaced(@, s.read.proposal, s.new.proposal)]
      BY DEF Commit
    <2> QED
      BY <1>1, <2>1, <2>2 DEF TypeOK, Replaced
  <1>6. holding' \in [Accounts -> [Symbols -> Nat]]
    <2> DEFINE sym == SymbolOf[s.proposal]
               shares == Replaced(holding[s.account][sym], s.read.held, s.new.held)
    <2>1. holding[s.account][sym] \in Nat /\ s.new.held \in Nat
      BY <1>1, <1>2 DEF TypeOK, Read
    <2>2. shares \in Nat
      BY <2>1 DEF Replaced
    <2>3. holding' = [holding EXCEPT ![s.account][sym] = shares]
      BY DEF Commit
    <2> HIDE DEF shares
    <2> QED
      BY <1>1, <1>2, <2>2, <2>3 DEF TypeOK
  <1>7. ledger' \in [Accounts -> Int]
    <2>1. s.inserts.cost \in Nat
      BY <1>2 DEF Insert
    <2> QED
      BY <1>1, <1>2, <2>1 DEF TypeOK, Commit
  <1>8. decided' \in [Keys -> SUBSET (1..MaxEvents)]
    <2>1. s.inserts.event \in 0..MaxEvents
      BY <1>2 DEF Insert
    <2>2. decided' = [decided EXCEPT ![s.order] =
            IF s.inserts.event = 0 THEN @ ELSE @ \cup {s.inserts.event}]
      BY DEF Commit
    <2> QED
      BY <1>1, <1>2, <2>1, <2>2, ShapeAssumption DEF TypeOK
  <1>9. fills' \subseteq [key : Keys, event : 1..MaxEvents, lots : Nat \ {0}]
    <2> DEFINE row == [key |-> s.order, event |-> s.inserts.event, lots |-> s.inserts.lots]
    <2>1. s.inserts.lots \in Nat /\ s.inserts.event \in 0..MaxEvents
      BY <1>2 DEF Insert
    <2>2. s.inserts.lots > 0 => s.inserts.event > 0
      BY <1>1 DEF Sound
    <2>3. fills' = IF s.inserts.lots = 0 THEN fills ELSE fills \cup {row}
      BY DEF Commit
    <2>4. s.inserts.lots # 0 => row \in [key : Keys, event : 1..MaxEvents, lots : Nat \ {0}]
      BY <1>2, <2>1, <2>2, ShapeAssumption
    <2> QED
      BY <1>1, <2>3, <2>4 DEF TypeOK
  <1>10. batch' \in [Monitors -> SUBSET Keys]
    BY <1>1 DEF TypeOK, Commit, Done
  <1>11. UNCHANGED <<clock, feed>>
    BY DEF Commit
  <1> QED
    BY <1>1, <1>3, <1>4, <1>5, <1>6, <1>7, <1>8, <1>9, <1>10, <1>11 DEF TypeOK

\* A commit that no constraint refuses keeps the invariant.
LEMMA CommitStep ==
    ASSUME IInv, NEW x \in Actors, Commit(x)
    PROVE  IInv'
  <1> DEFINE s == session[x]
  <1>1. s \in OpenSession /\ Sound(s) /\ TypeOK
    BY DEF IInv, OpenSound, Commit, Closed
  <1>2. PICK row \in Order \cup {NoOrder} :
          /\ order' = [order EXCEPT ![s.order] = row]
          /\ order[s.order] # NoOrder =>
               row # NoOrder /\ row.proposal = order[s.order].proposal
          /\ order[s.order] = NoOrder /\ row # NoOrder =>
               \A j \in Keys : Placed(j) => order[j].proposal # row.proposal
    BY WrittenOrder
  <1>3. s.order \in Keys /\ s.inserts \in Insert
    BY <1>1 DEF OpenSession
  <1>4. \A k \in Keys : Placed(k) => Placed(k)'
    BY <1>1, <1>2 DEF TypeOK, Placed
  <1>5. UniqueOrders'
    <2> SUFFICES ASSUME NEW j \in Keys, NEW k \in Keys, Placed(j)', Placed(k)',
                        order'[j].proposal = order'[k].proposal
                 PROVE  j = k
      BY DEF UniqueOrders
    <2>1. \A i \in Keys : i # s.order => order'[i] = order[i]
      BY <1>1, <1>2 DEF TypeOK
    <2>2. order'[s.order] = row
      BY <1>1, <1>2, <1>3 DEF TypeOK
    <2>3. UniqueOrders
      BY DEF IInv
    <2> HIDE DEF s
    <2> QED
      BY <1>2, <1>3, <2>1, <2>2, <2>3 DEF UniqueOrders, Placed
  <1>6. OneFillPerEvent'
    <2> DEFINE event == s.inserts.event
               new == [key |-> s.order, event |-> event, lots |-> s.inserts.lots]
    <2>1. OneFillPerEvent
      BY DEF IInv
    <2>2. /\ fills' = IF s.inserts.lots = 0 THEN fills ELSE fills \cup {new}
          /\ decided' = [decided EXCEPT ![s.order] =
               IF event = 0 THEN @ ELSE @ \cup {event}]
      BY DEF Commit
    <2>3. \A k \in Keys : decided[k] \subseteq decided'[k]
      BY <1>1, <2>2 DEF TypeOK
    <2>4. \A f \in fills : f.key \in Keys
      BY <1>1 DEF TypeOK
    <2>5. CASE s.inserts.lots = 0
      BY <1>4, <2>1, <2>2, <2>3, <2>4, <2>5 DEF OneFillPerEvent
    <2>6. CASE s.inserts.lots # 0
      <3>1. s.inserts.lots > 0
        BY <1>3, <2>6 DEF Insert
      <3>2. Placed(s.order) /\ event > 0
        BY <1>1, <3>1 DEF Sound
      <3>3. event # 0
        BY <1>3, <3>2 DEF Insert
      <3>4. event \notin decided[s.order] /\ event \in decided'[s.order]
        BY <1>1, <1>3, <2>2, <3>3 DEF Commit, Refused, EventTaken, TypeOK
      <3> PICK key \in Keys : key = s.order
        BY <1>3
      <3>5. /\ Placed(key)' /\ new.key = key /\ new.event = event
            /\ event \notin decided[key] /\ event \in decided'[key]
        BY <1>4, <3>2, <3>4
      <3>6. fills' = fills \cup {new}
        BY <2>2, <2>6
      <3> HIDE DEF new, event, s
      <3>7. \A f \in fills : ~(f.key = new.key /\ f.event = new.event)
        BY <2>1, <3>5 DEF OneFillPerEvent
      <3>8. \A f, g \in fills' : f.key = g.key /\ f.event = g.event => f = g
        BY <2>1, <3>6, <3>7 DEF OneFillPerEvent
      <3>9. \A f \in fills' : Placed(f.key)' /\ f.event \in decided'[f.key]
        BY <1>4, <2>1, <2>3, <2>4, <3>5, <3>6 DEF OneFillPerEvent
      <3> QED
        BY <3>8, <3>9 DEF OneFillPerEvent
    <2> QED
      BY <2>5, <2>6
  <1>7. session' = [session EXCEPT ![x] = Closed]
    BY DEF Commit, Done
  <1>8. OpenSound'
    BY <1>4, <1>7, CloseStep DEF IInv
  <1> QED
    BY <1>5, <1>6, <1>8, CommitType DEF IInv

----------------------------------------------------------------------------
(* The theorem.                                                             *)

\* Nothing is placed, filled or open at first.
LEMMA SessionsInitially == SessionsInit => IInv
  <1> SUFFICES ASSUME SessionsInit PROVE IInv
    OBVIOUS
  <1>1. TypeOK
    BY InitType DEF SessionsInit
  <1>2. UniqueOrders /\ OneFillPerEvent
    BY DEF SessionsInit, Init, UniqueOrders, OneFillPerEvent, Placed
  <1>3. OpenSound
    BY DEF SessionsInit, OpenSound, Closed
  <1> QED
    BY <1>1, <1>2, <1>3 DEF IInv

\* Claims, snapshots and the clock leave orders and fills alone.
LEMMA SingleStep == IInv /\ Single => IInv'
  <1> SUFFICES ASSUME IInv, Single PROVE IInv'
    OBVIOUS
  <1>1. TypeOK'
    BY MarketType, MonitorType DEF IInv, Single, Monitoring
  <1>2. UNCHANGED <<order, decided, fills, session>>
    BY DEF Single, Market, Tick, SaveSnapshot, Claim, Restart, ProcessNothing, books
  <1>3. UniqueOrders' /\ OneFillPerEvent' /\ OpenSound'
    BY <1>2 DEF IInv, UniqueOrders, OneFillPerEvent, OpenSound, Sound, Placed
  <1> QED
    BY <1>1, <1>3 DEF IInv

\* Every step keeps the invariant.
LEMMA SessionsStep == IInv /\ [SessionsNext]_sessionVars => IInv'
  <1> SUFFICES ASSUME IInv, [SessionsNext]_sessionVars PROVE IInv'
    OBVIOUS
  <1>1. CASE Single
    BY <1>1, SingleStep
  <1>2. CASE \E x \in Requests : BeginRequest(x)
    BY <1>2, RequestStep
  <1>3. CASE \E m \in Monitors, k \in Keys : k \in batch[m] /\ BeginProcess(m, k)
    BY <1>3, MonitorStep
  <1>4. CASE \E x \in Actors : Commit(x) \/ RollBack(x)
    BY <1>4, CommitStep, RollBackStep
  <1>5. CASE UNCHANGED sessionVars
    <2>1. UNCHANGED <<clock, account, ledger, proposal, order, decided, fills,
                      holding, feed, batch, session>>
      BY <1>5 DEF sessionVars, vars
    <2> QED
      BY <2>1 DEF IInv, TypeOK, UniqueOrders, OneFillPerEvent, OpenSound, Sound, Placed
  <1> QED
    BY <1>1, <1>2, <1>3, <1>4, <1>5 DEF SessionsNext

\* However many transactions overlap, and however stale what they write: one
\* order per proposal, one fill per order and event, no negative balance.
THEOREM OverlapKeepsConstraints == SessionsSpec => []ConstraintsHold
  <1>1. IInv => ConstraintsHold
    BY DEF IInv, UniqueOrders, ConstraintsHold
  <1> QED
    BY <1>1, SessionsInitially, SessionsStep, PTL DEF SessionsSpec

----------------------------------------------------------------------------
(* Transactions that overlap without a stale write: what single             *)
(* transactions keep holds as well.                                        *)

\* A session adds an order, changes the one it has read, closes it.
Adds(s) == s.read.order = NoOrder /\ s.new.order # NoOrder
Rewrites(s) == s.read.order # NoOrder /\ s.new.order # s.read.order
Closes(s) == Rewrites(s) /\ s.new.order.status \in {"FILLED", "CANCELLED"}

\* What a session makes of the rows it has read is what the handlers and the
\* monitor make of them, whatever has become of the rows.
HonestProposal(s) ==
    /\ s.new.proposal # s.read.proposal => s.read.proposal # "ACCEPTED"
    /\ s.new.proposal # s.read.proposal /\ s.new.proposal = "ACCEPTED" => Adds(s)
    /\ Adds(s) => s.read.proposal # "ACCEPTED" /\ s.new.proposal = "ACCEPTED"
HonestOrder(s) ==
    /\ Adds(s) => /\ s.new.order.account = s.account
                  /\ s.new.order.status = "PAPER_PENDING"
    /\ Rewrites(s) =>
         /\ s.read.order.status \notin ClosedStatuses
         /\ s.read.order.account = s.account /\ s.new.order.account = s.account
         /\ s.read.order.proposal = s.proposal
HonestHolding(s) ==
    IF s.inserts.lots = 0 THEN s.new.held = s.read.held /\ s.inserts.cost = 0
    ELSE Rewrites(s) /\ s.new.held = s.read.held + s.inserts.lots
HonestCash(s) ==
    /\ s.new.account.available + s.new.account.frozen + s.inserts.cost
         >= s.read.account.available + s.read.account.frozen
    /\ s.new.account.frozen > s.read.account.frozen => Adds(s)
    /\ Closes(s) => s.new.account.frozen = 0
Honest(s) == HonestProposal(s) /\ HonestOrder(s) /\ HonestHolding(s) /\ HonestCash(s)

\* A session that closes its order without touching the account, as nothing was
\* frozen when it looked.
Blind(s) == Closes(s) /\ s.read.account.frozen = 0

\* Frozen cash has an owner that no open session closes blindly.
OwnerStays ==
    \A a \in Accounts : account[a].frozen > 0 =>
      \E k \in OnAccount(a) :
        /\ order[k].status \notin {"FILLED", "CANCELLED"}
        /\ \A x \in Actors :
             session[x].open /\ session[x].order = k => ~Blind(session[x])

\* Both hold of a book in which nothing stale was written.
BookWhole == /\ OneOrderPerProposal /\ HoldingIsFills /\ LedgerNeverAhead
             /\ OwnerStays

HonestSessions ==
    /\ IsFiniteSet(fills)
    /\ \A x \in Actors : session[x].open => Honest(session[x])
    /\ ~stale => BookWhole

\* What a session holds when it opens.
Opened(a, k, p, new, inserts) ==
    [open |-> TRUE, account |-> a, order |-> k, proposal |-> p,
     read |-> Rows(a, k, p), new |-> new, inserts |-> inserts]

\* The sums of fills and the book follow from the rows.
LEMMA RowsDecide ==
    ASSUME UNCHANGED <<account, ledger, proposal, order, fills, holding>>
    PROVE  /\ OneOrderPerProposal => OneOrderPerProposal'
           /\ HoldingIsFills => HoldingIsFills'
           /\ LedgerNeverAhead => LedgerNeverAhead'
  <1>1. OneOrderPerProposal => OneOrderPerProposal'
    BY DEF OneOrderPerProposal, Placed
  <1>2. LedgerNeverAhead => LedgerNeverAhead'
    BY DEF LedgerNeverAhead, Cash
  <1>3. HoldingIsFills => HoldingIsFills'
    <2>1. \A a \in Accounts, s \in Symbols : FillsOf(a, s)' = FillsOf(a, s)
      BY DEF FillsOf, OnAccount, Placed
    <2>2. \A a \in Accounts, s \in Symbols :
            LotsFilled(FillsOf(a, s)') = LotsFilled(FillsOf(a, s))
      BY <2>1
    <2> QED BY <2>2 DEF HoldingIsFills, FillsOf
  <1> QED BY <1>1, <1>2, <1>3

\* A session that opens honestly leaves the book whole: when it closes an order
\* that has cash frozen for it, it has seen that cash.
LEMMA OpenHonest ==
    ASSUME IInv, HonestSessions, NEW x \in Actors, NEW a \in Accounts,
           NEW k \in Keys, NEW p \in Proposals, NEW new \in Read,
           NEW inserts \in Insert, Open(x, a, k, p, new, inserts),
           Honest(Opened(a, k, p, new, inserts))
    PROVE  HonestSessions'
  <1> DEFINE s == Opened(a, k, p, new, inserts)
  <1>1. /\ session' = [session EXCEPT ![x] = s]
        /\ UNCHANGED <<account, ledger, proposal, order, fills, holding, stale>>
    BY DEF Open, vars, Opened
  <1>2. session \in [Actors -> {Closed} \cup OpenSession]
    BY DEF IInv, OpenSound
  <1>3. /\ s.open /\ s.account = a /\ s.order = k /\ s.read.order = order[k]
        /\ s.read.account = account[a] /\ Honest(s)
    BY RowsType DEF IInv, Opened
  <1> HIDE DEF s
  <1>4. \A y \in Actors : session'[y] = IF y = x THEN s ELSE session[y]
    BY <1>1, <1>2
  <1>5. \A y \in Actors : session'[y].open => Honest(session'[y])
    BY <1>3, <1>4 DEF HonestSessions
  <1>6. OwnerStays => OwnerStays'
    <2> SUFFICES ASSUME OwnerStays, NEW b \in Accounts, account[b].frozen > 0
                 PROVE  \E j \in OnAccount(b) :
                          /\ order[j].status \notin {"FILLED", "CANCELLED"}
                          /\ \A y \in Actors : session'[y].open /\ session'[y].order = j
                                                 => ~Blind(session'[y])
      BY <1>1 DEF OwnerStays, OnAccount, Placed
    <2>1. PICK j \in OnAccount(b) :
            /\ order[j].status \notin {"FILLED", "CANCELLED"}
            /\ \A y \in Actors : session[y].open /\ session[y].order = j
                                   => ~Blind(session[y])
      BY DEF OwnerStays
    <2>2. k = j => ~Blind(s)
      <3> SUFFICES ASSUME k = j, Closes(s), s.read.account.frozen = 0 PROVE FALSE
        BY DEF Blind
      <3>1. order[j].account = a
        BY <1>3 DEF Closes, Honest, HonestOrder
      <3>2. a = b
        BY <2>1, <3>1 DEF OnAccount
      <3> QED BY <1>3, <3>2
    <2> QED BY <1>3, <1>4, <2>1, <2>2
  <1>7. ~stale' => BookWhole'
    BY <1>1, <1>6, RowsDecide DEF HonestSessions, BookWhole
  <1>8. IsFiniteSet(fills')
    BY <1>1 DEF HonestSessions
  <1> QED BY <1>5, <1>7, <1>8 DEF HonestSessions

\* A session that leaves the order, the position and the cash alone is honest
\* as long as it does not accept.
LEMMA PlainHonest ==
    ASSUME NEW s, s.read \in Read, s.new \in Read, s.new.order = s.read.order,
           s.new.held = s.read.held, s.inserts.lots = 0, s.inserts.cost = 0,
           s.new.account.available = s.read.account.available,
           s.new.account.frozen = s.read.account.frozen,
           s.new.proposal # s.read.proposal =>
             s.read.proposal # "ACCEPTED" /\ s.new.proposal # "ACCEPTED"
    PROVE  Honest(s)
  <1>1. ~Adds(s) /\ ~Rewrites(s) /\ ~Closes(s)
    BY DEF Adds, Rewrites, Closes
  <1>2. s.read.account \in Account
    BY DEF Read
  <1>3. HonestCash(s)
    BY <1>1, <1>2 DEF HonestCash
  <1> QED BY <1>1, <1>3 DEF Honest, HonestProposal, HonestOrder, HonestHolding

\* What a session has read, field by field.
LEMMA OpenedFields ==
    ASSUME TypeOK, NEW a \in Accounts, NEW k \in Keys, NEW p \in Proposals,
           NEW new, NEW inserts
    PROVE  LET s == Opened(a, k, p, new, inserts)
           IN  /\ s.account = a /\ s.order = k /\ s.proposal = p
               /\ s.new = new /\ s.inserts = inserts /\ s.read \in Read
               /\ s.read.account = account[a] /\ s.read.order = order[k]
               /\ s.read.proposal = proposal[p]
               /\ s.read.held = holding[a][SymbolOf[p]]
  BY RowsType DEF Opened, Rows

\* The handlers are honest.
LEMMA RequestHonest ==
    ASSUME IInv, HonestSessions, NEW x \in Requests, BeginRequest(x)
    PROVE  HonestSessions'
  <1>1. x \in Actors /\ TypeOK
    BY DEF Actors, IInv
  <1>2. Inserts \in Insert /\ Inserts.lots = 0 /\ Inserts.cost = 0
    BY InsertsType DEF Inserts
  <1>3. ASSUME NEW p \in Proposals, NEW k \in Keys, NEW a \in Accounts,
               BeginAccept(x, p, a, k)
        PROVE  HonestSessions'
    <2> DEFINE rows == Rows(a, k, p)
               acct == [account[a] EXCEPT !.available = @ - Freeze(p),
                                          !.frozen = @ + Freeze(p)]
               row == NewOrder(p, a)
               new == [rows EXCEPT !.account = acct, !.order = row,
                                   !.proposal = "ACCEPTED"]
               s == Opened(a, k, p, new, Inserts)
    <2>1. Freeze(p) \in Nat
      BY MoneyAssumption, ShapeAssumption DEF Freeze
    <2>2. /\ ~Placed(k) /\ LotsOf[p] >= 1 /\ account[a].available >= Freeze(p)
          /\ proposal[p] \in {"PROPOSED", "REVIEWED"}
      BY <1>3 DEF BeginAccept, MayAccept, Acceptable
    <2>3. account[a] \in Account
      BY <1>1 DEF TypeOK
    <2>4. /\ acct \in Account
          /\ acct.available + acct.frozen = account[a].available + account[a].frozen
      <3>1. /\ account[a].available - Freeze(p) \in Nat
            /\ account[a].frozen + Freeze(p) \in Nat
        BY <2>1, <2>2, <2>3
      <3>2. acct = [account[a] EXCEPT !.available = account[a].available - Freeze(p),
                                      !.frozen = account[a].frozen + Freeze(p)]
        OBVIOUS
      <3> HIDE DEF acct
      <3>3. /\ acct \in Account
            /\ acct.available = account[a].available - Freeze(p)
            /\ acct.frozen = account[a].frozen + Freeze(p)
        BY <2>3, <3>1, <3>2
      <3>4. account[a].available \in Nat /\ account[a].frozen \in Nat
        BY <2>3
      <3> QED BY <2>1, <3>3, <3>4
    <2>5. /\ row \in Order /\ row.account = a /\ row.status = "PAPER_PENDING"
          /\ row # NoOrder
      BY <1>1, <2>2, NewOrderType, NotAnOrder DEF NewOrder
    <2>6. rows \in Read
      BY <1>1, RowsType
    <2>7. Open(x, a, k, p, new, Inserts)
      BY <1>3 DEF BeginAccept
    <2> HIDE DEF acct, row, rows
    <2>8. /\ new \in Read /\ new.account = acct /\ new.order = row
          /\ new.proposal = "ACCEPTED" /\ new.held = rows.held
      BY <2>4, <2>5, <2>6 DEF Read
    <2> HIDE DEF new
    <2>9. /\ s.account = a /\ s.new = new /\ s.inserts = Inserts
          /\ s.read.account = account[a] /\ s.read.order = order[k]
          /\ s.read.proposal = proposal[p] /\ s.read = rows
      BY <1>1, OpenedFields DEF Opened, rows
    <2> HIDE DEF s
    <2>10. Adds(s) /\ ~Rewrites(s) /\ ~Closes(s)
      BY <2>2, <2>5, <2>8, <2>9 DEF Adds, Rewrites, Closes, Placed
    <2>11. HonestProposal(s) /\ HonestOrder(s)
      BY <2>2, <2>5, <2>8, <2>9, <2>10 DEF HonestProposal, HonestOrder
    <2>12. HonestHolding(s)
      BY <1>2, <2>8, <2>9 DEF HonestHolding
    <2>13. HonestCash(s)
      BY <1>2, <2>3, <2>4, <2>8, <2>9, <2>10 DEF HonestCash
    <2>14. Honest(s)
      BY <2>11, <2>12, <2>13 DEF Honest
    <2> QED
      BY <1>1, <1>2, <2>7, <2>8, <2>14, OpenHonest DEF s
  <1>4. ASSUME NEW p \in Proposals, NEW to \in ProposalStatus, NEW k \in Keys,
               Open(x, AnyAccount, k, p,
                    [Rows(AnyAccount, k, p) EXCEPT !.proposal = to], Inserts),
               proposal[p] # "ACCEPTED", to # "ACCEPTED"
        PROVE  HonestSessions'
    <2> DEFINE rows == Rows(AnyAccount, k, p)
               new == [rows EXCEPT !.proposal = to]
               s == Opened(AnyAccount, k, p, new, Inserts)
    <2>1. AnyAccount \in Accounts
      BY AnyRows
    <2>2. rows \in Read
      BY <1>1, <2>1, RowsType
    <2>3. Open(x, AnyAccount, k, p, new, Inserts)
      BY <1>4
    <2> HIDE DEF rows
    <2>4. /\ new \in Read /\ new.account = rows.account /\ new.order = rows.order
          /\ new.proposal = to /\ new.held = rows.held
      BY <2>2 DEF Read
    <2> HIDE DEF new
    <2>5. /\ s.new = new /\ s.inserts = Inserts /\ s.read = rows
          /\ s.read.proposal = proposal[p]
      BY <1>1, <2>1, OpenedFields DEF Opened, rows
    <2> HIDE DEF s
    <2>6. Honest(s)
      BY <1>2, <1>4, <2>2, <2>4, <2>5, PlainHonest
    <2> QED
      BY <1>1, <1>2, <2>1, <2>3, <2>4, <2>6, OpenHonest DEF s
  <1>5. ASSUME NEW p \in Proposals, NEW k \in Keys, BeginExpire(x, p, k)
        PROVE  HonestSessions'
    <2>1. "EXPIRED" \in ProposalStatus /\ AnyKey \in Keys
      BY AnyRows
    <2> QED BY <1>4, <1>5, <2>1 DEF BeginExpire, Acceptable
  <1>6. ASSUME NEW p \in Proposals, NEW to \in ProposalStatus, BeginTransition(x, p, to)
        PROVE  HonestSessions'
    <2>1. AnyKey \in Keys
      BY AnyRows
    <2> QED BY <1>4, <1>6, <2>1 DEF BeginTransition, MayTransition
  <1>7. ASSUME NEW k \in Keys, BeginCancel(x, k)
        PROVE  HonestSessions'
    <2> DEFINE a == order[k].account
               p == order[k].proposal
               rows == Rows(a, k, p)
               acct == [account[a] EXCEPT !.available = @ + account[a].frozen,
                                          !.frozen = 0]
               row == [order[k] EXCEPT !.status = "CANCELLED"]
               new == [rows EXCEPT !.account = acct, !.order = row]
               inserts == [Inserts EXCEPT !.release = account[a].frozen > 0]
               s == Opened(a, k, p, new, inserts)
    <2>1. /\ order[k] \in Order /\ a \in Accounts /\ p \in Proposals
          /\ order[k].status \notin ClosedStatuses
      BY <1>1, <1>7 DEF BeginCancel, TypeOK, Order, NoOrder
    <2>2. account[a] \in Account
      BY <1>1, <2>1 DEF TypeOK
    <2>3. /\ acct \in Account /\ acct.frozen = 0
          /\ acct.available + acct.frozen = account[a].available + account[a].frozen
      <3> DEFINE total == account[a].available + account[a].frozen
      <3>1. /\ account[a].available \in Nat /\ account[a].frozen \in Nat
            /\ total \in Nat
        BY <2>2
      <3>2. acct = [account[a] EXCEPT !.available = total, !.frozen = 0]
        OBVIOUS
      <3> HIDE DEF acct, total
      <3>3. /\ acct \in Account /\ acct.frozen = 0
            /\ acct.available = total
        BY <2>2, <3>1, <3>2
      <3> QED BY <3>1, <3>3 DEF total
    <2>4. row \in Order /\ row.account = a /\ row # NoOrder
      BY <2>1, NotAnOrder DEF Order
    <2>5. /\ inserts \in Insert /\ inserts.lots = 0 /\ inserts.cost = 0
      <3> DEFINE frozen == account[a].frozen > 0
      <3>1. frozen \in BOOLEAN
        OBVIOUS
      <3>2. inserts = [event |-> 0, lots |-> 0, cost |-> 0, release |-> frozen]
        BY DEF Inserts
      <3> HIDE DEF frozen, inserts
      <3> QED
        BY <3>1, <3>2, ShapeAssumption DEF Insert
    <2>6. rows \in Read /\ rows.order = order[k]
      BY <1>1, <2>1, RowsType
    <2>7. Open(x, a, k, p, new, inserts)
      <3>1. new = [Rows(a, k, p) EXCEPT
               !.account = [account[a] EXCEPT !.available = @ + account[a].frozen,
                                              !.frozen = 0],
               !.order.status = "CANCELLED"]
        BY <2>6
      <3> HIDE DEF new
      <3> QED BY <1>7, <3>1 DEF BeginCancel
    <2> HIDE DEF acct, row, rows, inserts
    <2>8. /\ new \in Read /\ new.account = acct /\ new.order = row
          /\ new.proposal = rows.proposal /\ new.held = rows.held
      BY <2>3, <2>4, <2>6 DEF Read
    <2> HIDE DEF new
    <2>9. /\ s.account = a /\ s.proposal = p /\ s.new = new /\ s.inserts = inserts
          /\ s.read.account = account[a] /\ s.read.order = order[k] /\ s.read = rows
      BY <1>1, <2>1, OpenedFields DEF Opened, rows
    <2> HIDE DEF s
    <2>10. ~Adds(s)
      BY <2>1, <2>9, NotAnOrder DEF Adds
    <2>11. HonestProposal(s)
      BY <2>8, <2>9, <2>10 DEF HonestProposal
    <2>12. HonestOrder(s)
      BY <2>1, <2>4, <2>8, <2>9, <2>10 DEF HonestOrder
    <2>13. HonestHolding(s)
      BY <2>5, <2>8, <2>9 DEF HonestHolding
    <2>14. HonestCash(s)
      BY <2>2, <2>3, <2>5, <2>8, <2>9 DEF HonestCash
    <2>15. Honest(s)
      BY <2>11, <2>12, <2>13, <2>14 DEF Honest
    <2> HIDE DEF a, p
    <2> QED
      BY <1>1, <2>1, <2>5, <2>7, <2>8, <2>15, OpenHonest DEF s
  <1>8. ASSUME NEW a \in Accounts, BeginPause(x, a) \/ BeginResume(x, a)
        PROVE  HonestSessions'
    <2>1. PICK status \in AccountStatus : BeginStatus(x, a, status)
      BY <1>8 DEF BeginPause, BeginResume
    <2> DEFINE rows == Rows(a, AnyKey, AnyProposal)
               acct == [account[a] EXCEPT !.status = status]
               new == [rows EXCEPT !.account = acct]
               s == Opened(a, AnyKey, AnyProposal, new, Inserts)
    <2>2. AnyKey \in Keys /\ AnyProposal \in Proposals
      BY AnyRows
    <2>3. rows \in Read /\ rows.account = account[a]
      BY <1>1, <2>2, RowsType
    <2>4. /\ acct \in Account /\ acct.available = account[a].available
          /\ acct.frozen = account[a].frozen
      BY <1>1 DEF TypeOK
    <2>5. Open(x, a, AnyKey, AnyProposal, new, Inserts)
      <3>1. new = [Rows(a, AnyKey, AnyProposal) EXCEPT !.account.status = status]
        BY <2>3
      <3> HIDE DEF new
      <3> QED BY <2>1, <3>1 DEF BeginStatus
    <2> HIDE DEF rows, acct
    <2>6. /\ new \in Read /\ new.account = acct /\ new.order = rows.order
          /\ new.proposal = rows.proposal /\ new.held = rows.held
      BY <2>3, <2>4 DEF Read
    <2> HIDE DEF new
    <2>7. /\ s.new = new /\ s.inserts = Inserts /\ s.read = rows
      BY DEF Opened, rows
    <2> HIDE DEF s
    <2>8. Honest(s)
      BY <1>2, <2>3, <2>4, <2>6, <2>7, PlainHonest
    <2> QED
      BY <1>1, <1>2, <2>2, <2>5, <2>6, <2>8, OpenHonest DEF s
  <1> QED
    BY <1>3, <1>5, <1>6, <1>7, <1>8 DEF BeginRequest

\* A monitor that blocks an order leaves position and cash alone.
LEMMA BlockHonest ==
    ASSUME IInv, HonestSessions, NEW m \in Monitors, NEW k \in Keys,
           Executable(k), Quote(k) # NoSnapshot,
           NEW new \in Read, new.order.account = order[k].account,
           new.order.status \notin {"FILLED", "CANCELLED"},
           new.proposal = proposal[order[k].proposal],
           new.held = holding[order[k].account][SymbolOf[order[k].proposal]],
           new.account.available = account[order[k].account].available,
           new.account.frozen = account[order[k].account].frozen,
           Process(m, k, new, Declared(k))
    PROVE  HonestSessions'
  <1> DEFINE a == order[k].account
             p == order[k].proposal
             s == Opened(a, k, p, new, Declared(k))
  <1>1. TypeOK /\ m \in Actors
    BY DEF IInv, Actors
  <1>2. /\ order[k] \in Order /\ order[k] # NoOrder /\ a \in Accounts /\ p \in Proposals
        /\ order[k].status \notin ClosedStatuses
        /\ order[k].remaining \in 1..order[k].remaining
    BY <1>1, ExecutableOrder DEF Placed
  <1>3. Declared(k) \in Insert /\ Declared(k).lots = 0 /\ Declared(k).cost = 0
    <2>1. Declared(k) \in Insert /\ Declared(k).lots = 0
      BY <1>1, <1>2, BlockedType
    <2> QED BY <2>1 DEF Declared, Inserts
  <1>4. Open(m, a, k, p, new, Declared(k))
    BY DEF Process
  <1>5. /\ s.account = a /\ s.proposal = p /\ s.new = new /\ s.inserts = Declared(k)
        /\ s.read.account = account[a] /\ s.read.order = order[k]
        /\ s.read.proposal = proposal[p] /\ s.read.held = holding[a][SymbolOf[p]]
    BY <1>1, <1>2, OpenedFields
  <1>6. account[a] \in Account
    BY <1>1, <1>2 DEF TypeOK
  <1> HIDE DEF s
  <1>7. ~Adds(s) /\ ~Closes(s)
    BY <1>2, <1>5 DEF Adds, Closes
  <1>8. HonestProposal(s) /\ HonestOrder(s) /\ HonestHolding(s)
    BY <1>2, <1>3, <1>5, <1>7 DEF HonestProposal, HonestOrder, HonestHolding
  <1>9. HonestCash(s)
    BY <1>3, <1>5, <1>6, <1>7 DEF HonestCash
  <1>10. Honest(s)
    BY <1>8, <1>9 DEF Honest
  <1> HIDE DEF a, p
  <1> QED BY <1>1, <1>2, <1>3, <1>4, <1>10, OpenHonest DEF s

\* The rows a block writes.
LEMMA BlockedRows ==
    ASSUME TypeOK, NEW k \in Keys, Executable(k), Quote(k) # NoSnapshot,
           NEW status \in ActiveOrderStatuses \cup ClosedStatuses,
           NEW remaining \in 1..order[k].remaining
    PROVE  LET new == Blocked(k, status, remaining)
               a == order[k].account
               p == order[k].proposal
           IN  /\ new \in Read /\ new.account = account[a]
               /\ new.order.account = a /\ new.order.status = status
               /\ new.proposal = proposal[p] /\ new.held = holding[a][SymbolOf[p]]
  <1> DEFINE new == Blocked(k, status, remaining)
             a == order[k].account
             p == order[k].proposal
             row == [order[k] EXCEPT !.status = status, !.remaining = remaining]
             rows == OrderRows(k)
  <1>1. order[k] \in Order /\ a \in Accounts /\ p \in Proposals
        /\ order[k].remaining \in Nat
    BY ExecutableOrder
  <1>2. row \in Order /\ row.account = a /\ row.status = status
    <2>1. remaining \in Nat
      BY <1>1
    <2> QED BY <1>1, <2>1 DEF Order
  <1>3. /\ rows \in Read /\ rows.account = account[a] /\ rows.order = order[k]
        /\ rows.proposal = proposal[p] /\ rows.held = holding[a][SymbolOf[p]]
    BY <1>1, RowsType DEF OrderRows, Rows
  <1>4. new = [rows EXCEPT !.order = row]
    BY <1>3 DEF Blocked
  <1> HIDE DEF rows, row, new
  <1> QED BY <1>2, <1>3, <1>4 DEF Read, new

\* The monitor is honest.
LEMMA MonitorHonest ==
    ASSUME IInv, HonestSessions, NEW m \in Monitors, NEW k \in Keys, BeginProcess(m, k)
    PROVE  HonestSessions'
  <1>1. TypeOK /\ m \in Actors
    BY DEF IInv, Actors
  <1>2. ASSUME Executable(k), Quote(k) # NoSnapshot,
               NEW status \in (ActiveOrderStatuses \cup ClosedStatuses)
                                \ {"FILLED", "CANCELLED"},
               NEW remaining \in 1..order[k].remaining,
               Process(m, k, Blocked(k, status, remaining), Declared(k))
        PROVE  HonestSessions'
    <2> DEFINE new == Blocked(k, status, remaining)
    <2>1. status \in ActiveOrderStatuses \cup ClosedStatuses
      OBVIOUS
    <2>2. /\ new \in Read /\ new.account = account[order[k].account]
          /\ new.order.account = order[k].account /\ new.order.status = status
          /\ new.proposal = proposal[order[k].proposal]
          /\ new.held = holding[order[k].account][SymbolOf[order[k].proposal]]
      BY <1>1, <1>2, <2>1, BlockedRows
    <2> HIDE DEF new
    <2> QED BY <1>2, <2>2, BlockHonest DEF new
  <1>3. CASE BeginInactive(m, k)
    <2>1. Executable(k) /\ Quote(k) # NoSnapshot
      BY <1>3 DEF BeginInactive
    <2>2. order[k].remaining \in 1..order[k].remaining
      BY <1>1, <2>1, ExecutableOrder
    <2> QED
      BY <1>2, <1>3, <2>1, <2>2 DEF BeginInactive
  <1>4. CASE BeginSuspended(m, k)
    <2>1. Executable(k) /\ Quote(k) # NoSnapshot
      BY <1>4 DEF BeginSuspended, Decidable
    <2>2. order[k].remaining \in 1..order[k].remaining
      BY <1>1, <2>1, ExecutableOrder
    <2> QED
      BY <1>2, <1>4, <2>1, <2>2 DEF BeginSuspended
  <1>5. ASSUME NEW off \in BOOLEAN, BeginRisk(m, k, off)
        PROVE  HonestSessions'
    <2> DEFINE blocked == Blocked(k, "BLOCKED_RISK", order[k].remaining)
               acct == [blocked.account EXCEPT !.status = "RISK_OFF"]
               new == IF off THEN [blocked EXCEPT !.account = acct] ELSE blocked
    <2>1. Executable(k) /\ Quote(k) # NoSnapshot
      BY <1>5 DEF BeginRisk, Decidable
    <2>2. order[k].remaining \in 1..order[k].remaining
      BY <1>1, <2>1, ExecutableOrder
    <2>3. /\ blocked \in Read /\ blocked.account = account[order[k].account]
          /\ blocked.order.account = order[k].account
          /\ blocked.order.status = "BLOCKED_RISK"
          /\ blocked.proposal = proposal[order[k].proposal]
          /\ blocked.held = holding[order[k].account][SymbolOf[order[k].proposal]]
      BY <1>1, <2>1, <2>2, BlockedRows
    <2>4. Process(m, k, new, Declared(k))
      BY <1>5 DEF BeginRisk
    <2>5. blocked.account \in Account
      BY <2>3 DEF Read
    <2> HIDE DEF blocked
    <2>6. /\ acct \in Account /\ acct.available = blocked.account.available
          /\ acct.frozen = blocked.account.frozen
      BY <2>5
    <2> HIDE DEF acct
    <2>7. /\ new \in Read /\ new.order = blocked.order
          /\ new.proposal = blocked.proposal /\ new.held = blocked.held
          /\ new.account.available = blocked.account.available
          /\ new.account.frozen = blocked.account.frozen
      BY <2>3, <2>6 DEF Read
    <2> HIDE DEF new
    <2> QED
      BY <2>1, <2>3, <2>4, <2>7, BlockHonest
  <1>6. ASSUME NEW open \in 1..order[k].remaining, BeginUnmatched(m, k, open)
        PROVE  HonestSessions'
    <2>1. Executable(k) /\ Quote(k) # NoSnapshot
      BY <1>6 DEF BeginUnmatched, Decidable
    <2>2. BlockedStatus(k, open) \in (ActiveOrderStatuses \cup ClosedStatuses)
                                       \ {"FILLED", "CANCELLED"}
      BY DEF BlockedStatus
    <2> QED
      BY <1>2, <1>6, <2>1, <2>2 DEF BeginUnmatched
  <1>7. ASSUME NEW open \in 1..order[k].remaining, BeginFill(m, k, open)
        PROVE  HonestSessions'
    <2> DEFINE a == order[k].account
               p == order[k].proposal
               lots == MatchedLots(k, open)
               cost == Cost(Quote(k).price, lots)
               acct == PaidFromFrozen(account[a], cost, lots = open)
               row == Filled(order[k], open, lots)
               rows == OrderRows(k)
               shares == Bought(rows.held, open, lots)
               new == [rows EXCEPT !.account = acct, !.order = row, !.held = shares]
               inserts == [Declared(k) EXCEPT !.lots = lots, !.cost = cost]
               s == Opened(a, k, p, new, inserts)
    <2>1. /\ Executable(k) /\ Quote(k) # NoSnapshot
          /\ Quote(k).id \notin decided[k] /\ Matches(k, open)
      BY <1>7 DEF BeginFill, Decidable
    <2>2. /\ order[k] \in Order /\ order[k] # NoOrder /\ a \in Accounts /\ p \in Proposals
          /\ order[k].remaining \in Nat /\ order[k].status \notin ClosedStatuses
      BY <1>1, <2>1, ExecutableOrder DEF Placed
    <2>3. Quote(k) \in Snapshot
      BY <1>1, <2>1, QuoteType
    <2>4. lots \in Nat \ {0} /\ lots <= open
      BY <1>1, <2>1, <2>3, MatchedLotsBound
    <2>5. cost \in Nat
      <3>1. Quote(k).price \in Nat /\ Commission \in Nat
        BY <2>3, MoneyAssumption DEF Snapshot
      <3> QED
        BY <3>1, <2>4 DEF Cost
    <2>6. /\ rows \in Read /\ rows.order = order[k] /\ rows.account = account[a]
          /\ rows = Rows(a, k, p)
      BY <1>1, <2>2, RowsType DEF OrderRows
    <2>7. Open(m, a, k, p, new, inserts)
      <3>1. Process(m, k, new, inserts)
        BY <1>7, <2>6 DEF BeginFill
      <3> QED BY <3>1 DEF Process
    <2>8. account[a] \in Account
      BY <1>1, <2>2 DEF TypeOK
    <2> HIDE DEF lots, cost
    <2>9. /\ acct \in Account
          /\ acct.available + acct.frozen >= account[a].available + account[a].frozen - cost
          /\ lots = open => acct.frozen = 0
      <3>1. (lots = open) \in BOOLEAN
        OBVIOUS
      <3> QED BY <2>5, <2>8, <3>1, PaidType, PaidAtMostCost
    <2>10. acct.frozen <= account[a].frozen
      <3> DEFINE rest == IF account[a].frozen > cost THEN account[a].frozen - cost ELSE 0
      <3>1. rest <= account[a].frozen /\ rest \in Nat
        BY <2>5, <2>8
      <3>2. acct.frozen \in {0, rest}
        BY <2>8, <3>1 DEF PaidFromFrozen
      <3>3. account[a].frozen \in Nat
        BY <2>8
      <3> HIDE DEF rest
      <3> QED BY <3>1, <3>2, <3>3
    <2>11. /\ row \in Order /\ row.account = a /\ row # order[k]
           /\ row.status \in {"FILLED", "CANCELLED"} => lots = open
      <3>1. open - lots \in Nat /\ open - lots # order[k].remaining
        BY <2>2, <2>4
      <3>2. row = [order[k] EXCEPT !.remaining = open - lots,
                     !.status = IF lots = open THEN "FILLED" ELSE "PARTIALLY_FILLED"]
        BY DEF Filled
      <3> DEFINE left == open - lots
      <3> HIDE DEF left, row
      <3>3. row = [order[k] EXCEPT !.remaining = left,
                     !.status = IF lots = open THEN "FILLED" ELSE "PARTIALLY_FILLED"]
        BY <3>2 DEF left
      <3>4. left \in Nat /\ left # order[k].remaining
        BY <3>1 DEF left
      <3> QED
        BY <2>2, <3>3, <3>4 DEF Order
    <2>12. shares \in Nat /\ shares = rows.held + lots
      <3>1. rows.held \in Nat
        BY <2>6 DEF Read
      <3> QED
        BY <2>4, <3>1 DEF Bought
    <2>13. inserts \in Insert /\ inserts.lots = lots /\ inserts.cost = cost
      <3>1. Quote(k).id \in 1..MaxEvents
        BY <2>3 DEF Snapshot
      <3>2. Declared(k) = [Inserts EXCEPT !.event = Quote(k).id]
        BY <2>1 DEF Declared
      <3>3. Declared(k) \in Insert
        BY <3>1, <3>2, InsertsType, ShapeAssumption DEF Insert
      <3> QED
        BY <2>4, <2>5, <3>3 DEF Insert
    <2> HIDE DEF acct, row, rows, shares, inserts
    <2>14. /\ new \in Read /\ new.account = acct /\ new.order = row
           /\ new.held = shares /\ new.proposal = rows.proposal
      BY <2>6, <2>9, <2>11, <2>12 DEF Read
    <2> HIDE DEF new
    <2>15. /\ s.account = a /\ s.proposal = p /\ s.new = new /\ s.inserts = inserts
           /\ s.read = rows
      BY <2>6 DEF Opened
    <2> HIDE DEF s
    <2>16. ~Adds(s) /\ Rewrites(s)
      BY <2>2, <2>6, <2>11, <2>14, <2>15 DEF Adds, Rewrites
    <2>17. HonestProposal(s)
      BY <2>14, <2>15, <2>16 DEF HonestProposal
    <2>18. HonestOrder(s)
      BY <2>2, <2>6, <2>11, <2>14, <2>15, <2>16 DEF HonestOrder
    <2>19. HonestHolding(s)
      BY <2>4, <2>12, <2>13, <2>14, <2>15, <2>16 DEF HonestHolding
    <2>20. HonestCash(s)
      <3>1. /\ acct.available \in Nat /\ acct.frozen \in Nat
            /\ account[a].available \in Nat /\ account[a].frozen \in Nat
        BY <2>8, <2>9
      <3>2. acct.available + acct.frozen + cost >= account[a].available + account[a].frozen
        BY <2>5, <2>9, <3>1
      <3>3. ~(acct.frozen > account[a].frozen)
        BY <2>10, <3>1
      <3>4. Closes(s) => acct.frozen = 0
        BY <2>9, <2>11, <2>14, <2>15 DEF Closes
      <3> QED BY <2>6, <2>13, <2>14, <2>15, <3>2, <3>3, <3>4 DEF HonestCash
    <2>21. Honest(s)
      BY <2>17, <2>18, <2>19, <2>20 DEF Honest
    <2> HIDE DEF a, p
    <2> QED
      BY <1>1, <2>2, <2>7, <2>13, <2>14, <2>21, OpenHonest DEF s
  <1> QED
    BY <1>3, <1>4, <1>5, <1>6, <1>7 DEF BeginProcess

----------------------------------------------------------------------------
(* Sessions that commit.                                                    *)

\* What a session makes of the rows when all it writes is still what it read.
Written(s) ==
    /\ s \in OpenSession /\ Sound(s) /\ Honest(s)
    /\ \A a \in Accounts : account'[a] =
         IF a = s.account /\ s.new.account # s.read.account THEN s.new.account ELSE account[a]
    /\ s.new.account # s.read.account => account[s.account] = s.read.account
    /\ \A k \in Keys : order'[k] =
         IF k = s.order /\ s.new.order # s.read.order THEN s.new.order ELSE order[k]
    /\ s.new.order # s.read.order => order[s.order] = s.read.order
    /\ \A p \in Proposals : proposal'[p] =
         IF p = s.proposal /\ s.new.proposal # s.read.proposal
         THEN s.new.proposal ELSE proposal[p]
    /\ s.new.proposal # s.read.proposal => proposal[s.proposal] = s.read.proposal
    /\ \A a \in Accounts, t \in Symbols : holding'[a][t] =
         IF a = s.account /\ t = SymbolOf[s.proposal]
         THEN holding[a][t] + s.inserts.lots ELSE holding[a][t]
    /\ \A a \in Accounts : ledger'[a] =
         IF a = s.account THEN ledger[a] - s.inserts.cost ELSE ledger[a]
    /\ LET row == [key |-> s.order, event |-> s.inserts.event, lots |-> s.inserts.lots]
       IN  IF s.inserts.lots = 0 THEN fills' = fills
           ELSE row \notin fills /\ fills' = fills \cup {row}

\* An UPDATE that leaves every column as it was read writes nothing, and one of
\* an unchanged row writes the new one.
LEMMA UpdatedRow ==
    ASSUME NEW now, NEW read, NEW new,
           \/ {now, read, new} \subseteq Account
           \/ {now, read, new} \subseteq Order
    PROVE  /\ new = read => Updated(now, read, new) = now
           /\ now = read => Updated(now, read, new) = new
  <1>1. CASE {now, read, new} \subseteq Account
    <2>1. now \in Account /\ read \in Account /\ new \in Account
      BY <1>1
    <2>2. /\ DOMAIN now = {"status", "available", "frozen"}
          /\ DOMAIN new = {"status", "available", "frozen"}
          /\ now = [f \in DOMAIN now |-> now[f]] /\ new = [f \in DOMAIN new |-> new[f]]
      BY <2>1
    <2> QED BY <2>2 DEF Updated
  <1>2. CASE {now, read, new} \subseteq Order
    <2>1. now \in Order /\ read \in Order /\ new \in Order
      BY <1>2
    <2>2. /\ DOMAIN now = {"account", "proposal", "lots", "remaining", "expires", "status"}
          /\ DOMAIN new = {"account", "proposal", "lots", "remaining", "expires", "status"}
          /\ now = [f \in DOMAIN now |-> now[f]] /\ new = [f \in DOMAIN new |-> new[f]]
      BY <2>1 DEF Order
    <2> QED BY <2>2 DEF Updated
  <1> QED BY <1>1, <1>2

\* A commit that is not stale writes the rows it has computed.
LEMMA CommitWrites ==
    ASSUME IInv, HonestSessions, NEW x \in Actors, Commit(x), ~stale'
    PROVE  ~stale /\ Written(session[x])
  <1> DEFINE s == session[x]
             a == s.account
             k == s.order
             p == s.proposal
             t == SymbolOf[p]
             row == [key |-> k, event |-> s.inserts.event, lots |-> s.inserts.lots]
  <1>1. s \in OpenSession /\ Sound(s) /\ Honest(s) /\ TypeOK
    BY DEF IInv, OpenSound, Commit, Closed, HonestSessions
  <1>2. /\ a \in Accounts /\ k \in Keys /\ p \in Proposals /\ t \in Symbols
        /\ s.read \in Read /\ s.new \in Read /\ s.inserts \in Insert
    BY <1>1, ShapeAssumption DEF OpenSession
  <1>3. ~stale /\ ~StaleWrite(s)
    BY DEF Commit
  <1>4. /\ s.new.account # s.read.account => account[a] = s.read.account
        /\ s.new.order # s.read.order => order[k] = s.read.order
        /\ s.new.proposal # s.read.proposal => proposal[p] = s.read.proposal
        /\ s.new.held # s.read.held => holding[a][t] = s.read.held
    <2> DEFINE now == Rows(a, k, p)
    <2>1. /\ DOMAIN now = {"account", "order", "proposal", "held"}
          /\ now.account = account[a] /\ now.order = order[k]
          /\ now.proposal = proposal[p] /\ now.held = holding[a][t]
      BY DEF Rows
    <2>2. \A f \in DOMAIN now : s.new[f] # s.read[f] => now[f] = s.read[f]
      BY <1>3 DEF StaleWrite
    <2> HIDE DEF now, s
    <2> QED BY <2>1, <2>2
  <1>5. \A b \in Accounts : account'[b] =
          IF b = a /\ s.new.account # s.read.account THEN s.new.account ELSE account[b]
    <2>1. account[a] \in Account /\ s.read.account \in Account /\ s.new.account \in Account
      BY <1>1, <1>2 DEF TypeOK, Read
    <2>2. account' = [account EXCEPT ![a] = Updated(account[a], s.read.account, s.new.account)]
      BY DEF Commit
    <2>3. Updated(account[a], s.read.account, s.new.account)
            = IF s.new.account # s.read.account THEN s.new.account ELSE account[a]
      BY <1>4, <2>1, UpdatedRow
    <2>4. account \in [Accounts -> Account]
      BY <1>1 DEF TypeOK
    <2> HIDE DEF s, a
    <2> QED BY <1>2, <2>2, <2>3, <2>4
  <1>6. \A j \in Keys : order'[j] =
          IF j = k /\ s.new.order # s.read.order THEN s.new.order ELSE order[j]
    <2> DEFINE next == IF Inserted(x) \/ s.new.order = s.read.order
                       THEN Replaced(order[k], s.read.order, s.new.order)
                       ELSE Updated(order[k], s.read.order, s.new.order)
    <2>1. order' = [order EXCEPT ![k] = next]
      BY DEF Commit
    <2>2. next = IF s.new.order # s.read.order THEN s.new.order ELSE order[k]
      <3>1. CASE s.new.order = s.read.order
        BY <3>1 DEF Replaced
      <3>2. CASE s.new.order # s.read.order /\ Inserted(x)
        BY <3>2 DEF Replaced
      <3>3. CASE s.new.order # s.read.order /\ ~Inserted(x)
        <4>1. s.read.order # NoOrder
          BY <3>3 DEF Inserted
        <4>2. s.new.order # NoOrder
          BY <1>1, <4>1 DEF Sound
        <4>3. s.read.order \in Order /\ s.new.order \in Order /\ order[k] = s.read.order
          BY <1>2, <1>4, <3>3, <4>1, <4>2 DEF Read
        <4>4. Updated(order[k], s.read.order, s.new.order) = s.new.order
          BY <4>3, UpdatedRow
        <4> QED BY <3>3, <4>4
      <3> QED BY <3>1, <3>2, <3>3
    <2>3. order \in [Keys -> Order \cup {NoOrder}]
      BY <1>1 DEF TypeOK
    <2> HIDE DEF s, k, next
    <2> QED BY <1>2, <2>1, <2>2, <2>3
  <1>7. \A q \in Proposals : proposal'[q] =
          IF q = p /\ s.new.proposal # s.read.proposal THEN s.new.proposal ELSE proposal[q]
    BY <1>1, <1>2 DEF TypeOK, Commit, Replaced
  <1>8. \A b \in Accounts, u \in Symbols : holding'[b][u] =
          IF b = a /\ u = t THEN holding[b][u] + s.inserts.lots ELSE holding[b][u]
    <2> DEFINE shares == Replaced(holding[a][t], s.read.held, s.new.held)
    <2>1. holding' = [holding EXCEPT ![a][t] = shares]
      BY DEF Commit
    <2>2. holding \in [Accounts -> [Symbols -> Nat]]
      BY <1>1 DEF TypeOK
    <2>3. holding[a][t] \in Nat /\ s.inserts.lots \in Nat /\ s.read.held \in Nat
      BY <1>2, <2>2 DEF Insert, Read
    <2>4. shares = holding[a][t] + s.inserts.lots
      <3>1. CASE s.inserts.lots = 0
        BY <1>1, <2>3, <3>1 DEF Honest, HonestHolding, Replaced
      <3>2. CASE s.inserts.lots # 0
        <4>1. s.new.held = s.read.held + s.inserts.lots
          BY <1>1, <3>2 DEF Honest, HonestHolding
        <4>2. \A n, l \in Nat : l # 0 => n + l # n
          OBVIOUS
        <4>3. s.new.held # s.read.held
          BY <2>3, <3>2, <4>1, <4>2
        <4> QED BY <1>4, <4>1, <4>3 DEF Replaced
      <3> QED BY <3>1, <3>2
    <2> HIDE DEF s, a, t, shares
    <2> QED BY <1>2, <2>1, <2>2, <2>4
  <1>9. \A b \in Accounts : ledger'[b] =
          IF b = a THEN ledger[b] - s.inserts.cost ELSE ledger[b]
    BY <1>1, <1>2 DEF TypeOK, Commit
  <1>10. IF s.inserts.lots = 0 THEN fills' = fills
         ELSE row \notin fills /\ fills' = fills \cup {row}
    <2>1. fills' = IF s.inserts.lots = 0 THEN fills ELSE fills \cup {row}
      BY DEF Commit
    <2>2. ASSUME s.inserts.lots # 0, row \in fills PROVE FALSE
      <3>1. s.inserts.lots > 0 /\ s.inserts.event \in 0..MaxEvents
        BY <1>2, <2>2 DEF Insert
      <3>2. s.inserts.event # 0
        BY <1>1, <3>1, ShapeAssumption DEF Sound
      <3>3. s.inserts.event \notin decided[k]
        BY <3>2 DEF Commit, Refused, EventTaken
      <3>4. row.event \in decided[row.key]
        BY <2>2 DEF IInv, OneFillPerEvent
      <3> QED BY <3>3, <3>4
    <2> QED BY <2>1, <2>2
  <1> QED
    BY <1>1, <1>3, <1>4, <1>5, <1>6, <1>7, <1>8, <1>9, <1>10 DEF Written

\* Orders stay, of their account and their proposal, and one is added only by a
\* session that found none of its key.
LEMMA WrittenRows ==
    ASSUME TypeOK, NEW s, Written(s)
    PROVE  /\ \A k \in Keys : Placed(k) =>
                /\ Placed(k)' /\ order'[k].account = order[k].account
                /\ order'[k].proposal = order[k].proposal
           /\ \A k \in Keys : ~Placed(k) /\ Placed(k)' =>
                k = s.order /\ Adds(s) /\ order'[k].proposal = s.proposal
           /\ Adds(s) => /\ s.order \in Keys /\ ~Placed(s.order)
                         /\ order'[s.order] = s.new.order /\ Placed(s.order)'
                         /\ s.new.order.proposal = s.proposal
  <1>1. s.order \in Keys
    BY DEF Written, OpenSession
  <1>2. s.read.order # NoOrder => s.new.order # NoOrder
                                  /\ s.new.order.proposal = s.read.order.proposal
    BY DEF Written, Sound
  <1>3. Adds(s) => s.new.order.proposal = s.proposal
    BY DEF Written, Sound, Adds
  <1>4. Rewrites(s) => s.new.order.account = s.read.order.account
    BY DEF Written, Honest, HonestOrder
  <1>5. \A k \in Keys : order'[k] =
          IF k = s.order /\ s.new.order # s.read.order THEN s.new.order ELSE order[k]
    BY DEF Written
  <1>6. s.new.order # s.read.order => order[s.order] = s.read.order
    BY DEF Written
  <1> QED
    BY <1>1, <1>2, <1>3, <1>4, <1>5, <1>6 DEF Adds, Rewrites, Placed

\* A proposal becomes accepted with its order.
LEMMA WrittenProposals ==
    ASSUME TypeOK, NEW s, Written(s), OneOrderPerProposal, UniqueOrders'
    PROVE  OneOrderPerProposal'
  <1>1. \A p \in Proposals :
          proposal[p] = "ACCEPTED" <=> \E k \in Keys : Placed(k) /\ order[k].proposal = p
    BY DEF OneOrderPerProposal
  <1>2. /\ HonestProposal(s)
        /\ \A p \in Proposals : proposal'[p] =
             IF p = s.proposal /\ s.new.proposal # s.read.proposal
             THEN s.new.proposal ELSE proposal[p]
        /\ s.new.proposal # s.read.proposal => proposal[s.proposal] = s.read.proposal
    BY DEF Written, Honest
  <1>3. ASSUME NEW p \in Proposals
        PROVE  proposal'[p] = "ACCEPTED" <=> \E k \in Keys : Placed(k)' /\ order'[k].proposal = p
    <2>1. CASE Adds(s) /\ p = s.proposal
      <3>1. proposal'[p] = "ACCEPTED"
        BY <1>2, <2>1 DEF HonestProposal
      <3>2. s.order \in Keys /\ Placed(s.order)' /\ order'[s.order].proposal = p
        BY <2>1, WrittenRows
      <3> QED BY <3>1, <3>2
    <2>2. CASE ~(Adds(s) /\ p = s.proposal)
      <3>1. proposal'[p] = "ACCEPTED" <=> proposal[p] = "ACCEPTED"
        BY <1>2, <2>2 DEF HonestProposal
      <3>2. \A k \in Keys : Placed(k)' /\ order'[k].proposal = p
                              <=> Placed(k) /\ order[k].proposal = p
        BY <2>2, WrittenRows
      <3> QED BY <1>1, <3>1, <3>2
    <2> QED BY <2>1, <2>2
  <1> QED BY <1>3 DEF OneOrderPerProposal, UniqueOrders

\* A fill adds its lots to the sum and to the position of its symbol.
LEMMA WrittenHoldings ==
    ASSUME TypeOK, OneFillPerEvent, IsFiniteSet(fills), NEW s, Written(s)
    PROVE  IsFiniteSet(fills') /\ (HoldingIsFills => HoldingIsFills')
  <1> DEFINE b == s.account
             t == SymbolOf[s.proposal]
             lots == s.inserts.lots
             row == [key |-> s.order, event |-> s.inserts.event, lots |-> lots]
  <1>1. /\ b \in Accounts /\ s.order \in Keys /\ s.proposal \in Proposals /\ t \in Symbols
        /\ lots \in Nat
    BY ShapeAssumption DEF Written, OpenSession, Insert
  <1>2. /\ IF lots = 0 THEN fills' = fills ELSE row \notin fills /\ fills' = fills \cup {row}
        /\ \A a \in Accounts, u \in Symbols : holding'[a][u] =
             IF a = b /\ u = t THEN holding[a][u] + lots ELSE holding[a][u]
    BY DEF Written
  <1>3. \A f \in fills : /\ f.key \in Keys /\ Placed(f.key) /\ Placed(f.key)'
                         /\ order'[f.key].account = order[f.key].account
                         /\ order'[f.key].proposal = order[f.key].proposal
    <2>1. \A f \in fills : f.key \in Keys /\ Placed(f.key)
      BY DEF TypeOK, OneFillPerEvent
    <2> QED BY <2>1, WrittenRows
  <1>4. lots # 0 => /\ Placed(s.order) /\ Placed(s.order)'
                    /\ order'[s.order].account = b /\ order'[s.order].proposal = s.proposal
    <2> SUFFICES ASSUME lots # 0
                 PROVE  /\ Placed(s.order) /\ Placed(s.order)'
                        /\ order'[s.order].account = b
                        /\ order'[s.order].proposal = s.proposal
      OBVIOUS
    <2>1. Rewrites(s)
      BY DEF Written, Honest, HonestHolding
    <2>2. order[s.order] = s.read.order /\ s.read.order # NoOrder
      BY <2>1 DEF Written, Rewrites
    <2>3. s.read.order.account = b /\ s.read.order.proposal = s.proposal
      BY <2>1 DEF Written, Honest, HonestOrder
    <2>4. Placed(s.order)
      BY <2>2 DEF Placed
    <2> QED BY <1>1, <2>2, <2>3, <2>4, WrittenRows
  <1>5. row.lots = lots /\ row.key = s.order
    OBVIOUS
  <1> HIDE DEF row, lots, b, t
  <1>6. IsFiniteSet(fills')
    BY <1>2, FS_AddElement
  <1>7. ASSUME NEW a \in Accounts, NEW u \in Symbols
        PROVE  FillsOf(a, u)' = IF a = b /\ u = t /\ lots # 0 THEN FillsOf(a, u) \cup {row}
                                ELSE FillsOf(a, u)
    BY <1>1, <1>2, <1>3, <1>4, <1>5 DEF FillsOf, OnAccount, t
  <1>8. ASSUME HoldingIsFills, NEW a \in Accounts, NEW u \in Symbols
        PROVE  holding'[a][u] = LotsFilled(FillsOf(a, u)')
    <2>1. holding[a][u] = LotsFilled(FillsOf(a, u)) /\ holding[a][u] \in Nat
      BY <1>8 DEF HoldingIsFills, FillsOf, TypeOK
    <2>2. CASE a = b /\ u = t /\ lots # 0
      <3>1. holding'[a][u] = holding[a][u] + lots
        BY <2>2, <1>2
      <3>2. IsFiniteSet(FillsOf(a, u)) /\ row \notin FillsOf(a, u)
        BY <1>2, <2>2, FS_Subset DEF FillsOf
      <3>3. IsFiniteSet(FillsOf(a, u) \cup {row})
        BY <3>2, FS_AddElement
      <3>4. \A f \in FillsOf(a, u) : f.lots \in Nat
        BY DEF TypeOK, FillsOf
      <3>5. row.lots \in Nat
        BY <1>1, <1>5
      <3>6. LotsFilled(FillsOf(a, u) \cup {row}) = LotsFilled(FillsOf(a, u)) + lots
        BY <3>2, <3>3, <3>4, <3>5, <1>5, LotsSum
      <3> QED BY <2>1, <2>2, <3>1, <3>6, <1>7
    <2>3. CASE ~(a = b /\ u = t /\ lots # 0)
      <3>1. holding'[a][u] = holding[a][u]
        BY <2>1, <2>3, <1>1, <1>2
      <3>2. FillsOf(a, u)' = FillsOf(a, u)
        BY <2>3, <1>7
      <3> QED BY <2>1, <3>1, <3>2
    <2> QED BY <2>2, <2>3
  <1> QED
    BY <1>6, <1>8 DEF HoldingIsFills, FillsOf

\* What a session takes from an account it also records.
LEMMA WrittenCash ==
    ASSUME TypeOK, NEW s, Written(s), LedgerNeverAhead
    PROVE  LedgerNeverAhead'
  <1> SUFFICES ASSUME NEW a \in Accounts
               PROVE  ledger'[a] <= account'[a].available + account'[a].frozen
    BY DEF LedgerNeverAhead, Cash
  <1>1. /\ account[a] \in Account /\ ledger[a] \in Int
        /\ ledger[a] <= account[a].available + account[a].frozen
    BY DEF TypeOK, LedgerNeverAhead, Cash
  <1>2. s.read.account \in Account /\ s.new.account \in Account /\ s.inserts.cost \in Nat
    BY DEF Written, OpenSession, Read, Insert
  <1>3. s.new.account.available + s.new.account.frozen + s.inserts.cost
          >= s.read.account.available + s.read.account.frozen
    BY DEF Written, Honest, HonestCash
  <1>4. /\ account'[a] = IF a = s.account /\ s.new.account # s.read.account
                         THEN s.new.account ELSE account[a]
        /\ s.new.account # s.read.account => account[s.account] = s.read.account
        /\ ledger'[a] = IF a = s.account THEN ledger[a] - s.inserts.cost ELSE ledger[a]
    BY DEF Written
  <1>5. CASE a = s.account /\ s.new.account # s.read.account
    <2>1. account'[a] = s.new.account /\ account[a] = s.read.account
          /\ ledger'[a] = ledger[a] - s.inserts.cost
      BY <1>4, <1>5
    <2> QED BY <1>1, <1>2, <1>3, <2>1
  <1>6. CASE ~(a = s.account /\ s.new.account # s.read.account)
    <2>1. account'[a] = account[a] /\ ledger'[a] \in {ledger[a], ledger[a] - s.inserts.cost}
      BY <1>4, <1>6
    <2> QED BY <1>1, <1>2, <2>1
  <1> QED BY <1>5, <1>6

\* Cash a session freezes has the order it adds, and an order it closes leaves
\* nothing frozen without an owner.
LEMMA WrittenOwner ==
    ASSUME IInv, NEW x \in Actors, session[x].open, Written(session[x]), OwnerStays,
           session' = [session EXCEPT ![x] = Closed]
    PROVE  OwnerStays'
  <1> DEFINE s == session[x]
  <1>1. TypeOK /\ Written(s) /\ s.open /\ session \in [Actors -> {Closed} \cup OpenSession]
    BY DEF IInv, OpenSound
  <1>2. \A y \in Actors : session'[y].open => y # x /\ session'[y] = session[y]
    BY <1>1 DEF Closed
  <1>3. \A y \in Actors : session[y].open => Sound(session[y])
    BY DEF IInv, OpenSound
  <1> SUFFICES ASSUME NEW a \in Accounts, account'[a].frozen > 0
               PROVE  \E k \in OnAccount(a)' :
                        /\ order'[k].status \notin {"FILLED", "CANCELLED"}
                        /\ \A y \in Actors : session'[y].open /\ session'[y].order = k
                                               => ~Blind(session'[y])
    BY DEF OwnerStays
  <1>4. /\ account[a].frozen \in Nat /\ s.new.account.frozen \in Nat
        /\ s.read.account.frozen \in Nat
    BY <1>1 DEF TypeOK, Written, OpenSession, Read
  <1>5. /\ account'[a] = IF a = s.account /\ s.new.account # s.read.account
                         THEN s.new.account ELSE account[a]
        /\ s.new.account # s.read.account => account[s.account] = s.read.account
    BY <1>1 DEF Written
  <1>6. HonestCash(s) /\ HonestOrder(s)
    BY <1>1 DEF Written, Honest
  <1>7. /\ \A k \in Keys : order'[k] =
             IF k = s.order /\ s.new.order # s.read.order THEN s.new.order ELSE order[k]
        /\ s.new.order # s.read.order => order[s.order] = s.read.order
    BY <1>1 DEF Written
  <1> HIDE DEF s
  <1>8. CASE account'[a].frozen > account[a].frozen
    <2>1. a = s.account /\ s.new.account.frozen > s.read.account.frozen
      BY <1>4, <1>5, <1>8
    <2>2. Adds(s)
      BY <1>6, <2>1 DEF HonestCash
    <2>3. PICK k \in Keys : k = s.order /\ ~Placed(k) /\ Placed(k)' /\ order'[k] = s.new.order
      BY <1>1, <2>2, WrittenRows DEF Placed
    <2>4. s.new.order.account = a /\ s.new.order.status = "PAPER_PENDING"
      BY <1>6, <2>1, <2>2 DEF HonestOrder
    <2>5. k \in OnAccount(a)'
      BY <2>3, <2>4 DEF OnAccount
    <2>6. \A y \in Actors : session'[y].open /\ session'[y].order = k => ~Blind(session'[y])
      BY <1>2, <1>3, <2>3 DEF Blind, Closes, Rewrites, Sound
    <2> QED BY <2>3, <2>4, <2>5, <2>6
  <1>9. CASE ~(account'[a].frozen > account[a].frozen)
    <2>1. account[a].frozen > 0
      BY <1>4, <1>5, <1>9
    <2>2. PICK k \in OnAccount(a) :
            /\ order[k].status \notin {"FILLED", "CANCELLED"}
            /\ \A y \in Actors : session[y].open /\ session[y].order = k
                                   => ~Blind(session[y])
      BY <2>1 DEF OwnerStays
    <2>3. k \in Keys /\ Placed(k) /\ order[k].account = a
      BY <2>2 DEF OnAccount
    <2>4. k \in OnAccount(a)'
      BY <1>1, <2>3, WrittenRows DEF OnAccount
    <2>5. order'[k].status \notin {"FILLED", "CANCELLED"}
      <3> SUFFICES ASSUME order'[k].status \in {"FILLED", "CANCELLED"} PROVE FALSE
        OBVIOUS
      <3>1. /\ k = s.order /\ s.new.order # s.read.order /\ order'[k] = s.new.order
            /\ order[k] = s.read.order
        BY <1>7, <2>2, <2>3
      <3>2. Closes(s)
        BY <2>3, <3>1 DEF Closes, Rewrites, Placed
      <3>3. a = s.account
        BY <1>6, <2>3, <3>1, <3>2 DEF HonestOrder, Closes
      <3>4. s.read.account.frozen # 0
        BY <1>1, <2>2, <3>1, <3>2 DEF Blind, s
      <3>5. s.new.account.frozen = 0
        BY <1>6, <3>2 DEF HonestCash
      <3>6. account'[a].frozen = 0
        BY <1>5, <3>3, <3>4, <3>5
      <3> QED BY <3>6
    <2>6. \A y \in Actors : session'[y].open /\ session'[y].order = k => ~Blind(session'[y])
      BY <1>2, <2>2
    <2> QED BY <2>4, <2>5, <2>6
  <1> QED BY <1>8, <1>9

\* A session that commits leaves the book whole or has written something stale.
LEMMA CommitHonest ==
    ASSUME IInv, HonestSessions, NEW x \in Actors, Commit(x)
    PROVE  HonestSessions'
  <1> DEFINE s == session[x]
  <1>1. s.open /\ session' = [session EXCEPT ![x] = Closed]
        /\ session \in [Actors -> {Closed} \cup OpenSession]
    BY DEF Commit, Done, IInv, OpenSound
  <1>2. \A y \in Actors : session'[y].open => Honest(session'[y])
    <2>1. \A y \in Actors : session'[y].open => session'[y] = session[y]
      BY <1>1 DEF Closed
    <2> QED BY <2>1 DEF HonestSessions
  <1>3. IsFiniteSet(fills')
    <2>1. fills' = fills \/ \E row : fills' = fills \cup {row}
      BY DEF Commit
    <2> QED BY <2>1, FS_AddElement DEF HonestSessions
  <1>4. ASSUME ~stale' PROVE BookWhole'
    <2>1. ~stale /\ Written(s)
      BY <1>4, CommitWrites
    <2>2. BookWhole /\ TypeOK /\ OneFillPerEvent /\ IsFiniteSet(fills)
      BY <2>1 DEF IInv, HonestSessions
    <2>3. UniqueOrders'
      BY CommitStep DEF IInv
    <2>4. OneOrderPerProposal'
      BY <2>1, <2>2, <2>3, WrittenProposals DEF BookWhole
    <2>5. HoldingIsFills'
      BY <2>1, <2>2, WrittenHoldings DEF BookWhole
    <2>6. LedgerNeverAhead'
      BY <2>1, <2>2, WrittenCash DEF BookWhole
    <2>7. OwnerStays'
      BY <1>1, <2>1, <2>2, WrittenOwner DEF BookWhole
    <2> QED BY <2>4, <2>5, <2>6, <2>7 DEF BookWhole
  <1> QED BY <1>2, <1>3, <1>4 DEF HonestSessions

\* Whoever closes a session or leaves the rows and sessions alone keeps the
\* book as it was.
LEMMA QuietHonest ==
    ASSUME IInv, HonestSessions,
           UNCHANGED <<account, ledger, proposal, order, fills, holding, stale>>,
           \/ UNCHANGED session
           \/ \E x \in Actors : session' = [session EXCEPT ![x] = Closed]
    PROVE  HonestSessions'
  <1>1. \A y \in Actors : session'[y].open => session'[y] = session[y]
    BY DEF IInv, OpenSound, Closed
  <1>2. OwnerStays => OwnerStays'
    BY <1>1 DEF OwnerStays, OnAccount, Placed
  <1>3. BookWhole => BookWhole'
    BY <1>2, RowsDecide DEF BookWhole
  <1> QED BY <1>1, <1>3 DEF HonestSessions

\* The book is whole at first.
LEMMA HonestInitially == SessionsInit => HonestSessions
  <1> SUFFICES ASSUME SessionsInit PROVE HonestSessions
    OBVIOUS
  <1>1. /\ Init /\ fills = {} /\ \A x \in Actors : session[x] = Closed
        /\ \A k \in Keys : order[k] = NoOrder
        /\ \A a \in Accounts, t \in Symbols : holding[a][t] = 0
    BY DEF SessionsInit, Init
  <1>2. OneOrderPerProposal
    BY <1>1 DEF Init, OneOrderPerProposal, Placed
  <1>3. HoldingIsFills
    <2>1. \A a \in Accounts, t \in Symbols : FillsOf(a, t) = {}
      BY <1>1 DEF FillsOf
    <2> QED BY <1>1, <2>1, NoLots DEF HoldingIsFills, FillsOf
  <1>4. LedgerNeverAhead /\ OwnerStays
    BY <1>1, MoneyAssumption DEF Init, LedgerNeverAhead, Cash, OwnerStays
  <1> QED
    BY <1>1, <1>2, <1>3, <1>4, FS_EmptySet DEF HonestSessions, BookWhole, Closed

\* Every step keeps the sessions honest.
LEMMA HonestStep == IInv /\ HonestSessions /\ [SessionsNext]_sessionVars => HonestSessions'
  <1> SUFFICES ASSUME IInv, HonestSessions, [SessionsNext]_sessionVars
               PROVE  HonestSessions'
    OBVIOUS
  <1>1. CASE Single
    <2>1. UNCHANGED <<account, ledger, proposal, order, fills, holding, session, stale>>
      BY <1>1 DEF Single, Market, Tick, SaveSnapshot, Claim, Restart, ProcessNothing, books
    <2> QED BY <2>1, QuietHonest
  <1>2. CASE \E x \in Requests : BeginRequest(x)
    BY <1>2, RequestHonest
  <1>3. CASE \E m \in Monitors, k \in Keys : k \in batch[m] /\ BeginProcess(m, k)
    BY <1>3, MonitorHonest
  <1>4. ASSUME NEW x \in Actors, Commit(x)
        PROVE  HonestSessions'
    BY <1>4, CommitHonest
  <1>5. ASSUME NEW x \in Actors, RollBack(x)
        PROVE  HonestSessions'
    <2>1. /\ UNCHANGED <<account, ledger, proposal, order, fills, holding, stale>>
          /\ session' = [session EXCEPT ![x] = Closed]
      BY <1>5 DEF RollBack, Done
    <2> QED BY <2>1, QuietHonest
  <1>6. CASE UNCHANGED sessionVars
    <2>1. UNCHANGED <<account, ledger, proposal, order, fills, holding, session, stale>>
      BY <1>6 DEF sessionVars, vars
    <2> QED BY <2>1, QuietHonest
  <1> QED
    BY <1>1, <1>2, <1>3, <1>4, <1>5, <1>6 DEF SessionsNext

\* A closed order is written by none but a session that has read an older row.
LEMMA ClosedUnlessStale ==
    ASSUME IInv, HonestSessions, [SessionsNext]_sessionVars, ~stale',
           NEW k \in Keys, order[k].status \in ClosedStatuses
    PROVE  order'[k] = order[k]
  <1>1. CASE Single \/ UNCHANGED sessionVars
    BY <1>1 DEF Single, Market, Tick, SaveSnapshot, Claim, Restart, ProcessNothing,
                books, sessionVars, vars
  <1>6. ASSUME NEW x, NEW a, NEW j, NEW p, NEW new, NEW inserts,
               Open(x, a, j, p, new, inserts)
        PROVE  order' = order
    BY <1>6 DEF Open, vars
  <1>2. ASSUME NEW x \in Requests, BeginRequest(x)
        PROVE  order' = order
    <2>1. ASSUME NEW p \in Proposals, NEW j \in Keys, NEW a \in Accounts, BeginAccept(x, p, a, j)
          PROVE  order' = order
      BY <1>6, <2>1 DEF BeginAccept
    <2>2. ASSUME NEW p \in Proposals, NEW j \in Keys, BeginExpire(x, p, j)
          PROVE  order' = order
      BY <1>6, <2>2 DEF BeginExpire
    <2>3. ASSUME NEW p \in Proposals, NEW to \in ProposalStatus, BeginTransition(x, p, to)
          PROVE  order' = order
      BY <1>6, <2>3 DEF BeginTransition
    <2>4. ASSUME NEW j \in Keys, BeginCancel(x, j)
          PROVE  order' = order
      BY <1>6, <2>4 DEF BeginCancel
    <2>5. ASSUME NEW a \in Accounts, BeginPause(x, a) \/ BeginResume(x, a)
          PROVE  order' = order
      BY <1>6, <2>5 DEF BeginPause, BeginResume, BeginStatus
    <2> QED BY <1>2, <2>1, <2>2, <2>3, <2>4, <2>5 DEF BeginRequest
  <1>3. ASSUME NEW m \in Monitors, NEW j \in Keys, BeginProcess(m, j)
        PROVE  order' = order
    <2>1. CASE BeginInactive(m, j)
      BY <1>6, <2>1 DEF BeginInactive, Process
    <2>2. CASE BeginSuspended(m, j)
      BY <1>6, <2>2 DEF BeginSuspended, Process
    <2>3. ASSUME NEW off \in BOOLEAN, BeginRisk(m, j, off) PROVE order' = order
      BY <1>6, <2>3 DEF BeginRisk, Process
    <2>4. ASSUME NEW open \in 1..order[j].remaining, BeginUnmatched(m, j, open)
          PROVE  order' = order
      BY <1>6, <2>4 DEF BeginUnmatched, Process
    <2>5. ASSUME NEW open \in 1..order[j].remaining, BeginFill(m, j, open)
          PROVE  order' = order
      BY <1>6, <2>5 DEF BeginFill, Process
    <2> QED BY <1>3, <2>1, <2>2, <2>3, <2>4, <2>5 DEF BeginProcess
  <1>4. ASSUME NEW x \in Actors, RollBack(x)
        PROVE  order'[k] = order[k]
    BY <1>4 DEF RollBack
  <1>5. ASSUME NEW x \in Actors, Commit(x)
        PROVE  order'[k] = order[k]
    <2> DEFINE s == session[x]
    <2>1. Written(s)
      BY <1>5, CommitWrites
    <2> HIDE DEF s
    <2> SUFFICES ASSUME k = s.order, s.new.order # s.read.order PROVE FALSE
      BY <2>1 DEF Written
    <2>2. order[k] = s.read.order
      BY <2>1 DEF Written
    <2>3. CASE s.read.order = NoOrder
      BY <2>2, <2>3 DEF NoOrder
    <2>4. CASE s.read.order # NoOrder
      BY <2>1, <2>2, <2>4 DEF Written, Honest, HonestOrder, Rewrites
    <2> QED BY <2>3, <2>4
  <1> QED
    BY <1>1, <1>2, <1>3, <1>4, <1>5 DEF SessionsNext

\* Whatever overlaps, an accepted proposal without its order, a position that is
\* not the sum of its fills, a charge the ledger does not explain, frozen cash
\* without an order and a closed order that changes all take a session that has
\* overwritten a row it had read too early.
THEOREM OverlapHurtsOnlyStale == SessionsSpec => OnlyStaleWritesHurt
  <1>1. HonestSessions' /\ ~stale' =>
          (OneOrderPerProposal /\ HoldingIsFills /\ LedgerNeverAhead /\ FrozenHasOwner)'
    <2>1. OwnerStays' => FrozenHasOwner'
      BY DEF OwnerStays, FrozenHasOwner
    <2> QED BY <2>1 DEF HonestSessions, BookWhole
  <1>2. IInv /\ HonestSessions /\ [SessionsNext]_sessionVars =>
          [~stale' =>
             /\ (OneOrderPerProposal /\ HoldingIsFills /\ LedgerNeverAhead /\ FrozenHasOwner)'
             /\ \A k \in Keys : order[k].status \in ClosedStatuses =>
                  order'[k] = order[k]]_sessionVars
    BY <1>1, HonestStep, ClosedUnlessStale
  <1> QED
    BY <1>2, SessionsInitially, SessionsStep, HonestInitially, HonestStep, PTL
    DEF SessionsSpec, OnlyStaleWritesHurt
=============================================================================
