--------------------------- MODULE PaperSettlement ---------------------------
(***************************************************************************)
(* Daily settlement (PaperSettlementService) and recovery (RecoveryService)*)
(* over the paper-trading book: which accounts they pause, which snapshots *)
(* they write, and in which order.  Both read the book that PaperBook      *)
(* describes and change nothing in it except account statuses.             *)
(***************************************************************************)
EXTENDS PaperBook, Sequences

CONSTANT AccountOrder       \* the accounts in the order settle visits them

ASSUME AccountOrderAssumption ==
    /\ AccountOrder \in Seq(Accounts)
    /\ \A a \in Accounts : \E i \in DOMAIN AccountOrder : AccountOrder[i] = a

VARIABLES
    snapshots,      \* account snapshot rows
    held            \* accounts ever paused for recovery; nothing clears it

settlementVars == <<vars, snapshots, held>>

SettlementInit == Init /\ snapshots = {} /\ held = {}

----------------------------------------------------------------------------
\* The day has its snapshot row (mutant: the row is not looked up).
NeverSettled(a) == FALSE
Settled(a) == \E row \in snapshots : row.account = a /\ row.day = clock

\* A position without a close of the session (_settle_account).
Unpriced(a) ==
    \E s \in Symbols : /\ holding[a][s] > 0
                       /\ feed[s] = NoSnapshot \/ feed[s].at # clock

HasOrderIn(a, statuses) == \E k \in OnAccount(a) : order[k].status \in statuses

\* _assert_balanced: frozen cash without an active buy order (mutant: any
\* order that was not cancelled will do).
UnbalancedWithoutOrders(a) ==
    account[a].frozen > 0 /\ ~\E k \in OnAccount(a) : order[k].status # "CANCELLED"
Unbalanced(a) == account[a].frozen > 0 /\ ~HasOrderIn(a, ActiveOrderStatuses)

Unsettleable(a) == ~Settled(a) /\ (Unpriced(a) \/ Unbalanced(a))

SnapshotOf(a) == [account |-> a, day |-> clock, cash |-> Cash(a),
                  frozen |-> account[a].frozen, holding |-> holding[a]]

\* Pausing for recovery keeps the cash as it is.
Hold(S) == HoldAccounts(S) /\ held' = held \cup S

\* settle for all accounts, or for one.  The first account that cannot be
\* settled is paused, and the accounts behind it are not visited; what was
\* done up to there is committed.
Settle(scope) ==
    LET position(a) == CHOOSE i \in DOMAIN AccountOrder : AccountOrder[i] = a
        bad     == {a \in scope : Unsettleable(a)}
        first   == {a \in bad : \A b \in bad : position(a) <= position(b)}
        visited == {a \in scope : \A b \in bad : position(a) < position(b)}
    IN /\ Hold(first)
       /\ snapshots' = snapshots \cup {SnapshotOf(a) : a \in {b \in visited : ~Settled(b)}}

\* _check_account of the recovery run, over all accounts (mutant: a partially
\* filled order does not count as active).
PendingOnly == {"PAPER_PENDING"}
PlainActiveStatuses == {"PAPER_PENDING", "PARTIALLY_FILLED"}

Orphaned(a) == account[a].frozen > 0 /\ ~HasOrderIn(a, PlainActiveStatuses)

Recover ==
    /\ Hold({a \in Accounts : Orphaned(a)})
    /\ UNCHANGED snapshots

Trade == /\ Handlers \/ Monitoring \/ Market
         /\ UNCHANGED <<snapshots, held>>

SettlementNext ==
    \/ Trade
    \/ \E scope \in {Accounts} \cup {{a} : a \in Accounts} : Settle(scope)
    \/ Recover

SettlementSpec == SettlementInit /\ [][SettlementNext]_settlementVars

----------------------------------------------------------------------------
(* Properties.                                                             *)

\* Snapshot rows have the shape they are stored with.
SettlementTypeOK ==
    /\ snapshots \subseteq [account : Accounts, day : 0..MaxClock, cash : Nat,
                            frozen : Nat, holding : [Symbols -> Nat]]
    /\ held \subseteq Accounts

\* Settlement and recovery only ever pause accounts: every step is a step of
\* the book, so whatever PaperBook guarantees holds with them running.
BookKept == Spec

\* An account has one snapshot of a day, whichever settlements, full or of
\* one account, repeated or resumed after a failure, have run that day.
OneSnapshotPerDay ==
    \A r, t \in snapshots : r.account = t.account /\ r.day = t.day => r = t

\* A snapshot is never written from a book in which frozen cash has no order
\* to belong to: when it records frozen cash, an order of the account that the
\* monitor still works on is behind it (_assert_balanced before the snapshot).
SnapshotFrozenOwned ==
    [][\A row \in snapshots' \ snapshots :
         row.frozen > 0 => HasOrderIn(row.account, ActiveOrderStatuses)]_settlementVars

\* Nothing is traded for an account while it is paused for recovery: no order
\* is accepted or filled for it and its cash total does not move, although
\* monitors may still hold orders of it that they claimed before.
HeldAccountDoesNotTrade ==
    [][\A a \in Accounts : account[a].status = "PAUSED_RECOVERY_REQUIRED" =>
         /\ holding'[a] = holding[a]
         /\ Cash(a)' = Cash(a)
         /\ OnAccount(a)' = OnAccount(a)]_settlementVars

\* An account is only put on hold for frozen cash when the monitor blocked or
\* rejected an order of it; a trade history of accepts, fills and cancels
\* alone never looks inconsistent to settlement or recovery.
HoldIsTraceable ==
    [][\A a \in held' \ held :
         \/ Unpriced(a)
         \/ \E k \in OnAccount(a) :
              order[k].status \notin {"FILLED", "CANCELLED", "PAPER_PENDING",
                                      "PARTIALLY_FILLED"}]_settlementVars

\* "recovery-required account cannot be resumed by API"
\* (src/app/api/paper.py:147).
HoldSticks == \A a \in held : account[a].status # "ACTIVE"
=============================================================================
