---------------------------- MODULE BookSessions ----------------------------
(***************************************************************************)
(* The paper-trading book when its transactions overlap (READ COMMITTED):   *)
(* a handler or a monitor reads rows without a lock, computes new values in *)
(* its session, and commits an UPDATE of the columns that changed.  What    *)
(* keeps two sessions apart are the unique constraints alone; the version   *)
(* columns are counted up but never compared.                               *)
(*                                                                          *)
(* A session reads its rows at one moment (Begin...) and writes them at a   *)
(* later one (Commit).  The guards and results are those of PaperBook,      *)
(* whose actions are the sessions that nothing overlaps.  Where the code    *)
(* reads a row it will write later than the others, nothing new happens to  *)
(* a session that commits before anyone else has changed such a row, and    *)
(* only those are promised more than the constraints give; rows that it     *)
(* only reads are taken from the same moment.  Every position has its row;  *)
(* where it is missing, a constraint refuses the second of two sessions     *)
(* that add it.                                                             *)
(***************************************************************************)
EXTENDS PaperBook, FiniteSets

CONSTANTS
    Requests,       \* HTTP requests that may be open together
    MaxOpen         \* bound on the sessions open at once

ASSUME SessionAssumption == Requests \cap Monitors = {} /\ MaxOpen \in Nat

\* There is a row for a session to leave alone (AnyAccount, AnyKey, AnyProposal).
ASSUME RowsAssumption == Accounts # {} /\ Keys # {} /\ Proposals # {}

VARIABLES
    session,        \* what each monitor or request has read and will write
    released,       \* orders with a CASH_RELEASED entry
    stale           \* a row was overwritten that had changed since it was
                    \* read (history)

sessionVars == <<vars, session, released, stale>>
Actors == Monitors \cup Requests

----------------------------------------------------------------------------
\* The rows of an account, an order, its proposal and its position.
Rows(a, k, p) == [account |-> account[a], order |-> order[k],
                  proposal |-> proposal[p], held |-> holding[a][SymbolOf[p]]]

\* What a session inserts: the event it decides (0: none, or its row was
\* there), the lots and the cost of a fill, and the entry of a release.
Inserts == [event |-> 0, lots |-> 0, cost |-> 0, release |-> FALSE]

Closed == [open |-> FALSE]
Unfinished == {x \in Actors : session[x].open}

Open(x, a, k, p, new, inserts) ==
    /\ ~session[x].open
    /\ Cardinality(Unfinished) < MaxOpen
    /\ session' = [session EXCEPT ![x] =
         [open |-> TRUE, account |-> a, order |-> k, proposal |-> p,
          read |-> Rows(a, k, p), new |-> new, inserts |-> inserts]]
    /\ UNCHANGED <<vars, released, stale>>

\* Rows a session does not touch.
AnyAccount == CHOOSE a \in Accounts : TRUE
AnyKey == CHOOSE k \in Keys : TRUE
AnyProposal == CHOOSE p \in Proposals : TRUE

----------------------------------------------------------------------------
(* HTTP handlers up to their commit.                                        *)

BeginAccept(x, p, a, k) ==
    /\ MayAccept(p, a, k)
    /\ Open(x, a, k, p,
         [Rows(a, k, p) EXCEPT
            !.account = [account[a] EXCEPT !.available = @ - Freeze(p),
                                           !.frozen = @ + Freeze(p)],
            !.order = NewOrder(p, a),
            !.proposal = "ACCEPTED"], Inserts)

BeginExpire(x, p, k) ==
    /\ Acceptable(p, k) /\ clock >= ExpiresAt[p]
    /\ Open(x, AnyAccount, AnyKey, p,
         [Rows(AnyAccount, AnyKey, p) EXCEPT !.proposal = "EXPIRED"], Inserts)

BeginTransition(x, p, to) ==
    /\ MayTransition(p, to)
    /\ Open(x, AnyAccount, AnyKey, p,
         [Rows(AnyAccount, AnyKey, p) EXCEPT !.proposal = to], Inserts)

BeginCancel(x, k) ==
    /\ order[k].status \in CancellableStatuses
    /\ LET a == order[k].account
           p == order[k].proposal
       IN Open(x, a, k, p,
            [Rows(a, k, p) EXCEPT
               !.account = [account[a] EXCEPT !.available = @ + account[a].frozen,
                                              !.frozen = 0],
               !.order.status = "CANCELLED"],
            [Inserts EXCEPT !.release = account[a].frozen > 0])

BeginStatus(x, a, status) ==
    Open(x, a, AnyKey, AnyProposal,
         [Rows(a, AnyKey, AnyProposal) EXCEPT !.account.status = status], Inserts)
BeginPause(x, a) == BeginStatus(x, a, "PAUSED")
BeginResume(x, a) ==
    account[a].status # "PAUSED_RECOVERY_REQUIRED" /\ BeginStatus(x, a, "ACTIVE")

----------------------------------------------------------------------------
(* The monitor's transaction up to its commit.                              *)

OrderRows(k) == Rows(order[k].account, k, order[k].proposal)
Process(m, k, new, inserts) ==
    Open(m, order[k].account, k, order[k].proposal, new, inserts)

Blocked(k, status, remaining) ==
    [OrderRows(k) EXCEPT !.order.status = status, !.order.remaining = remaining]
Declared(k) == IF Quote(k).id \in decided[k] THEN Inserts
               ELSE [Inserts EXCEPT !.event = Quote(k).id]

BeginInactive(m, k) ==
    /\ k \in batch[m] /\ Executable(k) /\ Quote(k) # NoSnapshot
    /\ account[order[k].account].status # "ACTIVE"
    /\ Process(m, k, Blocked(k, "BLOCKED_ACCOUNT", order[k].remaining), Declared(k))

BeginSuspended(m, k) ==
    /\ Decidable(m, k) /\ Quote(k).regime = "suspended"
    /\ Process(m, k, Blocked(k, "BLOCKED_SUSPENSION", order[k].remaining), Declared(k))

\* RISK_OFF also changes the account.
BeginRisk(m, k, off) ==
    LET blocked == Blocked(k, "BLOCKED_RISK", order[k].remaining) IN
    /\ Decidable(m, k) /\ Quote(k).regime # "suspended"
    /\ Process(m, k, IF off THEN [blocked EXCEPT !.account.status = "RISK_OFF"]
                     ELSE blocked, Declared(k))

BeginUnmatched(m, k, open) ==
    /\ Decidable(m, k) /\ Quote(k).regime # "suspended" /\ ~Matches(k, open)
    /\ Process(m, k, Blocked(k, BlockedStatus(k, open), open), Declared(k))

BeginFill(m, k, open) ==
    LET lots == MatchedLots(k, open)
        cost == Cost(Quote(k).price, lots)
    IN /\ Decidable(m, k) /\ Matches(k, open)
       /\ Process(m, k,
            [OrderRows(k) EXCEPT !.account = PaidFromFrozen(@, cost, lots = open),
                                 !.order = Filled(@, open, lots),
                                 !.held = Bought(@, open, lots)],
            [Declared(k) EXCEPT !.lots = lots, !.cost = cost])

----------------------------------------------------------------------------
(* Commit and rollback.                                                     *)

Done(x) ==
    /\ session' = [session EXCEPT ![x] = Closed]
    /\ batch' = IF x \in Monitors THEN [batch EXCEPT ![x] = @ \ {session[x].order}]
                ELSE batch

\* An UPDATE sets the columns that differ from what was read.
Updated(now, read, new) ==
    [f \in DOMAIN now |-> IF new[f] = read[f] THEN now[f] ELSE new[f]]
Replaced(now, read, new) == IF new = read THEN now ELSE new

\* The unique constraints (mutant: without the one of the proposal).
\* That of a fill row adds nothing: the row of its event is there as well.
Inserted(x) == session[x].read.order = NoOrder /\ session[x].new.order # NoOrder
KeyTaken(x) == Inserted(x) /\ Placed(session[x].order)
ProposalTaken(x) ==
    Inserted(x) /\ \E j \in Keys : Placed(j) /\ order[j].proposal = session[x].proposal
EventTaken(x) ==
    session[x].inserts.event # 0 /\ session[x].inserts.event \in decided[session[x].order]
ReleaseTaken(x) == session[x].inserts.release /\ session[x].order \in released

RefusedButProposal(x) == KeyTaken(x) \/ EventTaken(x) \/ ReleaseTaken(x)
Refused(x) == KeyTaken(x) \/ ProposalTaken(x) \/ EventTaken(x) \/ ReleaseTaken(x)

\* Some row is written that is not what it was when it was read.
StaleWrite(s) ==
    LET now == Rows(s.account, s.order, s.proposal)
    IN \E f \in DOMAIN now : s.new[f] # s.read[f] /\ now[f] # s.read[f]

Commit(x) ==
    LET s == session[x] IN
    /\ s.open /\ ~Refused(x)
    /\ account' = [account EXCEPT ![s.account] = Updated(@, s.read.account, s.new.account)]
    /\ order' = [order EXCEPT ![s.order] =
         IF Inserted(x) \/ s.new.order = s.read.order
         THEN Replaced(@, s.read.order, s.new.order)
         ELSE Updated(@, s.read.order, s.new.order)]
    /\ proposal' = [proposal EXCEPT ![s.proposal] =
         Replaced(@, s.read.proposal, s.new.proposal)]
    /\ holding' = [holding EXCEPT ![s.account][SymbolOf[s.proposal]] =
         Replaced(@, s.read.held, s.new.held)]
    /\ ledger' = [ledger EXCEPT ![s.account] = @ - s.inserts.cost]
    /\ decided' = [decided EXCEPT ![s.order] =
         IF s.inserts.event = 0 THEN @ ELSE @ \cup {s.inserts.event}]
    /\ fills' = IF s.inserts.lots = 0 THEN fills
                ELSE fills \cup {[key |-> s.order, event |-> s.inserts.event,
                                  lots |-> s.inserts.lots]}
    /\ released' = IF s.inserts.release THEN released \cup {s.order} ELSE released
    /\ stale' = (stale \/ StaleWrite(s))
    /\ Done(x)
    /\ UNCHANGED <<clock, feed>>

\* A constraint refuses the commit, a deadlock is resolved against the session,
\* or the process dies.  A monitor may try the same order again.
RollBack(x) ==
    /\ session[x].open
    /\ \/ Done(x)
       \/ x \in Monitors /\ session' = [session EXCEPT ![x] = Closed] /\ batch' = batch
    /\ UNCHANGED <<clock, account, ledger, proposal, order, decided, fills,
                   holding, feed, released, stale>>

----------------------------------------------------------------------------
SessionsInit ==
    Init /\ session = [x \in Actors |-> Closed] /\ released = {} /\ stale = FALSE

BeginRequest(x) ==
    \/ \E p \in Proposals, k \in Keys :
         (\E a \in Accounts : BeginAccept(x, p, a, k)) \/ BeginExpire(x, p, k)
    \/ \E p \in Proposals, to \in ProposalStatus : BeginTransition(x, p, to)
    \/ \E k \in Keys : BeginCancel(x, k)
    \/ \E a \in Accounts : BeginPause(x, a) \/ BeginResume(x, a)

BeginProcess(m, k) ==
    \/ BeginInactive(m, k) \/ BeginSuspended(m, k)
    \/ \E off \in BOOLEAN : BeginRisk(m, k, off)
    \/ \E open \in 1..order[k].remaining : BeginUnmatched(m, k, open) \/ BeginFill(m, k, open)

\* Claims and snapshots are single statements, and a monitor claims between its
\* transactions.  (A hold writes the status column, as a pause does.)
Single ==
    /\ \/ Market
       \/ \E m \in Monitors :
            /\ ~session[m].open
            /\ Claim(m) \/ Restart(m) \/ \E k \in Keys : ProcessNothing(m, k)
    /\ UNCHANGED <<session, released, stale>>

SessionsNext ==
    \/ Single
    \/ \E x \in Requests : BeginRequest(x)
    \/ \E m \in Monitors, k \in Keys : k \in batch[m] /\ BeginProcess(m, k)
    \/ \E x \in Actors : Commit(x) \/ RollBack(x)

SessionsSpec == SessionsInit /\ [][SessionsNext]_sessionVars

----------------------------------------------------------------------------
(* Properties.                                                              *)

\* Whatever overlaps, the constraints keep one order per proposal and one fill
\* per order and event, and no balance is ever negative.
ConstraintsHold ==
    /\ TypeOK
    /\ \A j, k \in Keys : /\ Placed(j) /\ Placed(k)
                         /\ order[j].proposal = order[k].proposal => j = k
    /\ OneFillPerEvent

\* As long as no session has overwritten a row that changed after it was read,
\* overlapping transactions keep what PaperBook promises of single ones:
\* accepted proposals have their order, positions are the sums of their fills,
\* cash covers the ledger, frozen cash has an order it belongs to, and an order
\* that was closed stays as it is.
OnlyStaleWritesHurt ==
    [][~stale' =>
         /\ (OneOrderPerProposal /\ HoldingIsFills /\ LedgerNeverAhead /\ FrozenHasOwner)'
         /\ \A k \in Keys : order[k].status \in ClosedStatuses => order'[k] = order[k]]_sessionVars
=============================================================================
