-------------------------- MODULE PaperMemoryProofs --------------------------
(***************************************************************************)
(* Proofs about the in-memory paper trading service (PaperMemory), for any  *)
(* symbols, proposals, prices, bars, fees and rules.  A call works on the   *)
(* book in small steps; what each operator keeps of a book is shown once,   *)
(* and the loops over orders and positions are folds of such steps.         *)
(***************************************************************************)
EXTENDS PaperMemory, MatchingProofs, SetFolds, SequenceTheorems

(* Positions.                                                              *)

\* The buckets of a position hold its shares, which are those bought and not sold; of
\* the ones held back, no more than today's purchases where the session has been started.
PositionSound(pos, history, started) ==
    /\ pos.total = history.bought - history.sold
    /\ pos.total = pos.available + pos.today + pos.locked
    /\ started => pos.today <= history.today

History == [bought : Nat, sold : Nat, today : Nat]

\* Rounding gives a whole number, and none below zero of a number that is not.
LEMMA QuantizeType ==
    ASSUME NEW n \in Int, NEW d \in Nat \ {0}
    PROVE  quantize(n, d) \in Int /\ (n >= 0 => quantize(n, d) \in Nat)
  <1>1. n \div d \in Int /\ (n >= 0 => n \div d \in Nat)
    OBVIOUS
  <1> QED BY <1>1 DEF quantize

\* A new price leaves the shares alone.
LEMMA MarkSound ==
    ASSUME NEW pos \in Position, NEW history \in History, NEW started \in BOOLEAN,
           PositionSound(pos, history, started), NEW price \in Nat
    PROVE  mark(pos, price) \in Position /\ PositionSound(mark(pos, price), history, started)
  BY DEF mark, Position, PositionSound

\* Shares that are bought are held back for today.
LEMMA BoughtSound ==
    ASSUME NEW pos \in Position, NEW history \in History, NEW started \in BOOLEAN,
           PositionSound(pos, history, started),
           NEW quantity \in Nat \ {0}, NEW paid \in Nat, NEW price \in Nat
    PROVE  LET more == [bought |-> history.bought + quantity, sold |-> history.sold,
                        today |-> history.today + quantity]
           IN  /\ bought(pos, quantity, paid, price) \in Position
               /\ PositionSound(bought(pos, quantity, paid, price), more, started)
  <1> DEFINE n == pos.average * pos.total + 100 * paid
             d == pos.total + quantity
             average == quantize(n, d)
  <1>1. /\ pos.total \in Nat /\ pos.available \in Nat /\ pos.today \in Nat /\ pos.locked \in Nat
        /\ pos.average \in Nat
        /\ history.bought \in Nat /\ history.sold \in Nat /\ history.today \in Nat
    BY DEF Position, History
  <1>2. n \in Nat /\ d \in Nat \ {0}
    BY <1>1
  <1>3. average \in Nat
    <2> HIDE DEF n, d
    <2> QED BY <1>2, QuantizeType
  <1> DEFINE p == bought(pos, quantity, paid, price)
  <1>4. p = [total |-> pos.total + quantity, available |-> pos.available,
             today |-> pos.today + quantity, locked |-> pos.locked,
             average |-> average, last |-> price]
    <2>1. p = [mark(pos, price) EXCEPT !.average = average, !.total = @ + quantity,
                                       !.today = @ + quantity]
      BY DEF bought
    <2>2. mark(pos, price) \in Position /\ mark(pos, price).last = price
          /\ mark(pos, price).total = pos.total /\ mark(pos, price).today = pos.today
          /\ mark(pos, price).available = pos.available /\ mark(pos, price).locked = pos.locked
      BY DEF mark, Position
    <2> HIDE DEF p, average
    <2> QED BY <2>1, <2>2 DEF Position
  <1> HIDE DEF average, d, p
  <1>5. pos.total + quantity \in Nat /\ pos.today + quantity \in Nat
    BY <1>1
  <1>6. p \in Position
    BY <1>1, <1>3, <1>4, <1>5 DEF Position
  <1>7. PositionSound(p, [bought |-> history.bought + quantity, sold |-> history.sold,
                          today |-> history.today + quantity], started)
    BY <1>1, <1>4 DEF PositionSound
  <1> QED BY <1>6, <1>7 DEF p

\* Shares that are sold come from the locked ones first, and from those of today never.
LEMMA SoldSound ==
    ASSUME NEW pos \in Position, NEW history \in History, NEW started \in BOOLEAN,
           PositionSound(pos, history, started), NEW quantity \in Nat,
           quantity <= pos.available + pos.locked, NEW price \in Nat
    PROVE  LET more == [bought |-> history.bought, sold |-> history.sold + quantity,
                        today |-> history.today]
           IN  /\ sold(pos, quantity, price) \in Position
               /\ PositionSound(sold(pos, quantity, price), more, started)
  <1>1. /\ pos.total \in Nat /\ pos.available \in Nat /\ pos.today \in Nat /\ pos.locked \in Nat
        /\ pos.average \in Nat
        /\ history.bought \in Nat /\ history.sold \in Nat /\ history.today \in Nat
    BY DEF Position, History
  <1> DEFINE left == pos.total - quantity
             unlocked == Greater(0, quantity - pos.locked)
             locked == Greater(0, pos.locked - quantity)
             available == Greater(0, pos.available - unlocked)
             average == IF left = 0 THEN 0 ELSE pos.average
             last == IF left = 0 THEN 0 ELSE price
             p == sold(pos, quantity, price)
  <1>2. p = [total |-> left, available |-> available, today |-> pos.today, locked |-> locked,
             average |-> average, last |-> last]
    <2>1. p = [pos EXCEPT !.total = left, !.locked = locked, !.available = available,
                          !.average = average, !.last = last]
      BY DEF sold, Position
    <2> HIDE DEF p, left, locked, available, average, last
    <2> QED BY <2>1 DEF Position
  <1>3. left \in Nat /\ locked \in Nat /\ available \in Nat /\ average \in Nat /\ last \in Nat
    BY <1>1 DEF Greater, PositionSound
  <1>4. left = available + pos.today + locked
    BY <1>1 DEF Greater, PositionSound
  <1>5. left = history.bought - (history.sold + quantity)
    BY <1>1 DEF PositionSound
  <1> HIDE DEF left, locked, available, average, last
  <1> QED BY <1>1, <1>2, <1>3, <1>4, <1>5 DEF Position, PositionSound, p

\* Shares that can be sold are locked for an order.
LEMMA FreezeSound ==
    ASSUME NEW pos \in Position, NEW history \in History, NEW started \in BOOLEAN,
           PositionSound(pos, history, started), NEW n \in Nat, n <= pos.available
    PROVE  /\ freeze_for_sell(pos, n) \in Position
           /\ PositionSound(freeze_for_sell(pos, n), history, started)
  <1>1. /\ pos.total \in Nat /\ pos.available \in Nat /\ pos.today \in Nat /\ pos.locked \in Nat
        /\ pos.average \in Nat /\ pos.last \in Nat
        /\ history.bought \in Nat /\ history.sold \in Nat /\ history.today \in Nat
    BY DEF Position, History
  <1> DEFINE p == freeze_for_sell(pos, n)
  <1>2. p = [total |-> pos.total, available |-> pos.available - n, today |-> pos.today,
             locked |-> pos.locked + n, average |-> pos.average, last |-> pos.last]
    <2>1. p = [pos EXCEPT !.available = @ - n, !.locked = @ + n]
      BY DEF freeze_for_sell
    <2> HIDE DEF p
    <2> QED BY <2>1 DEF Position
  <1> HIDE DEF p
  <1>3. pos.available - n \in Nat /\ pos.locked + n \in Nat
    BY <1>1
  <1>4. p \in Position /\ PositionSound(p, history, started)
    BY <1>1, <1>2, <1>3 DEF Position, PositionSound
  <1> QED BY <1>4 DEF p

\* And come back, as far as they are locked.
LEMMA UnfreezeSound ==
    ASSUME NEW pos \in Position, NEW history \in History, NEW started \in BOOLEAN,
           PositionSound(pos, history, started), NEW n \in Nat
    PROVE  /\ release_frozen(pos, n) \in Position
           /\ PositionSound(release_frozen(pos, n), history, started)
  <1>1. /\ pos.total \in Nat /\ pos.available \in Nat /\ pos.today \in Nat /\ pos.locked \in Nat
        /\ pos.average \in Nat /\ pos.last \in Nat
        /\ history.bought \in Nat /\ history.sold \in Nat /\ history.today \in Nat
    BY DEF Position, History
  <1> DEFINE p == release_frozen(pos, n)
             back == Lesser(n, pos.locked)
  <1>2. p = [total |-> pos.total, available |-> pos.available + back, today |-> pos.today,
             locked |-> pos.locked - back, average |-> pos.average, last |-> pos.last]
    <2>1. p = [pos EXCEPT !.locked = @ - back, !.available = @ + back]
      BY DEF release_frozen
    <2> HIDE DEF p, back
    <2> QED BY <2>1 DEF Position
  <1>3. back \in Nat /\ back <= pos.locked
    BY <1>1 DEF Lesser
  <1> HIDE DEF p, back
  <1>4. pos.available + back \in Nat /\ pos.locked - back \in Nat
    BY <1>1, <1>3
  <1>5. p \in Position /\ PositionSound(p, history, started)
    BY <1>1, <1>2, <1>3, <1>4 DEF Position, PositionSound
  <1> QED BY <1>5 DEF p

\* T+1: what was bought before can be sold.
LEMMA ReleaseSound ==
    ASSUME NEW pos \in Position, NEW history \in History, NEW started \in BOOLEAN,
           PositionSound(pos, history, FALSE)
    PROVE  release_t1(pos) \in Position /\ PositionSound(release_t1(pos), history, started)
  <1>1. /\ pos.total \in Nat /\ pos.available \in Nat /\ pos.today \in Nat /\ pos.locked \in Nat
        /\ pos.average \in Nat /\ pos.last \in Nat
        /\ history.bought \in Nat /\ history.sold \in Nat /\ history.today \in Nat
    BY DEF Position, History
  <1> DEFINE p == release_t1(pos)
  <1>2. p = [total |-> pos.total, available |-> pos.available + pos.today, today |-> 0,
             locked |-> pos.locked, average |-> pos.average, last |-> pos.last]
    <2>1. p = [pos EXCEPT !.available = @ + pos.today, !.today = 0]
      BY DEF release_t1
    <2> HIDE DEF p
    <2> QED BY <2>1 DEF Position
  <1> HIDE DEF p
  <1>3. pos.available + pos.today \in Nat
    BY <1>1
  <1>4. p \in Position /\ PositionSound(p, history, started)
    BY <1>1, <1>2, <1>3 DEF Position, PositionSound
  <1> QED BY <1>4 DEF p

----------------------------------------------------------------------------
(* Books.                                                                  *)

Book == [account : Account, position : [Symbols -> Position], orders : Seq(Order),
         keys : SUBSET (Nat \X Events), ledger : Ledger,
         traded : [Symbols -> History], raised : BOOLEAN]

\* What every step of a call keeps of a book that began with n orders, on a day whose
\* session has been started or not.
Kept(b, n, started) ==
    /\ b \in Book
    /\ b.keys \subseteq (DOMAIN b.orders) \X Events
    /\ \A s \in Symbols : PositionSound(b.position[s], b.traded[s], started)
    /\ n <= Len(b.orders)

\* The ledger explains the cash, but for an amount that is still to be entered.
Explained(b, amount) == b.account.available + b.account.frozen = b.ledger.cash + amount
\* The last entry shows the balances.
Shown(b) == b.ledger.available = b.account.available /\ b.ledger.frozen = b.account.frozen
\* Frozen cash has a buy order that may use it.
Buying(o) == o.side = "BUY" /\ o.status \in ActiveOrder
Owned(b) == b.account.frozen > 0 => \E i \in DOMAIN b.orders : Buying(b.orders[i])

Sound(b, n, started) == Kept(b, n, started) /\ Explained(b, 0) /\ Shown(b) /\ Owned(b)

\* A book with another ledger.
LEMMA NewLedger ==
    ASSUME NEW b \in Book, NEW x \in Ledger, NEW c, c = [b EXCEPT !.ledger = x]
    PROVE  /\ c \in Book /\ c.ledger = x
           /\ c.account = b.account /\ c.position = b.position /\ c.orders = b.orders
           /\ c.keys = b.keys /\ c.traded = b.traded /\ c.raised = b.raised
  BY DEF Book

\* A book with another account.
LEMMA NewAccount ==
    ASSUME NEW b \in Book, NEW x \in Account, NEW c, c = [b EXCEPT !.account = x]
    PROVE  /\ c \in Book /\ c.account = x
           /\ c.ledger = b.ledger /\ c.position = b.position /\ c.orders = b.orders
           /\ c.keys = b.keys /\ c.traded = b.traded /\ c.raised = b.raised
  BY DEF Book

\* A book with other positions.
LEMMA NewPositions ==
    ASSUME NEW b \in Book, NEW x \in [Symbols -> Position], NEW c,
           c = [b EXCEPT !.position = x]
    PROVE  /\ c \in Book /\ c.position = x
           /\ c.account = b.account /\ c.ledger = b.ledger /\ c.orders = b.orders
           /\ c.keys = b.keys /\ c.traded = b.traded /\ c.raised = b.raised
  BY DEF Book

\* A status is written into an order.
LEMMA StatusKept ==
    ASSUME NEW n, NEW started \in BOOLEAN, NEW b, Kept(b, n, started),
           NEW i \in DOMAIN b.orders, NEW to \in OrderStatus, NEW c,
           c = [b EXCEPT !.orders[i].status = to]
    PROVE  /\ Kept(c, n, started)
           /\ c.account = b.account /\ c.ledger = b.ledger /\ c.position = b.position
           /\ c.traded = b.traded /\ DOMAIN c.orders = DOMAIN b.orders
           /\ c.orders[i].side = b.orders[i].side /\ c.orders[i].symbol = b.orders[i].symbol
           /\ \A j \in DOMAIN b.orders : j # i => c.orders[j] = b.orders[j]
  <1>1. b \in Book /\ b.orders \in Seq(Order) /\ b.orders[i] \in Order
    BY DEF Kept, Book
  <1> DEFINE o == [b.orders[i] EXCEPT !.status = to]
             x == [b.orders EXCEPT ![i] = o]
  <1>2. /\ o \in Order /\ o.side = b.orders[i].side /\ o.symbol = b.orders[i].symbol
    BY <1>1 DEF Order
  <1>3. c = [b EXCEPT !.orders = x]
    BY <1>1 DEF Book
  <1> HIDE DEF o
  <1>4. /\ x \in Seq(Order) /\ DOMAIN x = DOMAIN b.orders /\ Len(x) = Len(b.orders)
        /\ x[i] = o /\ \A j \in DOMAIN b.orders : j # i => x[j] = b.orders[j]
    BY <1>1, <1>2
  <1> HIDE DEF x
  <1>5. /\ c \in Book /\ c.orders = x
        /\ c.account = b.account /\ c.ledger = b.ledger /\ c.position = b.position
        /\ c.keys = b.keys /\ c.traded = b.traded /\ c.raised = b.raised
    BY <1>1, <1>3, <1>4 DEF Book
  <1>6. Kept(c, n, started)
    BY <1>4, <1>5 DEF Kept
  <1> QED BY <1>2, <1>4, <1>5, <1>6

\* A fill or the risk recheck leaves less of an order open.
LEMMA LeftKept ==
    ASSUME NEW n, NEW started \in BOOLEAN, NEW b, Kept(b, n, started),
           NEW i \in DOMAIN b.orders, NEW left \in Nat, NEW c,
           c = [b EXCEPT !.orders[i].remaining = left]
    PROVE  /\ Kept(c, n, started)
           /\ c.account = b.account /\ c.ledger = b.ledger /\ c.position = b.position
           /\ c.traded = b.traded /\ DOMAIN c.orders = DOMAIN b.orders
           /\ c.orders[i].side = b.orders[i].side /\ c.orders[i].symbol = b.orders[i].symbol
           /\ c.orders[i].status = b.orders[i].status
           /\ \A j \in DOMAIN b.orders : j # i => c.orders[j] = b.orders[j]
  <1>1. b \in Book /\ b.orders \in Seq(Order) /\ b.orders[i] \in Order
    BY DEF Kept, Book
  <1> DEFINE o == [b.orders[i] EXCEPT !.remaining = left]
             x == [b.orders EXCEPT ![i] = o]
  <1>2. /\ o \in Order /\ o.side = b.orders[i].side /\ o.symbol = b.orders[i].symbol
        /\ o.status = b.orders[i].status
    BY <1>1 DEF Order
  <1>3. c = [b EXCEPT !.orders = x]
    BY <1>1 DEF Book
  <1> HIDE DEF o
  <1>4. /\ x \in Seq(Order) /\ DOMAIN x = DOMAIN b.orders /\ Len(x) = Len(b.orders)
        /\ x[i] = o /\ \A j \in DOMAIN b.orders : j # i => x[j] = b.orders[j]
    BY <1>1, <1>2
  <1> HIDE DEF x
  <1>5. /\ c \in Book /\ c.orders = x
        /\ c.account = b.account /\ c.ledger = b.ledger /\ c.position = b.position
        /\ c.keys = b.keys /\ c.traded = b.traded /\ c.raised = b.raised
    BY <1>1, <1>3, <1>4 DEF Book
  <1>6. Kept(c, n, started)
    BY <1>4, <1>5 DEF Kept
  <1> QED BY <1>2, <1>4, <1>5, <1>6

\* An entry into the ledger.
LEMMA BookedKept ==
    ASSUME NEW n, NEW started \in BOOLEAN, NEW b, Kept(b, n, started),
           NEW amount \in Int, NEW c, c = Booked(b, amount)
    PROVE  /\ Kept(c, n, started) /\ Shown(c)
           /\ Explained(b, amount) => Explained(c, 0)
           /\ c.account = b.account /\ c.position = b.position /\ c.orders = b.orders
           /\ c.traded = b.traded
  <1>1. b \in Book /\ b.account \in Account /\ b.ledger \in Ledger
    BY DEF Kept, Book
  <1> DEFINE x == [cash |-> b.ledger.cash + amount, available |-> b.account.available,
                   frozen |-> b.account.frozen]
  <1>2. b.ledger.cash \in Int /\ b.account.available \in Int /\ b.account.frozen \in Int
    BY <1>1 DEF Ledger, Account
  <1>3. x \in Ledger /\ x.cash = b.ledger.cash + amount /\ x.available = b.account.available
        /\ x.frozen = b.account.frozen
    BY <1>2 DEF Ledger
  <1>4. c = [b EXCEPT !.ledger = x]
    BY <1>1 DEF Booked, Book
  <1> HIDE DEF x
  <1>5. /\ c \in Book /\ c.ledger = x
        /\ c.account = b.account /\ c.position = b.position /\ c.orders = b.orders
        /\ c.keys = b.keys /\ c.traded = b.traded /\ c.raised = b.raised
    BY <1>1, <1>3, <1>4, NewLedger
  <1>6. Kept(c, n, started)
    BY <1>5 DEF Kept
  <1>7. Shown(c)
    BY <1>3, <1>5 DEF Shown
  <1>8. Explained(b, amount) => Explained(c, 0)
    BY <1>2, <1>3, <1>5 DEF Explained
  <1> QED BY <1>5, <1>6, <1>7, <1>8

\* Other balances of the account.
LEMMA AccountKept ==
    ASSUME NEW n, NEW started \in BOOLEAN, NEW b, Kept(b, n, started),
           NEW x \in Account, NEW c, c = [b EXCEPT !.account = x]
    PROVE  /\ Kept(c, n, started) /\ c.account = x
           /\ c.ledger = b.ledger /\ c.position = b.position /\ c.orders = b.orders
           /\ c.traded = b.traded
  <1>1. b \in Book
    BY DEF Kept
  <1>2. /\ c \in Book /\ c.account = x
        /\ c.ledger = b.ledger /\ c.position = b.position /\ c.orders = b.orders
        /\ c.keys = b.keys /\ c.traded = b.traded /\ c.raised = b.raised
    BY <1>1, NewAccount
  <1>3. Kept(c, n, started)
    BY <1>2 DEF Kept
  <1> QED BY <1>2, <1>3

\* A position is replaced by one that is as sound.
LEMMA PositionKept ==
    ASSUME NEW n, NEW started \in BOOLEAN, NEW b, Kept(b, n, started),
           NEW s \in Symbols, NEW x \in Position, PositionSound(x, b.traded[s], started),
           NEW c \in Book, c.position = [b.position EXCEPT ![s] = x],
           c.orders = b.orders, c.keys = b.keys, c.traded = b.traded
    PROVE  Kept(c, n, started)
  <1>1. b.position \in [Symbols -> Position]
    BY DEF Kept, Book
  <1>2. ASSUME NEW t \in Symbols
        PROVE  PositionSound(c.position[t], c.traded[t], started)
    <2>1. CASE t = s
      BY <2>1, <1>1
    <2>2. CASE t # s
      <3>1. c.position[t] = b.position[t]
        BY <2>2, <1>1
      <3> QED BY <3>1 DEF Kept
    <2> QED BY <2>1, <2>2
  <1> QED BY <1>2 DEF Kept

----------------------------------------------------------------------------
(* The value of the positions.                                             *)

\* What a position is worth, and what it has gained, in fen.
LEMMA WorthType ==
    ASSUME NEW pos \in Position
    PROVE  market_value(pos) \in Nat /\ unrealized_pnl(pos) \in Int
  <1>1. pos.last \in Nat /\ pos.total \in Nat /\ pos.average \in Nat
    BY DEF Position
  <1> DEFINE gain == (100 * pos.last - pos.average) * pos.total
  <1>2. pos.last * pos.total \in Nat /\ gain \in Int
    BY <1>1
  <1> HIDE DEF gain
  <1>3. quantize(gain, 100) \in Int
    BY <1>2, QuantizeType
  <1> QED BY <1>2, <1>3 DEF market_value, unrealized_pnl, gain

\* Revaluing an account changes neither its cash nor what it is frozen for.
LEMMA RevaluedKept ==
    ASSUME NEW n, NEW started \in BOOLEAN, NEW b, Kept(b, n, started),
           NEW c, c = Revalued(b)
    PROVE  /\ Kept(c, n, started)
           /\ c.account.available = b.account.available
           /\ c.account.frozen = b.account.frozen
           /\ c.ledger = b.ledger /\ c.position = b.position /\ c.orders = b.orders
           /\ c.traded = b.traded
  <1> DEFINE values == [s \in Symbols |-> market_value(b.position[s])]
             gains == [s \in Symbols |-> unrealized_pnl(b.position[s])]
             value == SumFunction(values)
             pnl == SumFunction(gains)
             a == [b.account EXCEPT !.value = value, !.unrealized = pnl]
             x == [a EXCEPT !.peak = Greater(@, Equity(a))]
  <1>1. b \in Book /\ b.account \in Account /\ \A s \in Symbols : b.position[s] \in Position
    BY DEF Kept, Book
  <1>2. IsFiniteSet(Symbols)
    BY PaperMemoryAssumption
  <1>3. DOMAIN values = Symbols /\ \A s \in Symbols : values[s] \in Nat
    BY <1>1, WorthType
  <1>4. DOMAIN gains = Symbols /\ \A s \in Symbols : gains[s] \in Int
    BY <1>1, WorthType
  <1> HIDE DEF values, gains
  <1>5. value \in Nat
    BY <1>2, <1>3, SumNat DEF SumFunction
  <1>6. pnl \in Int
    BY <1>2, <1>4, SumType DEF SumFunction
  <1> HIDE DEF value, pnl
  <1>7. a = [b.account EXCEPT !.value = value, !.unrealized = pnl]
    OBVIOUS
  <1> HIDE DEF a
  <1>8. a \in Account /\ a.available = b.account.available /\ a.frozen = b.account.frozen
    BY <1>1, <1>5, <1>6, <1>7 DEF Account
  <1>9. Equity(a) \in Int /\ a.peak \in Nat
    BY <1>8 DEF Equity, Account
  <1>10. Greater(a.peak, Equity(a)) \in Nat
    BY <1>9 DEF Greater
  <1>11. x \in Account /\ x.available = b.account.available /\ x.frozen = b.account.frozen
    BY <1>8, <1>10 DEF Account
  <1>12. c = [b EXCEPT !.account = x]
    BY DEF Revalued, value, pnl, a, values, gains
  <1> HIDE DEF x
  <1> QED BY <1>11, <1>12, AccountKept

----------------------------------------------------------------------------
(* Closing an order and booking a fill.                                    *)

\* What is locked or frozen for an order is given back; after a buy nothing is frozen.
LEMMA ReleasedSound ==
    ASSUME NEW n, NEW started \in BOOLEAN, NEW b, Kept(b, n, started),
           Explained(b, 0), Shown(b), NEW i \in DOMAIN b.orders,
           b.orders[i].side = "SELL" => Owned(b), NEW c, c = Released(b, i)
    PROVE  Sound(c, n, started)
  <1> DEFINE o == b.orders[i]
             s == o.symbol
  <1>1. b \in Book /\ b.account \in Account /\ b.position \in [Symbols -> Position]
    BY DEF Kept, Book
  <1>2. o \in Order
    BY <1>1 DEF Book
  <1>3. s \in Symbols /\ o.remaining \in Nat /\ o.side \in Sides
    BY <1>2 DEF Order
  <1>4. b.account.available \in Int /\ b.account.frozen \in Int
    BY <1>1 DEF Account
  <1>5. CASE o.side = "SELL"
    <2> DEFINE p == release_frozen(b.position[s], o.remaining)
               d == [b EXCEPT !.position[s] = p]
    <2>1. c = Booked(d, 0)
      BY <1>5 DEF Released
    <2>2. /\ b.position[s] \in Position /\ b.traded[s] \in History
          /\ PositionSound(b.position[s], b.traded[s], started)
      BY <1>1, <1>3 DEF Kept, Book
    <2>3. p \in Position /\ PositionSound(p, b.traded[s], started)
      BY <2>2, <1>3, UnfreezeSound
    <2> HIDE DEF p, s, o
    <2>4. d = [b EXCEPT !.position[s] = p]
      OBVIOUS
    <2> HIDE DEF d
    <2>8. /\ d \in Book /\ d.position = [b.position EXCEPT ![s] = p]
          /\ d.account = b.account /\ d.ledger = b.ledger /\ d.orders = b.orders
          /\ d.keys = b.keys /\ d.traded = b.traded
      BY <1>1, <1>3, <2>3, <2>4 DEF Book
    <2>5. Kept(d, n, started)
      BY <1>3, <2>3, <2>8, PositionKept
    <2>6. Explained(d, 0) /\ Owned(d)
      BY <2>8, <1>5 DEF Explained, Owned, o
    <2>7. /\ Kept(c, n, started) /\ Shown(c) /\ Explained(c, 0)
          /\ c.account = d.account /\ c.orders = d.orders
      BY <2>1, <2>5, <2>6, BookedKept
    <2> QED BY <2>6, <2>7, <2>8 DEF Sound, Owned
  <1>6. CASE o.side = "BUY" /\ b.account.frozen > 0
    <2> DEFINE a == [b.account EXCEPT !.available = @ + b.account.frozen, !.frozen = 0]
               d == [b EXCEPT !.account = a]
    <2>1. c = Booked(d, 0)
      <3>1. d = [b EXCEPT !.account.available = @ + b.account.frozen,
                          !.account.frozen = 0]
        BY <1>1 DEF Book, Account
      <3> HIDE DEF d
      <3> QED BY <1>6, <3>1 DEF Released
    <2>2. a = [b.account EXCEPT !.available = @ + b.account.frozen, !.frozen = 0]
      OBVIOUS
    <2> DEFINE old == b.account
               more == old.available + old.frozen
    <2>9. more \in Int /\ old \in Account
      BY <1>1, <1>4
    <2> HIDE DEF a
    <2>3. a \in Account /\ a.available = more /\ a.frozen = 0
      <3>1. a = [old EXCEPT !.available = more, !.frozen = 0]
        BY <1>1, <2>2 DEF Account
      <3> HIDE DEF more, old
      <3>2. a = [status |-> old.status, available |-> more, frozen |-> 0, value |-> old.value,
                 unrealized |-> old.unrealized, peak |-> old.peak]
        BY <2>9, <3>1 DEF Account
      <3> QED BY <2>9, <3>2 DEF Account
    <2>4. d = [b EXCEPT !.account = a]
      OBVIOUS
    <2> HIDE DEF d
    <2>5. /\ Kept(d, n, started) /\ d.account = a
          /\ d.ledger = b.ledger /\ d.orders = b.orders
      BY <2>3, <2>4, AccountKept
    <2>6. Explained(d, 0)
      BY <1>4, <2>3, <2>5 DEF Explained
    <2>7. /\ Kept(c, n, started) /\ Shown(c) /\ Explained(c, 0) /\ c.account = a
      BY <2>1, <2>5, <2>6, BookedKept
    <2>8. Owned(c)
      BY <2>3, <2>7 DEF Owned
    <2> QED BY <2>7, <2>8 DEF Sound
  <1>7. CASE o.side = "BUY" /\ ~(b.account.frozen > 0)
    <2>1. c = b
      BY <1>7 DEF Released
    <2>2. Owned(b)
      BY <1>7 DEF Owned
    <2> QED BY <2>1, <2>2 DEF Sound
  <1> QED BY <1>3, <1>5, <1>6, <1>7 DEF Sides

\* Frozen cash keeps its order when another one is written.
LEMMA OwnerStays ==
    ASSUME NEW b, Owned(b), NEW i \in DOMAIN b.orders, b.orders[i].side # "BUY", NEW c,
           c.account.frozen = b.account.frozen, DOMAIN c.orders = DOMAIN b.orders,
           \A j \in DOMAIN b.orders : j # i => c.orders[j] = b.orders[j]
    PROVE  Owned(c)
  <1> SUFFICES ASSUME c.account.frozen > 0
               PROVE  \E j \in DOMAIN c.orders : Buying(c.orders[j])
    BY DEF Owned
  <1>1. PICK j \in DOMAIN b.orders : Buying(b.orders[j])
    BY DEF Owned
  <1>2. j # i
    BY <1>1 DEF Buying
  <1> QED BY <1>1, <1>2

\* An order leaves the market.
LEMMA ClosedSound ==
    ASSUME NEW n, NEW started \in BOOLEAN, NEW b, Sound(b, n, started),
           NEW i \in DOMAIN b.orders, NEW to \in OrderStatus
    PROVE  Sound(Closed(b, i, to), n, started)
  <1> DEFINE d == [b EXCEPT !.orders[i].status = to]
  <1>1. /\ Kept(d, n, started)
        /\ d.account = b.account /\ d.ledger = b.ledger
        /\ DOMAIN d.orders = DOMAIN b.orders
        /\ d.orders[i].side = b.orders[i].side
        /\ \A j \in DOMAIN b.orders : j # i => d.orders[j] = b.orders[j]
    BY StatusKept DEF Sound
  <1>2. Closed(b, i, to) = Released(d, i)
    BY DEF Closed
  <1> HIDE DEF d
  <1>3. Explained(d, 0) /\ Shown(d)
    BY <1>1 DEF Sound, Explained, Shown
  <1>4. d.orders[i].side = "SELL" => Owned(d)
    BY <1>1, OwnerStays DEF Sound
  <1> QED BY <1>1, <1>2, <1>3, <1>4, ReleasedSound

\* A trade changes a position, what was traded of the symbol, and the cash.
LEMMA TradeKept ==
    ASSUME NEW n, NEW started \in BOOLEAN, NEW b, Kept(b, n, started),
           NEW s \in Symbols, NEW x \in Position, NEW m \in History,
           PositionSound(x, m, started),
           NEW c \in Book, c.position = [b.position EXCEPT ![s] = x],
           c.traded = [b.traded EXCEPT ![s] = m], c.orders = b.orders, c.keys = b.keys
    PROVE  Kept(c, n, started)
  <1>1. b.position \in [Symbols -> Position] /\ b.traded \in [Symbols -> History]
    BY DEF Kept, Book
  <1>2. ASSUME NEW t \in Symbols
        PROVE  PositionSound(c.position[t], c.traded[t], started)
    <2>1. CASE t = s
      BY <2>1, <1>1
    <2>2. CASE t # s
      <3>1. c.position[t] = b.position[t] /\ c.traded[t] = b.traded[t]
        BY <2>2, <1>1
      <3> QED BY <3>1 DEF Kept
    <2> QED BY <2>1, <2>2
  <1> QED BY <1>2 DEF Kept

\* A buy takes what it costs from the frozen cash, and gives the rest of it back.
LEMMA BuyApplied ==
    ASSUME NEW n, NEW started \in BOOLEAN, NEW b, Kept(b, n, started), Explained(b, 0),
           NEW i \in DOMAIN b.orders, NEW fill \in Fill, fill.side = "BUY",
           fill.fee.other = 0, NEW c, c = Applied(b, i, fill)
    PROVE  Sound(c, n, started)
  <1> DEFINE s == b.orders[i].symbol
             old == b.account
             paid == total_cost(fill)
             release == Greater(0, old.frozen - paid)
             frozen == old.frozen - paid - release
             available == old.available + release
             p == bought(b.position[s], fill.quantity, paid, fill.price)
             h == b.traded[s]
             m == MoreBought(h, fill.quantity)
             buy == [b EXCEPT
                !.account.frozen = @ - paid - release,
                !.account.available = @ + release,
                !.position[s] = bought(@, fill.quantity, paid, fill.price),
                !.traded[s] = MoreBought(@, fill.quantity)]
             d == Booked(buy, -fill.value - fill.fee.commission)
  <1>1. /\ b \in Book /\ old \in Account /\ b.position \in [Symbols -> Position]
        /\ b.traded \in [Symbols -> History] /\ b.orders[i] \in Order
    BY DEF Kept, Book
  <1>2. s \in Symbols
    BY <1>1 DEF Order
  <1>3. /\ fill.value \in Nat /\ fill.fee.commission \in Nat
        /\ fill.quantity \in Nat \ {0} /\ fill.price \in Nat
    BY DEF Fill
  <1>4. paid \in Nat /\ paid = fill.value + fill.fee.commission
    BY <1>3 DEF total_cost
  <1>5. old.available \in Int /\ old.frozen \in Int
    BY <1>1 DEF Account
  <1>6. c = Revalued(d)
    BY DEF Applied, total_cost
  <1> HIDE DEF paid, old
  <1>7. release \in Int /\ frozen \in Int /\ available \in Int /\ frozen <= 0
        /\ available + frozen = old.available + old.frozen - paid
    BY <1>4, <1>5 DEF Greater
  <1>8. /\ b.position[s] \in Position /\ h \in History
        /\ PositionSound(b.position[s], h, started)
    BY <1>1, <1>2 DEF Kept
  <1>9. m = [bought |-> h.bought + fill.quantity, sold |-> h.sold,
             today |-> h.today + fill.quantity]
    <2> DEFINE k == m
    <2>1. k = [h EXCEPT !.bought = @ + fill.quantity, !.today = @ + fill.quantity]
      BY DEF MoreBought
    <2> HIDE DEF k, h
    <2>2. k = [bought |-> h.bought + fill.quantity, sold |-> h.sold,
               today |-> h.today + fill.quantity]
      BY <1>8, <2>1 DEF History
    <2> QED BY <2>2 DEF k
  <1>10. m \in History /\ p \in Position /\ PositionSound(p, m, started)
    <2>1. p \in Position /\ PositionSound(p, m, started)
      <3> HIDE DEF s, h, m
      <3> QED BY <1>3, <1>4, <1>8, <1>9, BoughtSound
    <2> HIDE DEF h, m
    <2>2. m \in History
      BY <1>3, <1>8, <1>9 DEF History
    <2> QED BY <2>1, <2>2
  <1> DEFINE a == [old EXCEPT !.frozen = frozen, !.available = available]
             P == [b.position EXCEPT ![s] = p]
             M == [b.traded EXCEPT ![s] = m]
  <1>11. buy = [b EXCEPT !.account = a, !.position = P, !.traded = M]
    <2> HIDE DEF release, p, m
    <2> QED BY <1>1 DEF Book, Account, old, p, m
  <1>12. a \in Account /\ a.available = available /\ a.frozen = frozen
    <2>1. a = [old EXCEPT !.frozen = frozen, !.available = available]
      OBVIOUS
    <2> HIDE DEF a, frozen, available
    <2> QED BY <1>1, <1>7, <2>1 DEF Account
  <1> HIDE DEF a, buy, d, p, m, s, h
  <1>13. P \in [Symbols -> Position] /\ M \in [Symbols -> History]
    BY <1>1, <1>2, <1>10
  <1> HIDE DEF P, M
  <1>14. /\ buy \in Book /\ buy.account = a /\ buy.position = P /\ buy.traded = M
         /\ buy.orders = b.orders /\ buy.keys = b.keys /\ buy.ledger = b.ledger
    BY <1>1, <1>11, <1>12, <1>13 DEF Book
  <1>15. Kept(buy, n, started)
    BY <1>2, <1>8, <1>10, <1>14, TradeKept DEF P, M
  <1>16. -fill.value - fill.fee.commission \in Int
         /\ -fill.value - fill.fee.commission = 0 - paid
    BY <1>3, <1>4
  <1>17. Explained(buy, -fill.value - fill.fee.commission)
    <2>1. b.ledger.cash \in Int /\ old.available + old.frozen = b.ledger.cash + 0
      BY <1>1 DEF Explained, old, Book, Ledger
    <2> HIDE DEF release, frozen, available
    <2>2. a.available + a.frozen = b.ledger.cash - paid
      BY <1>4, <1>5, <1>7, <1>12, <2>1
    <2> QED BY <1>4, <1>14, <1>16, <2>1, <2>2 DEF Explained
  <1>18. /\ Kept(d, n, started) /\ Shown(d) /\ Explained(d, 0)
         /\ d.account = buy.account /\ d.orders = buy.orders
    BY <1>15, <1>16, <1>17, BookedKept DEF d
  <1>19. /\ Kept(c, n, started) /\ c.account.available = d.account.available
         /\ c.account.frozen = d.account.frozen /\ c.ledger = d.ledger
    BY <1>6, <1>18, RevaluedKept
  <1>20. Owned(c)
    BY <1>7, <1>12, <1>14, <1>18, <1>19 DEF Owned
  <1>21. Shown(c) /\ Explained(c, 0)
    BY <1>18, <1>19 DEF Shown, Explained
  <1> QED BY <1>19, <1>20, <1>21 DEF Sound

\* A sale brings cash for shares that can be sold, and leaves what is frozen.
LEMMA SaleApplied ==
    ASSUME NEW n, NEW started \in BOOLEAN, NEW b, Kept(b, n, started), Explained(b, 0),
           Owned(b), NEW i \in DOMAIN b.orders, NEW fill \in Fill, fill.side = "SELL",
           fill.fee.other = 0,
           fill.quantity <= b.position[b.orders[i].symbol].available
                              + b.position[b.orders[i].symbol].locked,
           NEW c, c = Applied(b, i, fill)
    PROVE  Sound(c, n, started)
  <1> DEFINE s == b.orders[i].symbol
             old == b.account
             proceeds == fill.value - fill.fee.commission - fill.fee.tax - fill.fee.other
             earned == fill.value - fill.fee.commission - fill.fee.tax
             available == old.available + proceeds
             p == sold(b.position[s], fill.quantity, fill.price)
             h == b.traded[s]
             m == MoreSold(h, fill.quantity)
             sale == [b EXCEPT
                !.account.available = @ + proceeds,
                !.position[s] = sold(@, fill.quantity, fill.price),
                !.traded[s] = MoreSold(@, fill.quantity)]
             d == Booked(sale, earned)
  <1>1. /\ b \in Book /\ old \in Account /\ b.position \in [Symbols -> Position]
        /\ b.traded \in [Symbols -> History] /\ b.orders[i] \in Order
    BY DEF Kept, Book
  <1>2. s \in Symbols
    BY <1>1 DEF Order
  <1>3. /\ fill.value \in Nat /\ fill.fee.commission \in Nat /\ fill.fee.tax \in Nat
        /\ fill.quantity \in Nat \ {0} /\ fill.price \in Nat
    BY DEF Fill
  <1>4. earned \in Int /\ proceeds = earned
    BY <1>3
  <1>5. old.available \in Int /\ old.frozen \in Int
    BY <1>1 DEF Account
  <1>6. c = Revalued(d)
    BY DEF Applied
  <1> HIDE DEF old
  <1>7. available \in Int /\ available + old.frozen = old.available + old.frozen + earned
    BY <1>4, <1>5
  <1>8. /\ b.position[s] \in Position /\ h \in History
        /\ PositionSound(b.position[s], h, started)
        /\ fill.quantity <= b.position[s].available + b.position[s].locked
    BY <1>1, <1>2 DEF Kept
  <1>9. m = [bought |-> h.bought, sold |-> h.sold + fill.quantity, today |-> h.today]
    <2> DEFINE k == m
    <2>1. k = [h EXCEPT !.sold = @ + fill.quantity]
      BY DEF MoreSold
    <2> HIDE DEF k, h
    <2>2. k = [bought |-> h.bought, sold |-> h.sold + fill.quantity, today |-> h.today]
      BY <1>8, <2>1 DEF History
    <2> QED BY <2>2 DEF k
  <1>10. m \in History /\ p \in Position /\ PositionSound(p, m, started)
    <2>1. p \in Position /\ PositionSound(p, m, started)
      <3> HIDE DEF s, h, m
      <3> QED BY <1>3, <1>8, <1>9, SoldSound
    <2> HIDE DEF h, m
    <2>2. m \in History
      BY <1>3, <1>8, <1>9 DEF History
    <2> QED BY <2>1, <2>2
  <1> DEFINE a == [old EXCEPT !.available = available]
             P == [b.position EXCEPT ![s] = p]
             M == [b.traded EXCEPT ![s] = m]
  <1>11. sale = [b EXCEPT !.account = a, !.position = P, !.traded = M]
    <2> HIDE DEF proceeds, p, m
    <2> QED BY <1>1 DEF Book, Account, old, p, m
  <1>12. a \in Account /\ a.available = available /\ a.frozen = old.frozen
    <2>1. a = [old EXCEPT !.available = available]
      OBVIOUS
    <2> HIDE DEF a, available
    <2> QED BY <1>1, <1>7, <2>1 DEF Account
  <1> HIDE DEF a, sale, d, p, m, s, h
  <1>13. P \in [Symbols -> Position] /\ M \in [Symbols -> History]
    BY <1>1, <1>2, <1>10
  <1> HIDE DEF P, M
  <1>14. /\ sale \in Book /\ sale.account = a /\ sale.position = P /\ sale.traded = M
         /\ sale.orders = b.orders /\ sale.keys = b.keys /\ sale.ledger = b.ledger
    BY <1>1, <1>11, <1>12, <1>13 DEF Book
  <1>15. Kept(sale, n, started)
    <2>1. /\ sale.position = [b.position EXCEPT ![s] = p]
          /\ sale.traded = [b.traded EXCEPT ![s] = m]
      BY <1>14 DEF P, M
    <2> QED BY <1>2, <1>10, <1>14, <2>1, TradeKept
  <1> HIDE DEF earned, proceeds, available
  <1>16. Explained(sale, earned)
    <2>1. b.ledger.cash \in Int /\ old.available + old.frozen = b.ledger.cash + 0
      BY <1>1 DEF Explained, old, Book, Ledger
    <2>2. a.available + a.frozen = b.ledger.cash + earned
      BY <1>4, <1>5, <1>7, <1>12, <2>1
    <2> QED BY <1>14, <2>2 DEF Explained
  <1>17. /\ Kept(d, n, started) /\ Shown(d) /\ Explained(d, 0)
         /\ d.account = sale.account /\ d.orders = sale.orders
    BY <1>4, <1>15, <1>16, BookedKept DEF d
  <1>18. /\ Kept(c, n, started) /\ c.account.available = d.account.available
         /\ c.account.frozen = d.account.frozen /\ c.ledger = d.ledger
         /\ c.orders = d.orders
    BY <1>6, <1>17, RevaluedKept
  <1>19. Owned(c)
    BY <1>12, <1>14, <1>17, <1>18 DEF Owned, old
  <1>20. Shown(c) /\ Explained(c, 0)
    BY <1>17, <1>18 DEF Shown, Explained
  <1> QED BY <1>18, <1>19, <1>20 DEF Sound

----------------------------------------------------------------------------
(* What a market event does to one order.                                  *)

\* Nothing but the cash of the account, its last entry and its orders is asked of it.
LEMMA SameSound ==
    ASSUME NEW n, NEW started, NEW b, Sound(b, n, started), NEW c, Kept(c, n, started),
           c.account.available = b.account.available, c.account.frozen = b.account.frozen,
           c.ledger = b.ledger, c.orders = b.orders
    PROVE  Sound(c, n, started)
  BY DEF Sound, Explained, Shown, Owned

\* The event is remembered with the order.
LEMMA SeenSound ==
    ASSUME NEW n, NEW started \in BOOLEAN, NEW b, Sound(b, n, started),
           NEW i \in DOMAIN b.orders, NEW e \in Events, NEW c,
           c = [b EXCEPT !.keys = @ \cup {<<i, e>>}]
    PROVE  /\ Sound(c, n, started) /\ c.orders = b.orders /\ c.position = b.position
           /\ c.account = b.account
  <1>1. b \in Book /\ b.keys \subseteq (DOMAIN b.orders) \X Events /\ b.orders \in Seq(Order)
    BY DEF Sound, Kept, Book
  <1>2. i \in Nat
    BY <1>1
  <1> DEFINE x == b.keys \cup {<<i, e>>}
  <1>3. x \in SUBSET (Nat \X Events) /\ x \subseteq (DOMAIN b.orders) \X Events
    BY <1>1, <1>2 DEF Book
  <1>4. c = [b EXCEPT !.keys = x]
    BY <1>1 DEF Book
  <1> HIDE DEF x
  <1>5. /\ c \in Book /\ c.keys = x
        /\ c.account = b.account /\ c.ledger = b.ledger /\ c.position = b.position
        /\ c.orders = b.orders /\ c.traded = b.traded /\ c.raised = b.raised
    BY <1>1, <1>3, <1>4 DEF Book
  <1>6. Kept(c, n, started)
    BY <1>3, <1>5 DEF Kept, Sound
  <1> QED BY <1>5, <1>6, SameSound

\* What the matching engine sees of an order is one it can be asked about.
LEMMA MatchedType ==
    ASSUME now \in Nat, NEW o \in Order
    PROVE  /\ matched(o) \in Matchable
           /\ matched(o).side = o.side /\ matched(o).remaining = o.remaining
           /\ Day \in Int
  <1>1. Day \in Int
    BY DEF Day
  <1>2. /\ o.side \in Sides /\ o.type \in OrderTypes /\ o.limit \in Nat
        /\ o.remaining \in Nat
    BY DEF Order
  <1>3. matched(o) = [status |-> "PENDING", side |-> o.side, type |-> o.type,
                      limit |-> o.limit, remaining |-> o.remaining,
                      earliest |-> Day, expiry |-> Day]
    BY DEF matched
  <1>4. matched(o) \in Matchable
    BY <1>1, <1>2, <1>3 DEF Matchable
  <1> QED BY <1>1, <1>3, <1>4

\* An order is matched against a bar, once its event is remembered.
LEMMA ExecutedSound ==
    ASSUME now \in Nat, NEW n, NEW started \in BOOLEAN, NEW b, Sound(b, n, started),
           NEW i \in DOMAIN b.orders, NEW bar \in Bars, NEW e \in Events
    PROVE  Sound(Executed(b, i, bar, e), n, started)
  <1> DEFINE o == b.orders[i]
             pos == b.position[o.symbol]
             cash == b.account.available + b.account.frozen
             shares == pos.available + pos.locked
             result == execute(matched(o), bar, Previous, cash, shares, Day)
             seen == [b EXCEPT !.keys = @ \cup {<<i, e>>}]
             blocked == [seen EXCEPT !.orders[i].status = result.status]
             filled == [blocked EXCEPT !.orders[i].remaining = result.remaining]
             c == Executed(b, i, bar, e)
  <1>1. c = IF result.fill # NoFill
            THEN Applied(filled, i, result.fill)
            ELSE IF result.status \in {"PENDING", "BLOCKED_LIQUIDITY"} THEN seen
            ELSE IF o.side = "BUY" \/ result.status \in {"EXPIRED", "REJECTED"}
            THEN Released(blocked, i)
            ELSE blocked
    BY DEF Executed
  <1>2. /\ b \in Book /\ o \in Order /\ b.account \in Account
        /\ b.position \in [Symbols -> Position]
    BY DEF Sound, Kept, Book
  <1>3. /\ o.symbol \in Symbols /\ o.side \in Sides /\ o.remaining \in Nat
        /\ cash \in Int
    BY <1>2 DEF Order, Account
  <1>4. shares \in Nat
    <2>1. pos \in Position
      BY <1>2, <1>3
    <2> HIDE DEF pos
    <2> QED BY <2>1 DEF Position
  <1>5. /\ matched(o) \in Matchable
        /\ matched(o).side = o.side /\ matched(o).remaining = o.remaining
        /\ Day \in Int
    BY <1>2, MatchedType
  <1>6. bar \in Bar /\ Previous \in Nat
    BY PaperMemoryAssumption
  <1>7. \/ /\ result.fill = NoFill
           /\ result.status \in {"PENDING", "EXPIRED", "BLOCKED_SUSPENSION",
                  "BLOCKED_PRICE_LIMIT", "BLOCKED_LIQUIDITY", "BLOCKED_T1", "REJECTED"}
        \/ /\ result.fill # NoFill
           /\ result.status = IF result.remaining = 0 THEN "FILLED" ELSE "PARTIALLY_FILLED"
           /\ result.fill \in Fill /\ result.fill.side = o.side
           /\ result.fill.value = result.fill.price * result.fill.quantity
           /\ result.fill.fee = calculate(o.side, result.fill.value)
           /\ result.fill.quantity <= o.remaining
           /\ result.remaining = o.remaining - result.fill.quantity
           /\ o.side = "SELL" => result.fill.quantity <= shares
    <2> DEFINE m == matched(o)
    <2> HIDE DEF m, cash, shares
    <2>1. m \in Matchable /\ m.side = o.side
          /\ m.remaining = o.remaining
      BY <1>5 DEF m
    <2>2. result = execute(m, bar, Previous, cash, shares, Day)
      BY DEF m
    <2> HIDE DEF result, o
    <2> QED BY <1>3, <1>4, <1>5, <1>6, <2>1, <2>2, ExecuteType
  <1> HIDE DEF result, c
  <1>8. /\ Sound(seen, n, started) /\ seen.orders = b.orders
        /\ seen.position = b.position /\ seen.account = b.account
    BY SeenSound
  <1>9. CASE result.fill = NoFill
    <2>1. CASE result.status \in {"PENDING", "BLOCKED_LIQUIDITY"}
      BY <1>1, <1>8, <1>9, <2>1 DEF c
    <2>2. CASE result.status \notin {"PENDING", "BLOCKED_LIQUIDITY"}
      <3>1. result.status \in OrderStatus
        BY <1>7, <1>9, <2>2 DEF OrderStatus
      <3> HIDE DEF seen
      <3>2. CASE o.side = "BUY" \/ result.status \in {"EXPIRED", "REJECTED"}
        <4>1. c = Closed(seen, i, result.status)
          BY <1>1, <1>9, <2>2, <3>2 DEF Closed
        <4> QED BY <1>8, <3>1, <4>1, ClosedSound DEF c
      <3>3. CASE ~(o.side = "BUY" \/ result.status \in {"EXPIRED", "REJECTED"})
        <4>1. c = blocked
          BY <1>1, <1>9, <2>2, <3>3
        <4>2. /\ Kept(blocked, n, started) /\ blocked.account = seen.account
              /\ blocked.ledger = seen.ledger /\ DOMAIN blocked.orders = DOMAIN seen.orders
              /\ \A j \in DOMAIN seen.orders : j # i => blocked.orders[j] = seen.orders[j]
          BY <1>8, <3>1, StatusKept DEF Sound
        <4> HIDE DEF blocked
        <4>3. Owned(blocked)
          BY <1>8, <3>3, <4>2, OwnerStays DEF Sound
        <4> QED BY <1>8, <4>1, <4>2, <4>3 DEF Sound, Explained, Shown, c
      <3> QED BY <3>2, <3>3
    <2> QED BY <2>1, <2>2
  <1>10. CASE result.fill # NoFill
    <2> DEFINE fill == result.fill
    <2>1. /\ fill \in Fill /\ fill.side = o.side /\ fill.value \in Nat
          /\ fill.fee = calculate(o.side, fill.value)
          /\ result.remaining \in Nat /\ result.status \in OrderStatus
          /\ (o.side = "SELL" => fill.quantity <= shares)
      <3>1. fill.quantity \in Nat /\ fill.quantity <= o.remaining /\ fill.value \in Nat
        BY <1>7, <1>10 DEF Fill
      <3>2. result.remaining \in Nat
        BY <1>3, <1>7, <1>10, <3>1
      <3>3. result.status \in OrderStatus
        BY <1>7, <1>10 DEF OrderStatus, ActiveOrder
      <3> QED BY <1>7, <1>10, <3>1, <3>2, <3>3
    <2>2. fill.fee.other = 0
      BY <1>3, <2>1, NoOtherFees, PaperMemoryAssumption
    <2> HIDE DEF seen
    <2>3. c = Applied(filled, i, fill)
      BY <1>1, <1>10
    <2> DEFINE to == result.status
               left == result.remaining
    <2>4. /\ Kept(filled, n, started) /\ filled.account = seen.account
          /\ filled.ledger = seen.ledger /\ filled.position = seen.position
          /\ DOMAIN filled.orders = DOMAIN seen.orders
          /\ filled.orders[i].side = o.side /\ filled.orders[i].symbol = o.symbol
          /\ \A j \in DOMAIN seen.orders : j # i => filled.orders[j] = seen.orders[j]
      <3>1. to \in OrderStatus /\ left \in Nat
        BY <2>1
      <3> HIDE DEF result
      <3>2. Kept(seen, n, started) /\ i \in DOMAIN seen.orders
        BY <1>8 DEF Sound
      <3>3. /\ Kept(blocked, n, started) /\ blocked.account = seen.account
            /\ blocked.ledger = seen.ledger /\ blocked.position = seen.position
            /\ DOMAIN blocked.orders = DOMAIN seen.orders
            /\ blocked.orders[i].side = seen.orders[i].side
            /\ blocked.orders[i].symbol = seen.orders[i].symbol
            /\ \A j \in DOMAIN seen.orders : j # i => blocked.orders[j] = seen.orders[j]
        BY <3>1, <3>2, StatusKept
      <3> HIDE DEF blocked
      <3>4. /\ Kept(filled, n, started) /\ filled.account = blocked.account
            /\ filled.ledger = blocked.ledger /\ filled.position = blocked.position
            /\ DOMAIN filled.orders = DOMAIN blocked.orders
            /\ filled.orders[i].side = blocked.orders[i].side
            /\ filled.orders[i].symbol = blocked.orders[i].symbol
            /\ \A j \in DOMAIN blocked.orders : j # i => filled.orders[j] = blocked.orders[j]
        BY <3>1, <3>2, <3>3, LeftKept
      <3> HIDE DEF filled
      <3> QED BY <1>8, <3>3, <3>4
    <2> HIDE DEF filled, fill
    <2>5. Explained(filled, 0)
      BY <1>8, <2>4 DEF Sound, Explained
    <2>6. CASE o.side = "BUY"
      <3> QED BY <1>8, <2>1, <2>2, <2>3, <2>4, <2>5, <2>6, BuyApplied DEF c
    <2>7. CASE o.side = "SELL"
      <3>1. Owned(filled)
        BY <1>8, <2>4, <2>7, OwnerStays DEF Sound
      <3> QED BY <1>8, <2>1, <2>2, <2>3, <2>4, <2>5, <2>7, <3>1, SaleApplied DEF c
    <2> QED BY <1>3, <2>6, <2>7 DEF Sides
  <1> QED BY <1>9, <1>10

\* What the risk recheck approves is a number of shares.
LEMMA DecisionType ==
    ASSUME NEW b \in Book, NEW o \in Order
    PROVE  RiskDecision(b, o).approved \in Nat
  <1> DEFINE a == Snapshot(b, o.symbol)
             pos == b.position[o.symbol]
  <1>1. b.account \in Account /\ pos \in Position
    BY DEF Book, Order
  <1>2. market_value(pos) \in Nat
    <2> HIDE DEF pos
    <2> QED BY <1>1, WorthType
  <1>3. /\ b.account.available \in Int /\ b.account.frozen \in Int /\ b.account.value \in Nat
        /\ Equity(b.account) \in Int
    BY <1>1 DEF Account, Equity
  <1>4. Greater(1, Equity(b.account)) \in Int
    BY <1>3 DEF Greater
  <1>5. /\ a.equity \in Int /\ a.cash \in Int /\ a.symbolValue \in Int
        /\ a.marketValue \in Int /\ a.industryValue = NoIndustry
    BY <1>2, <1>3, <1>4 DEF Snapshot
  <1> HIDE DEF a
  <1>6. evaluate("BUY_WATCH", a, 100, 95).approved \in Nat
    BY <1>5, ApprovedType
  <1> QED BY <1>6 DEF RiskDecision, a

\* An order is rechecked, and closed, left, or made smaller and matched.
LEMMA RecheckedSound ==
    ASSUME now \in Nat, NEW n, NEW started \in BOOLEAN, NEW b, Sound(b, n, started),
           NEW i \in DOMAIN b.orders, b.orders[i].status \in ActiveOrder,
           NEW bar \in Bars, NEW e \in Events
    PROVE  Sound(Rechecked(b, i, bar, e), n, started)
  <1> DEFINE o == b.orders[i]
             decision == RiskDecision(b, o)
             off == [b EXCEPT !.account.status = "RISK_OFF"]
             left == Lesser(o.remaining, decision.approved)
             small == [b EXCEPT !.orders[i].remaining = left]
             raises == [b EXCEPT !.raised = TRUE]
  <1>1. b \in Book /\ o \in Order /\ b.account \in Account /\ Kept(b, n, started)
    BY DEF Sound, Kept, Book
  <1>2. \/ Rechecked(b, i, bar, e) = Closed(b, i, "BLOCKED_RISK")
        \/ Rechecked(b, i, bar, e) = raises
        \/ Rechecked(b, i, bar, e) = Closed(off, i, "BLOCKED_RISK")
        \/ Rechecked(b, i, bar, e) = Executed(small, i, bar, e)
    BY DEF Rechecked
  <1>3. "BLOCKED_RISK" \in OrderStatus
    BY DEF OrderStatus
  <1>4. Sound(Closed(b, i, "BLOCKED_RISK"), n, started)
    BY <1>3, ClosedSound
  <1>5. Sound(raises, n, started)
    <2>1. /\ raises \in Book
          /\ raises.account = b.account /\ raises.ledger = b.ledger
          /\ raises.position = b.position /\ raises.orders = b.orders
          /\ raises.keys = b.keys /\ raises.traded = b.traded
      BY <1>1 DEF Book
    <2> HIDE DEF raises
    <2>2. Kept(raises, n, started)
      BY <1>1, <2>1 DEF Kept
    <2> QED BY <2>1, <2>2, SameSound
  <1>6. Sound(off, n, started) /\ off.orders = b.orders
    <2> DEFINE a == [b.account EXCEPT !.status = "RISK_OFF"]
    <2>1. a \in Account /\ a.available = b.account.available /\ a.frozen = b.account.frozen
      BY <1>1 DEF Account, AccountStatus
    <2>2. off = [b EXCEPT !.account = a]
      BY <1>1 DEF Book
    <2> HIDE DEF a, off
    <2>3. /\ Kept(off, n, started) /\ off.account = a /\ off.ledger = b.ledger
          /\ off.orders = b.orders
      BY <1>1, <2>1, <2>2, AccountKept
    <2> QED BY <2>1, <2>3, SameSound
  <1>7. Sound(Closed(off, i, "BLOCKED_RISK"), n, started)
    <2> HIDE DEF off
    <2> QED BY <1>3, <1>6, ClosedSound
  <1>8. left \in Nat
    <2>1. decision.approved \in Nat /\ o.remaining \in Nat
      BY <1>1, DecisionType DEF Order
    <2> HIDE DEF decision, o
    <2> QED BY <2>1 DEF Lesser
  <1>9. Sound(small, n, started) /\ DOMAIN small.orders = DOMAIN b.orders
    <2> HIDE DEF left
    <2>1. /\ Kept(small, n, started)
          /\ small.account = b.account /\ small.ledger = b.ledger
          /\ DOMAIN small.orders = DOMAIN b.orders
          /\ small.orders[i].side = b.orders[i].side
          /\ small.orders[i].status = b.orders[i].status
          /\ \A j \in DOMAIN b.orders : j # i => small.orders[j] = b.orders[j]
      BY <1>1, <1>8, LeftKept
    <2> HIDE DEF small
    <2>2. Owned(small)
      BY <2>1 DEF Sound, Owned, Buying
    <2> QED BY <2>1, <2>2 DEF Sound, Explained, Shown
  <1>10. Sound(Executed(small, i, bar, e), n, started)
    <2> HIDE DEF small
    <2> QED BY <1>9, ExecutedSound
  <1> QED BY <1>2, <1>4, <1>5, <1>7, <1>10

\* One turn of the loop of process_market_event.
LEMMA MatchedSound ==
    ASSUME now \in Nat, NEW n, NEW started \in BOOLEAN, NEW b, Sound(b, n, started),
           NEW i \in DOMAIN b.orders, NEW s \in Symbols, NEW bar \in Bars, NEW e \in Events
    PROVE  Sound(Matched(b, i, s, bar, e), n, started)
  <1>1. "EXPIRED" \in OrderStatus
    BY DEF OrderStatus
  <1>2. Sound(Closed(b, i, "EXPIRED"), n, started)
    BY <1>1, ClosedSound
  <1>3. Sound(Executed(b, i, bar, e), n, started)
    BY ExecutedSound
  <1>4. b.orders[i].status \in ActiveOrder => Sound(Rechecked(b, i, bar, e), n, started)
    BY RecheckedSound
  <1> QED BY <1>2, <1>3, <1>4 DEF Matched

----------------------------------------------------------------------------
(* Selling, revaluing and releasing.                                       *)

\* An order is added at the end of the book; a buy may use what is frozen.
LEMMA AppendedSound ==
    ASSUME NEW n \in Nat, NEW started \in BOOLEAN, NEW b, Kept(b, n, started),
           Explained(b, 0), Shown(b), NEW o \in Order, Owned(b) \/ Buying(o),
           NEW c, c = [b EXCEPT !.orders = Append(@, o)]
    PROVE  Sound(c, n, started)
  <1> DEFINE x == Append(b.orders, o)
  <1>1. b \in Book /\ b.orders \in Seq(Order) /\ n <= Len(b.orders)
        /\ b.keys \subseteq (DOMAIN b.orders) \X Events
    BY DEF Kept, Book
  <1>2. /\ x \in Seq(Order) /\ Len(x) = Len(b.orders) + 1
        /\ DOMAIN b.orders \subseteq DOMAIN x
        /\ \A j \in DOMAIN b.orders : x[j] = b.orders[j]
        /\ Len(x) \in DOMAIN x /\ x[Len(x)] = o
    BY <1>1
  <1>3. c = [b EXCEPT !.orders = x]
    BY <1>1 DEF Book
  <1> HIDE DEF x
  <1>4. /\ c \in Book /\ c.orders = x /\ c.raised = b.raised
        /\ c.account = b.account /\ c.ledger = b.ledger /\ c.position = b.position
        /\ c.keys = b.keys /\ c.traded = b.traded
    BY <1>1, <1>2, <1>3 DEF Book
  <1>5. n <= Len(x)
    <2>1. Len(b.orders) \in Nat
      BY <1>1
    <2>2. n <= Len(b.orders) + 1
      BY <1>1, <2>1
    <2> QED BY <1>2, <2>2
  <1>6. c.keys \subseteq (DOMAIN c.orders) \X Events
    BY <1>1, <1>2, <1>4
  <1>7. Kept(c, n, started)
    BY <1>4, <1>5, <1>6 DEF Kept
  <1>8. Owned(c)
    BY <1>2, <1>4 DEF Owned
  <1> QED BY <1>4, <1>7, <1>8 DEF Sound, Explained, Shown

\* A new order is one.
LEMMA NewOrderType ==
    ASSUME now \in Nat, NEW s \in Symbols, NEW side \in Sides, NEW type \in OrderTypes,
           NEW limit \in Nat, NEW quantity \in Nat, NEW p \in {0} \cup DOMAIN Proposals,
           NEW k \in Keys \cup {"none"}
    PROVE  NewOrder(s, side, type, limit, quantity, p, k) \in Order
  <1>1. now + OrderTTL \in Nat
    BY PaperMemoryAssumption
  <1>2. "PAPER_PENDING" \in OrderStatus
    BY DEF OrderStatus, ActiveOrder
  <1> QED BY <1>1, <1>2 DEF NewOrder, Order

\* A sell order is placed, and its shares are locked if that many can be sold.
LEMMA SellPlacedSound ==
    ASSUME now \in Nat, NEW n \in Nat, NEW started \in BOOLEAN, NEW b, Sound(b, n, started),
           NEW s \in Symbols, NEW quantity \in Nat, NEW limit \in Nat
    PROVE  Sound(SellPlaced(b, s, quantity, limit), n, started)
  <1> DEFINE p == freeze_for_sell(b.position[s], quantity)
             d == [b EXCEPT !.position[s] = p]
             type == IF limit = NoPrice THEN "MARKET_ON_NEXT_OPEN" ELSE "LIMIT"
             o == NewOrder(s, "SELL", type, limit, quantity, 0, "none")
             locked == IF quantity > b.position[s].available THEN b ELSE Booked(d, 0)
  <1>1. SellPlaced(b, s, quantity, limit) = [locked EXCEPT !.orders = Append(@, o)]
    BY DEF SellPlaced
  <1>2. o \in Order
    <2>1. type \in OrderTypes /\ "SELL" \in Sides
      BY DEF OrderTypes, Sides
    <2> HIDE DEF type
    <2> QED BY <2>1, NewOrderType
  <1>3. b \in Book /\ b.position[s] \in Position /\ b.traded[s] \in History
        /\ PositionSound(b.position[s], b.traded[s], started) /\ Kept(b, n, started)
    BY DEF Sound, Kept, Book
  <1>4. ASSUME ~(quantity > b.position[s].available)
        PROVE  Sound(Booked(d, 0), n, started)
    <2>1. p \in Position /\ PositionSound(p, b.traded[s], started)
      <3>1. b.position[s].available \in Nat
        BY <1>3 DEF Position
      <3>2. quantity <= b.position[s].available
        BY <1>4, <3>1
      <3> QED BY <1>3, <3>2, FreezeSound
    <2> HIDE DEF p
    <2>2. /\ d \in Book /\ d.position = [b.position EXCEPT ![s] = p]
          /\ d.account = b.account /\ d.ledger = b.ledger /\ d.orders = b.orders
          /\ d.keys = b.keys /\ d.traded = b.traded
      BY <1>3, <2>1 DEF Book
    <2> HIDE DEF d
    <2>3. Kept(d, n, started)
      BY <1>3, <2>1, <2>2, PositionKept
    <2>4. Sound(d, n, started)
      BY <2>2, <2>3, SameSound
    <2> DEFINE c == Booked(d, 0)
    <2>5. /\ Kept(c, n, started) /\ Shown(c) /\ Explained(c, 0)
          /\ c.account = d.account /\ c.orders = d.orders
      BY <2>4, BookedKept DEF Sound
    <2> HIDE DEF c
    <2>6. Sound(c, n, started)
      BY <2>4, <2>5 DEF Sound, Owned
    <2> QED BY <2>6 DEF c
  <1>5. Sound(locked, n, started)
    <2> HIDE DEF d
    <2> QED BY <1>4
  <1> HIDE DEF locked, o
  <1> QED BY <1>1, <1>2, <1>5, AppendedSound DEF Sound

\* One turn of the loop of monitor_positions.
LEMMA MonitoredSound ==
    ASSUME now \in Nat, NEW n \in Nat, NEW started \in BOOLEAN, NEW b, Sound(b, n, started),
           NEW s \in Symbols, NEW price \in Nat
    PROVE  Sound(Monitored(b, s, price), n, started)
  <1> DEFINE p == mark(b.position[s], price)
             d == [b EXCEPT !.position[s] = p]
  <1>1. b \in Book /\ b.position[s] \in Position /\ b.traded[s] \in History
        /\ PositionSound(b.position[s], b.traded[s], started) /\ Kept(b, n, started)
    BY DEF Sound, Kept, Book
  <1>2. p \in Position /\ PositionSound(p, b.traded[s], started)
    BY <1>1, MarkSound
  <1>3. Monitored(b, s, price) = b \/ Monitored(b, s, price) = d
        \/ Monitored(b, s, price) = SellPlaced(d, s, d.position[s].available, NoPrice)
    BY DEF Monitored
  <1> HIDE DEF p
  <1>4. /\ d \in Book /\ d.position = [b.position EXCEPT ![s] = p]
        /\ d.account = b.account /\ d.ledger = b.ledger /\ d.orders = b.orders
        /\ d.keys = b.keys /\ d.traded = b.traded
    BY <1>1, <1>2 DEF Book
  <1> HIDE DEF d
  <1>5. Kept(d, n, started)
    BY <1>1, <1>2, <1>4, PositionKept
  <1>6. Sound(d, n, started)
    BY <1>4, <1>5, SameSound
  <1>7. d.position[s].available \in Nat /\ NoPrice \in Nat
    BY <1>4 DEF Book, Position, NoPrice
  <1>8. Sound(SellPlaced(d, s, d.position[s].available, NoPrice), n, started)
    BY <1>6, <1>7, SellPlacedSound
  <1> QED BY <1>3, <1>6, <1>8

\* New positions that are as sound, with an entry that changes no cash.
LEMMA PositionsSound ==
    ASSUME NEW n, NEW b, Sound(b, n, FALSE), NEW started \in BOOLEAN,
           NEW x \in [Symbols -> Position],
           \A s \in Symbols : PositionSound(x[s], b.traded[s], started),
           NEW c, c = [b EXCEPT !.position = x]
    PROVE  Sound(c, n, started)
  <1>1. /\ b \in Book /\ Kept(b, n, FALSE)
    BY DEF Sound, Kept
  <1>2. /\ c \in Book /\ c.position = x
        /\ c.account = b.account /\ c.ledger = b.ledger /\ c.orders = b.orders
        /\ c.keys = b.keys /\ c.traded = b.traded
    BY <1>1, NewPositions
  <1>3. Kept(c, n, started)
    BY <1>1, <1>2 DEF Kept
  <1> QED BY <1>2, <1>3 DEF Sound, Explained, Shown, Owned

\* An entry of nothing.
LEMMA BookedSound ==
    ASSUME NEW n, NEW started \in BOOLEAN, NEW b, Sound(b, n, started), NEW c,
           c = Booked(b, 0)
    PROVE  Sound(c, n, started)
  <1>1. /\ Kept(c, n, started) /\ Shown(c) /\ Explained(c, 0)
        /\ c.account = b.account /\ c.orders = b.orders
    BY BookedKept DEF Sound
  <1> QED BY <1>1 DEF Sound, Owned

\* What a session has not started keeps, asks less than what it keeps.
LEMMA UnstartedSound ==
    ASSUME NEW n, NEW started \in BOOLEAN, NEW b, Sound(b, n, started)
    PROVE  Sound(b, n, FALSE)
  BY DEF Sound, Kept, PositionSound

\* The settlement marks the positions and values the account anew.
LEMMA SettledSound ==
    ASSUME NEW n, NEW started \in BOOLEAN, NEW b, Sound(b, n, started),
           NEW prices \in [Symbols -> Nat]
    PROVE  Sound(Settled(b, prices), n, started)
  <1> DEFINE x == [s \in Symbols |-> IF prices[s] = NoPrice THEN b.position[s]
                                     ELSE mark(b.position[s], prices[s])]
             d == [b EXCEPT !.position = x]
             r == Revalued(d)
  <1>1. b \in Book /\ Kept(b, n, started)
    BY DEF Sound, Kept
  <1>2. ASSUME NEW s \in Symbols
        PROVE  x[s] \in Position /\ PositionSound(x[s], b.traded[s], started)
    <2>1. /\ b.position[s] \in Position /\ b.traded[s] \in History
          /\ PositionSound(b.position[s], b.traded[s], started)
      BY <1>1 DEF Kept, Book
    <2>2. /\ mark(b.position[s], prices[s]) \in Position
          /\ PositionSound(mark(b.position[s], prices[s]), b.traded[s], started)
      BY <2>1, MarkSound
    <2> QED BY <2>1, <2>2
  <1>3. Settled(b, prices) = Booked(r, 0)
    BY <1>1 DEF Settled, Book
  <1>4. x \in [Symbols -> Position]
    BY <1>2
  <1> HIDE DEF x
  <1>5. Sound(d, n, started)
    BY <1>2, <1>4, UnstartedSound, PositionsSound
  <1> HIDE DEF d
  <1>6. /\ Kept(r, n, started) /\ r.account.available = d.account.available
        /\ r.account.frozen = d.account.frozen /\ r.ledger = d.ledger
        /\ r.orders = d.orders
    BY <1>5, RevaluedKept DEF Sound
  <1> HIDE DEF r
  <1>7. Sound(r, n, started)
    BY <1>5, <1>6, SameSound
  <1>8. Sound(Booked(r, 0), n, started)
    BY <1>7, BookedSound
  <1> QED BY <1>3, <1>8

\* Once a session has started, only its own purchases are held back.
LEMMA T1ReleasedSound ==
    ASSUME NEW n, NEW b, Sound(b, n, FALSE)
    PROVE  Sound(T1Released(b), n, TRUE)
  <1> DEFINE x == [s \in Symbols |-> release_t1(b.position[s])]
             d == [b EXCEPT !.position = x]
  <1>1. b \in Book /\ Kept(b, n, FALSE)
    BY DEF Sound, Kept
  <1>2. ASSUME NEW s \in Symbols
        PROVE  /\ b.position[s] \in Position /\ b.traded[s] \in History
               /\ PositionSound(b.position[s], b.traded[s], FALSE)
    BY <1>1 DEF Kept, Book
  <1>3. CASE \A s \in Symbols : b.position[s].today = 0
    <2>1. T1Released(b) = b
      BY <1>3 DEF T1Released
    <2>2. \A s \in Symbols : PositionSound(b.position[s], b.traded[s], TRUE)
      BY <1>2, <1>3 DEF PositionSound, History
    <2>3. Kept(b, n, TRUE)
      BY <1>1, <2>2 DEF Kept
    <2> QED BY <2>1, <2>3 DEF Sound
  <1>4. CASE ~\A s \in Symbols : b.position[s].today = 0
    <2>1. T1Released(b) = Booked(d, 0)
      BY <1>1, <1>4 DEF T1Released, Book
    <2>2. ASSUME NEW s \in Symbols
          PROVE  x[s] \in Position /\ PositionSound(x[s], b.traded[s], TRUE)
      BY <1>2, ReleaseSound
    <2>3. x \in [Symbols -> Position]
      BY <2>2
    <2> HIDE DEF x
    <2>4. Sound(d, n, TRUE)
      BY <2>2, <2>3, PositionsSound
    <2> HIDE DEF d
    <2>5. Sound(Booked(d, 0), n, TRUE)
      BY <2>4, BookedSound
    <2> QED BY <2>1, <2>5
  <1> QED BY <1>3, <1>4

\* Cash is frozen for an order that is not in the book yet.
LEMMA FrozenKept ==
    ASSUME NEW n \in Nat, NEW started \in BOOLEAN, NEW b, Sound(b, n, started),
           NEW freeze \in Nat, NEW a \in Account,
           a.available = b.account.available - freeze,
           a.frozen = b.account.frozen + freeze, NEW d, d = [b EXCEPT !.account = a]
    PROVE  Kept(d, n, started) /\ Explained(d, 0)
  <1>1. /\ Kept(d, n, started) /\ d.account = a /\ d.ledger = b.ledger
    BY AccountKept DEF Sound
  <1>2. /\ b.account.available \in Int /\ b.account.frozen \in Int
        /\ a.available + a.frozen = b.account.available + b.account.frozen
    BY DEF Sound, Kept, Book, Account
  <1>3. Explained(d, 0)
    BY <1>1, <1>2 DEF Sound, Explained
  <1> QED BY <1>1, <1>3

\* The proposal's cash is frozen, and its order may use it.
LEMMA PlacedSound ==
    ASSUME NEW n \in Nat, NEW started \in BOOLEAN, NEW b, Sound(b, n, started),
           NEW freeze \in Nat, NEW a \in Account,
           a.available = b.account.available - freeze,
           a.frozen = b.account.frozen + freeze, NEW o \in Order, Buying(o)
    PROVE  Sound([Booked([b EXCEPT !.account = a], 0) EXCEPT !.orders = Append(@, o)],
                 n, started)
  <1> DEFINE d == [b EXCEPT !.account = a]
             e == Booked(d, 0)
  <1>1. Kept(d, n, started) /\ Explained(d, 0)
    BY FrozenKept
  <1> HIDE DEF d
  <1>2. Kept(e, n, started) /\ Shown(e) /\ Explained(e, 0)
    BY <1>1, BookedKept
  <1> HIDE DEF e
  <1>3. Sound([e EXCEPT !.orders = Append(@, o)], n, started)
    BY <1>2, AppendedSound
  <1> QED BY <1>3 DEF d, e

----------------------------------------------------------------------------
(* The loops: each is a fold of turns, every one of which keeps a sound     *)
(* book sound.  An Iter is the recursion of the fold, over the sets of      *)
(* indices, or of symbols, that it has seen.                                *)

Books(n, started) == {b \in Book : Sound(b, n, started)}

\* An order that was there when a call began is there as long as it works.
LEMMA InBook ==
    ASSUME NEW n \in Nat, NEW started, NEW b, Sound(b, n, started), NEW i \in 1..n
    PROVE  i \in DOMAIN b.orders
  <1>1. b.orders \in Seq(Order) /\ n <= Len(b.orders)
    BY DEF Sound, Kept, Book
  <1>2. DOMAIN b.orders = 1..Len(b.orders) /\ Len(b.orders) \in Nat
    BY <1>1
  <1> QED BY <1>1, <1>2

\* One turn of the loop of _block_symbol_orders.
Blocked(b, i, s) ==
    IF b.orders[i].symbol = s /\ b.orders[i].status \in ActiveOrder
    THEN Closed(b, i, "BLOCKED_STALE_DATA") ELSE b

\* It closes an order or leaves the book alone.
LEMMA BlockedSound ==
    ASSUME NEW n, NEW started \in BOOLEAN, NEW b, Sound(b, n, started),
           NEW i \in DOMAIN b.orders, NEW s
    PROVE  Sound(Blocked(b, i, s), n, started)
  <1>1. "BLOCKED_STALE_DATA" \in OrderStatus
    BY DEF OrderStatus
  <1>2. Sound(Closed(b, i, "BLOCKED_STALE_DATA"), n, started)
    BY <1>1, ClosedSound
  <1> QED BY <1>2 DEF Blocked

\* The loop of process_market_event over the orders of idx.
MatchIter(base, idx, s, bar, e) ==
    CHOOSE iter : iter = [t \in SUBSET DOMAIN idx |->
        IF t = {} THEN base ELSE Matched(iter[t \ {Max(t)}], idx[Max(t)], s, bar, e)]

\* A market event goes through the orders.
LEMMA MatchesSound ==
    ASSUME now \in Nat, NEW n \in Nat, NEW started \in BOOLEAN,
           NEW base, Sound(base, n, started),
           NEW idx \in [1..n -> 1..n], NEW s \in Symbols, NEW bar \in Bars, NEW e \in Events
    PROVE  Sound(MatchIter(base, idx, s, bar, e)[DOMAIN idx], n, started)
  <1> DEFINE S == DOMAIN idx
             V == Books(n, started)
             pick == [t \in SUBSET S |-> Max(t)]
             op == [x \in S \X V |-> Matched(x[2], idx[x[1]], s, bar, e)]
             step(iter) == [t \in SUBSET S |->
               IF t = {} THEN base ELSE Matched(iter[t \ {Max(t)}], idx[Max(t)], s, bar, e)]
  <1>1. base \in V
    BY DEF Books, Sound, Kept
  <1>2. IsFiniteSet(S) /\ Picks(pick, S)
    <2>1. S = 1..n
      OBVIOUS
    <2> HIDE DEF S, pick
    <2>2. pick = [t \in SUBSET (1..n) |-> Max(t)]
      BY <2>1 DEF pick
    <2> QED BY <2>1, <2>2, MaxPicks
  <1>4. \A x \in S, v \in V : Matched(v, idx[x], s, bar, e) \in V
    <2> SUFFICES ASSUME NEW x \in S, NEW v \in V PROVE Matched(v, idx[x], s, bar, e) \in V
      OBVIOUS
    <2>1. Sound(v, n, started)
      BY DEF Books
    <2>2. Sound(Matched(v, idx[x], s, bar, e), n, started)
      <3>1. idx[x] \in DOMAIN v.orders
        BY <2>1, InBook
      <3> QED BY <2>1, <3>1, MatchedSound
    <2> QED BY <2>2 DEF Books, Sound, Kept
  <1>5. op \in [S \X V -> V]
    BY <1>4
  <1>6. PICK g \in [SUBSET S -> V] : Folds(g, S, base, pick, op)
    <2> HIDE DEF S, V, pick, op
    <2> QED BY <1>1, <1>2, <1>5, FoldExists
  <1>7. ASSUME NEW t \in SUBSET S
        PROVE  g[t] = step(g)[t]
    <2>1. CASE t = {}
      BY <2>1, <1>6 DEF Folds
    <2>2. CASE t # {}
      <3> DEFINE x == pick[t]
                 v == g[t \ {x}]
      <3>1. g[t] = op[<<x, v>>]
        BY <2>2, <1>6 DEF Folds
      <3>2. x = Max(t) /\ x \in S /\ v \in V
        BY <2>2, <1>2, <1>6 DEF Picks
      <3> HIDE DEF x, v, S, V
      <3>3. op[<<x, v>>] = Matched(v, idx[x], s, bar, e)
        BY <3>2
      <3> QED BY <2>2, <3>1, <3>2, <3>3 DEF x, v
    <2> QED BY <2>1, <2>2
  <1>8. g = step(g)
    BY <1>7
  <1> DEFINE I == MatchIter(base, idx, s, bar, e)
  <1>9. I = step(I)
    BY <1>8 DEF MatchIter
  <1> DEFINE T == {t \in SUBSET S : I[t] \in V}
  <1>10. ASSUME NEW t \in SUBSET S, \A x \in t : t \ {x} \in T
         PROVE  t \in T
    <2>1. I[t] = step(I)[t]
      BY <1>9
    <2>2. CASE t = {}
      BY <2>1, <2>2, <1>1
    <2>3. CASE t # {}
      <3>1. Max(t) \in t
        BY <2>3, <1>2 DEF Picks
      <3>2. I[t \ {Max(t)}] \in V
        BY <3>1, <1>10
      <3>3. I[t] = Matched(I[t \ {Max(t)}], idx[Max(t)], s, bar, e)
        BY <2>1, <2>3
      <3>4. Max(t) \in S
        BY <3>1
      <3> HIDE DEF I, V, S
      <3>5. I[t] \in V
        BY <3>2, <3>3, <3>4, <1>4
      <3> QED BY <3>5
    <2> QED BY <2>2, <2>3
  <1>11. S \in T
    <2> HIDE DEF T, S
    <2> QED BY <1>2, <1>10, SubsetInduction
  <1> QED BY <1>11 DEF Books

\* The loop of _block_symbol_orders over the orders of idx.
StaleIter(base, idx, s) ==
    CHOOSE iter : iter = [t \in SUBSET DOMAIN idx |->
        IF t = {} THEN base ELSE Blocked(iter[t \ {Max(t)}], idx[Max(t)], s)]

\* Stale data goes through the orders.
LEMMA StaleSound ==
    ASSUME now \in Nat, NEW n \in Nat, NEW started \in BOOLEAN,
           NEW base, Sound(base, n, started),
           NEW idx \in [1..n -> 1..n], NEW s \in Symbols
    PROVE  Sound(StaleIter(base, idx, s)[DOMAIN idx], n, started)
  <1> DEFINE S == DOMAIN idx
             V == Books(n, started)
             pick == [t \in SUBSET S |-> Max(t)]
             op == [x \in S \X V |-> Blocked(x[2], idx[x[1]], s)]
             step(iter) == [t \in SUBSET S |->
               IF t = {} THEN base ELSE Blocked(iter[t \ {Max(t)}], idx[Max(t)], s)]
  <1>1. base \in V
    BY DEF Books, Sound, Kept
  <1>2. IsFiniteSet(S) /\ Picks(pick, S)
    <2>1. S = 1..n
      OBVIOUS
    <2> HIDE DEF S, pick
    <2>2. pick = [t \in SUBSET (1..n) |-> Max(t)]
      BY <2>1 DEF pick
    <2> QED BY <2>1, <2>2, MaxPicks
  <1>4. \A x \in S, v \in V : Blocked(v, idx[x], s) \in V
    <2> SUFFICES ASSUME NEW x \in S, NEW v \in V PROVE Blocked(v, idx[x], s) \in V
      OBVIOUS
    <2>1. Sound(v, n, started)
      BY DEF Books
    <2>2. Sound(Blocked(v, idx[x], s), n, started)
      <3>1. idx[x] \in DOMAIN v.orders
        BY <2>1, InBook
      <3> QED BY <2>1, <3>1, BlockedSound
    <2> QED BY <2>2 DEF Books, Sound, Kept
  <1>5. op \in [S \X V -> V]
    BY <1>4
  <1>6. PICK g \in [SUBSET S -> V] : Folds(g, S, base, pick, op)
    <2> HIDE DEF S, V, pick, op
    <2> QED BY <1>1, <1>2, <1>5, FoldExists
  <1>7. ASSUME NEW t \in SUBSET S
        PROVE  g[t] = step(g)[t]
    <2>1. CASE t = {}
      BY <2>1, <1>6 DEF Folds
    <2>2. CASE t # {}
      <3> DEFINE x == pick[t]
                 v == g[t \ {x}]
      <3>1. g[t] = op[<<x, v>>]
        BY <2>2, <1>6 DEF Folds
      <3>2. x = Max(t) /\ x \in S /\ v \in V
        BY <2>2, <1>2, <1>6 DEF Picks
      <3> HIDE DEF x, v, S, V
      <3>3. op[<<x, v>>] = Blocked(v, idx[x], s)
        BY <3>2
      <3> QED BY <2>2, <3>1, <3>2, <3>3 DEF x, v
    <2> QED BY <2>1, <2>2
  <1>8. g = step(g)
    BY <1>7
  <1> DEFINE I == StaleIter(base, idx, s)
  <1>9. I = step(I)
    BY <1>8 DEF StaleIter
  <1> DEFINE T == {t \in SUBSET S : I[t] \in V}
  <1>10. ASSUME NEW t \in SUBSET S, \A x \in t : t \ {x} \in T
         PROVE  t \in T
    <2>1. I[t] = step(I)[t]
      BY <1>9
    <2>2. CASE t = {}
      BY <2>1, <2>2, <1>1
    <2>3. CASE t # {}
      <3>1. Max(t) \in t
        BY <2>3, <1>2 DEF Picks
      <3>2. I[t \ {Max(t)}] \in V
        BY <3>1, <1>10
      <3>3. I[t] = Blocked(I[t \ {Max(t)}], idx[Max(t)], s)
        BY <2>1, <2>3
      <3>4. Max(t) \in S
        BY <3>1
      <3> HIDE DEF I, V, S
      <3>5. I[t] \in V
        BY <3>2, <3>3, <3>4, <1>4
      <3> QED BY <3>5
    <2> QED BY <2>2, <2>3
  <1>11. S \in T
    <2> HIDE DEF T, S
    <2> QED BY <1>2, <1>10, SubsetInduction
  <1> QED BY <1>11 DEF Books

\* The loop of monitor_positions over the symbols.
MonitorIter(base, prices) ==
    CHOOSE iter : iter = [t \in SUBSET Symbols |->
        IF t = {} THEN base ELSE Visited(iter[t \ {Max(t)}], Max(t), prices)]

\* The monitor goes through the positions.
LEMMA MonitorSound ==
    ASSUME now \in Nat, NEW n \in Nat, NEW started \in BOOLEAN,
           NEW base, Sound(base, n, started),
           NEW prices \in [Symbols -> Nat]
    PROVE  Sound(MonitorIter(base, prices)[Symbols], n, started)
  <1> DEFINE S == Symbols
             V == Books(n, started)
             pick == [t \in SUBSET S |-> Max(t)]
             op == [x \in S \X V |-> Visited(x[2], x[1], prices)]
             step(iter) == [t \in SUBSET S |->
               IF t = {} THEN base ELSE Visited(iter[t \ {Max(t)}], Max(t), prices)]
  <1>1. base \in V
    BY DEF Books, Sound, Kept
  <1>2. IsFiniteSet(S) /\ Picks(pick, S)
    <2>1. IsFiniteSet(S) /\ S \subseteq Int
      BY PaperMemoryAssumption
    <2>2. ASSUME NEW t \in SUBSET S, t # {} PROVE Max(t) \in t
      <3>1. IsFiniteSet(t) /\ t \subseteq Int
        BY <2>1, FS_Subset
      <3> QED BY <2>2, <3>1, MaxIn
    <2> QED BY <2>1, <2>2 DEF Picks
  <1>4. \A x \in S, v \in V : Visited(v, x, prices) \in V
    <2> SUFFICES ASSUME NEW x \in S, NEW v \in V PROVE Visited(v, x, prices) \in V
      OBVIOUS
    <2>1. Sound(v, n, started)
      BY DEF Books
    <2>2. Sound(Monitored(v, x, prices[x]), n, started)
      BY <2>1, MonitoredSound
    <2>3. Sound(Visited(v, x, prices), n, started)
      BY <2>1, <2>2 DEF Visited
    <2> QED BY <2>3 DEF Books, Sound, Kept
  <1>5. op \in [S \X V -> V]
    BY <1>4
  <1>6. PICK g \in [SUBSET S -> V] : Folds(g, S, base, pick, op)
    <2> HIDE DEF S, V, pick, op
    <2> QED BY <1>1, <1>2, <1>5, FoldExists
  <1>7. ASSUME NEW t \in SUBSET S
        PROVE  g[t] = step(g)[t]
    <2>1. CASE t = {}
      BY <2>1, <1>6 DEF Folds
    <2>2. CASE t # {}
      <3> DEFINE x == pick[t]
                 v == g[t \ {x}]
      <3>1. g[t] = op[<<x, v>>]
        BY <2>2, <1>6 DEF Folds
      <3>2. x = Max(t) /\ x \in S /\ v \in V
        BY <2>2, <1>2, <1>6 DEF Picks
      <3> HIDE DEF x, v, S, V
      <3>3. op[<<x, v>>] = Visited(v, x, prices)
        BY <3>2
      <3> QED BY <2>2, <3>1, <3>2, <3>3 DEF x, v
    <2> QED BY <2>1, <2>2
  <1>8. g = step(g)
    BY <1>7
  <1> DEFINE I == MonitorIter(base, prices)
  <1>9. I = step(I)
    BY <1>8 DEF MonitorIter
  <1> DEFINE T == {t \in SUBSET S : I[t] \in V}
  <1>10. ASSUME NEW t \in SUBSET S, \A x \in t : t \ {x} \in T
         PROVE  t \in T
    <2>1. I[t] = step(I)[t]
      BY <1>9
    <2>2. CASE t = {}
      BY <2>1, <2>2, <1>1
    <2>3. CASE t # {}
      <3>1. Max(t) \in t
        BY <2>3, <1>2 DEF Picks
      <3>2. I[t \ {Max(t)}] \in V
        BY <3>1, <1>10
      <3>3. I[t] = Visited(I[t \ {Max(t)}], Max(t), prices)
        BY <2>1, <2>3
      <3>4. Max(t) \in S
        BY <3>1
      <3> HIDE DEF I, V, S
      <3>5. I[t] \in V
        BY <3>2, <3>3, <3>4, <1>4
      <3> QED BY <3>5
    <2> QED BY <2>2, <2>3
  <1>11. S \in T
    <2> HIDE DEF T, S
    <2> QED BY <1>2, <1>10, SubsetInduction
  <1> QED BY <1>11 DEF Books

----------------------------------------------------------------------------
(* The invariant of the service.                                           *)

Started == tasks["SESSION_START"][Day] > 0
Days == 0..(MaxClock \div 2)

\* Between two calls the book is sound, and no session of a later day has been started.
MemorySound ==
    /\ now \in 0..MaxClock
    /\ status \in [DOMAIN Proposals -> DOMAIN ProposalMoves]
    /\ tasks \in [TaskTypes -> [Days -> Nat]]
    /\ Sound(book, 0, Started)
    /\ \A d \in Days : d > Day => tasks["SESSION_START"][d] = 0

\* The clock is in a day of the run.
LEMMA DayType ==
    ASSUME now \in 0..MaxClock
    PROVE  now \in Nat /\ Day \in Days /\ now \div 2 \in Days
  <1>1. MaxClock \in Nat
    BY PaperMemoryAssumption
  <1> QED BY <1>1 DEF Day, Days

\* The parts of the book are the variables.
LEMMA BookParts ==
    ASSUME MemorySound
    PROVE  /\ account \in Account /\ position \in [Symbols -> Position]
           /\ orders \in Seq(Order) /\ keys \subseteq (DOMAIN orders) \X Events
           /\ ledger \in Ledger /\ traded \in [Symbols -> History]
           /\ \A s \in Symbols : PositionSound(position[s], traded[s], Started)
           /\ book \in Book /\ now \in Nat /\ Started \in BOOLEAN
  <1>1. Kept(book, 0, Started)
    BY DEF MemorySound, Sound
  <1>2. now \in Nat
    BY DayType DEF MemorySound
  <1> QED BY <1>1, <1>2 DEF Kept, Book, book, Started

\* What a call leaves is the book of the next one.
LEMMA CommitSound ==
    ASSUME NEW n \in Nat, NEW started \in BOOLEAN, NEW b, Sound(b, n, started), Commit(b)
    PROVE  Sound(book', 0, started)
  <1>1. b \in Book /\ Kept(b, n, started)
    BY DEF Sound, Kept
  <1> DEFINE c == book'
  <1>2. c = [account |-> b.account, position |-> b.position, orders |-> b.orders,
             keys |-> b.keys, ledger |-> b.ledger, traded |-> b.traded, raised |-> FALSE]
    BY DEF book, Commit
  <1> HIDE DEF c
  <1>3. /\ c \in Book /\ c.account = b.account /\ c.position = b.position
        /\ c.orders = b.orders /\ c.keys = b.keys /\ c.ledger = b.ledger
        /\ c.traded = b.traded
    BY <1>1, <1>2 DEF Book
  <1>4. 0 <= Len(c.orders)
    BY <1>1, <1>3 DEF Book
  <1>5. Kept(c, 0, started)
    BY <1>1, <1>3, <1>4 DEF Kept
  <1>6. Sound(c, 0, started)
    BY <1>3, <1>5 DEF Sound, Explained, Shown, Owned
  <1> QED BY <1>6 DEF c

\* A call of the day that leaves a sound book.
LEMMA CallSound ==
    ASSUME MemorySound, NEW n \in Nat, NEW b, Sound(b, n, Started), Commit(b),
           UNCHANGED <<now, tasks>>,
           status' \in [DOMAIN Proposals -> DOMAIN ProposalMoves]
    PROVE  MemorySound'
  <1>1. Started' = Started /\ Day' = Day
    BY DEF Started, Day
  <1>2. Started \in BOOLEAN
    BY DEF Started
  <1>3. Sound(book', 0, Started)
    BY <1>2, CommitSound
  <1> QED BY <1>1, <1>3 DEF MemorySound

\* A book is sound as the beginning of a loop over its orders.
LEMMA LoopBegins ==
    ASSUME MemorySound
    PROVE  /\ Sound(book, Len(orders), Started)
           /\ Len(orders) \in Nat
           /\ [i \in DOMAIN orders |-> i] \in [1..Len(orders) -> 1..Len(orders)]
  <1>1. orders \in Seq(Order) /\ book.orders = orders
    BY BookParts DEF book
  <1>2. Len(orders) \in Nat /\ Len(orders) <= Len(orders) /\ DOMAIN orders = 1..Len(orders)
    BY <1>1
  <1>3. Sound(book, Len(orders), Started)
    BY <1>1, <1>2 DEF MemorySound, Sound, Kept
  <1> QED BY <1>2, <1>3

\* No operation, or one that only changes a proposal's status.
LEMMA StatusSound ==
    ASSUME MemorySound, UNCHANGED <<now, account, position, orders, keys, ledger, tasks, traded>>,
           status' \in [DOMAIN Proposals -> DOMAIN ProposalMoves]
    PROVE  MemorySound'
  <1>1. book' = book /\ Started' = Started /\ Day' = Day
    BY DEF book, Started, Day
  <1> QED BY <1>1 DEF MemorySound

\* The next half day.
LEMMA TickSound ==
    ASSUME MemorySound, Tick
    PROVE  MemorySound'
  <1>1. /\ now \in 0..MaxClock /\ now' = now + 1 /\ now < MaxClock /\ MaxClock \in Nat
        /\ UNCHANGED <<account, position, orders, keys, ledger, status, tasks>>
    BY PaperMemoryAssumption DEF MemorySound, Tick
  <1>2. now' \in 0..MaxClock
    BY <1>1
  <1>3. Day \in Days /\ Day' \in Days /\ Day' >= Day
    <2>1. now \div 2 \in Days /\ (now + 1) \div 2 \in Days
          /\ (now + 1) \div 2 >= now \div 2
      BY <1>1 DEF Days
    <2> QED BY <1>1, <2>1 DEF Day
  <1>4. \A d \in Days : d > Day' => tasks'["SESSION_START"][d] = 0
    BY <1>1, <1>3 DEF MemorySound, Days
  <1>5. CASE Day' = Day
    <2>1. traded' = traded
      BY <1>5 DEF Tick, Day
    <2>2. book' = book /\ Started' = Started
      BY <1>1, <1>5, <2>1 DEF book, Started
    <2> QED BY <1>1, <1>2, <1>4, <2>2 DEF MemorySound
  <1>6. CASE Day' # Day
    <2>1. traded' = [s \in Symbols |-> [traded[s] EXCEPT !.today = 0]]
      BY <1>6 DEF Tick, Day
    <2>2. Started' = FALSE
      <3>1. Day' > Day
        BY <1>3, <1>6 DEF Days
      <3>2. tasks["SESSION_START"][Day'] = 0
        BY <1>3, <3>1 DEF MemorySound
      <3> QED BY <1>1, <3>2 DEF Started
    <2>3. ASSUME NEW s \in Symbols
          PROVE  traded'[s] \in History /\ PositionSound(position[s], traded'[s], FALSE)
      <3> DEFINE h == traded[s]
                 k == traded'[s]
      <3>1. h \in History /\ PositionSound(position[s], h, Started)
        BY BookParts
      <3>2. k = [h EXCEPT !.today = 0]
        BY <2>1
      <3> HIDE DEF h, k
      <3>3. k = [bought |-> h.bought, sold |-> h.sold, today |-> 0]
        BY <3>1, <3>2 DEF History
      <3>4. k \in History /\ PositionSound(position[s], k, FALSE)
        BY <3>1, <3>3 DEF History, PositionSound
      <3> QED BY <3>4 DEF k
    <2>4. traded' \in [Symbols -> History]
      BY <2>1, <2>3
    <2> DEFINE c == book'
    <2>5. /\ c = [account |-> account, position |-> position, orders |-> orders,
                  keys |-> keys, ledger |-> ledger, traded |-> traded', raised |-> FALSE]
          /\ book = [account |-> account, position |-> position, orders |-> orders,
                     keys |-> keys, ledger |-> ledger, traded |-> traded, raised |-> FALSE]
      BY <1>1 DEF book
    <2> HIDE DEF c
    <2>6. /\ c \in Book /\ c.account = book.account /\ c.position = position
          /\ c.orders = book.orders /\ c.keys = book.keys /\ c.ledger = book.ledger
          /\ c.traded = traded'
      BY <2>4, <2>5, BookParts DEF Book
    <2>7. Kept(c, 0, FALSE)
      BY <2>3, <2>6 DEF Kept, MemorySound, Sound
    <2>8. Sound(c, 0, FALSE)
      BY <2>6, <2>7 DEF MemorySound, Sound, Explained, Shown, Owned
    <2> QED BY <1>1, <1>2, <1>4, <2>2, <2>8 DEF MemorySound, c
  <1> QED BY <1>5, <1>6

\* An accepted proposal.
LEMMA AcceptSound ==
    ASSUME MemorySound, NEW p \in DOMAIN Proposals, NEW k \in Keys, AcceptProposal(p, k)
    PROVE  MemorySound'
  <1> DEFINE worst == Proposals[p].reference * Proposals[p].quantity * 103
             freeze == quantize(worst, 100)
             available == account.available - freeze
             frozen == account.frozen + freeze
             a == [account EXCEPT !.available = available, !.frozen = frozen]
             o == NewOrder(Proposals[p].symbol, "BUY", "MARKET_ON_NEXT_OPEN", NoPrice,
                           Proposals[p].quantity, p, k)
             placed == [Booked([book EXCEPT !.account = a], 0) EXCEPT !.orders = Append(@, o)]
  <1>1. /\ Proposals[p].symbol \in Symbols /\ Proposals[p].quantity \in Nat
        /\ Proposals[p].reference \in Nat
    <2> DEFINE R == [symbol : Symbols, quantity : Nat \ {0}, reference : Nat, expires : Nat]
               proposal == Proposals[p]
    <2>1. Proposals \in Seq(R)
      BY PaperMemoryAssumption
    <2> HIDE DEF R
    <2>2. proposal \in R
      BY <2>1
    <2> HIDE DEF proposal
    <2>3. proposal.symbol \in Symbols /\ proposal.quantity \in Nat /\ proposal.reference \in Nat
      BY <2>2 DEF R
    <2> QED BY <2>3 DEF proposal
  <1>2. freeze \in Nat
    <2>1. Proposals[p].reference * Proposals[p].quantity \in Nat
      BY <1>1
    <2>2. worst \in Nat
      BY <2>1
    <2> HIDE DEF worst
    <2> QED BY <2>2, QuantizeType
  <1>3. account \in Account /\ book.account = account /\ book \in Book
    BY BookParts DEF book
  <1>4. Commit(placed)
    <2> DEFINE d == [book EXCEPT !.account.available = @ - freeze,
                                 !.account.frozen = @ + freeze]
    <2>1. d = [book EXCEPT !.account = a]
      <3> HIDE DEF freeze
      <3> QED BY <1>3 DEF Book, Account
    <2>2. Commit([Booked(d, 0) EXCEPT !.orders = Append(@, o)])
      BY DEF AcceptProposal
    <2> HIDE DEF d, a, o
    <2> QED BY <2>1, <2>2
  <1> HIDE DEF freeze
  <1>5. a \in Account /\ a.available = book.account.available - freeze
        /\ a.frozen = book.account.frozen + freeze
    <2>1. account.available \in Int /\ account.frozen \in Int
      BY <1>3 DEF Account
    <2>2. available \in Int /\ frozen \in Int
      BY <1>2, <2>1
    <2>3. a = [account EXCEPT !.available = available, !.frozen = frozen]
      OBVIOUS
    <2> HIDE DEF a
    <2> QED BY <1>3, <2>2, <2>3 DEF Account
  <1>6. o \in Order /\ Buying(o)
    <2>1. /\ "BUY" \in Sides /\ "MARKET_ON_NEXT_OPEN" \in OrderTypes /\ NoPrice \in Nat
          /\ "PAPER_PENDING" \in ActiveOrder
      BY DEF Sides, OrderTypes, NoPrice, ActiveOrder
    <2>2. o \in Order
      BY <1>1, <2>1, BookParts, NewOrderType
    <2> QED BY <2>1, <2>2 DEF Buying, NewOrder
  <1> HIDE DEF a, o
  <1>7. Sound(placed, 0, Started)
    BY <1>2, <1>5, <1>6, BookParts, PlacedSound DEF MemorySound
  <1>8. status' \in [DOMAIN Proposals -> DOMAIN ProposalMoves]
    BY DEF AcceptProposal, MemorySound, ProposalMoves
  <1>9. UNCHANGED <<now, tasks>>
    BY DEF AcceptProposal
  <1> HIDE DEF placed
  <1> QED BY <1>4, <1>7, <1>8, <1>9, CallSound

\* A market event with data of the day.
LEMMA EventSound ==
    ASSUME MemorySound, NEW s \in Symbols, NEW bar \in Bars, NEW e \in Events,
           ProcessMarketEvent(s, bar, e)
    PROVE  MemorySound'
  <1> DEFINE idx == [i \in DOMAIN orders |-> i]
             b == MatchIter(book, idx, s, bar, e)[DOMAIN idx]
  <1>1. Commit(b)
    BY DEF ProcessMarketEvent, FoldLeft, MapThenFoldSet, MatchIter
  <1>2. /\ Sound(book, Len(orders), Started) /\ Len(orders) \in Nat
        /\ idx \in [1..Len(orders) -> 1..Len(orders)] /\ now \in Nat /\ Started \in BOOLEAN
    BY LoopBegins, BookParts
  <1> HIDE DEF idx
  <1>3. Sound(b, Len(orders), Started)
    BY <1>2, MatchesSound
  <1> HIDE DEF b
  <1>4. UNCHANGED <<now, tasks, status>>
    BY DEF ProcessMarketEvent
  <1> QED BY <1>1, <1>2, <1>3, <1>4, CallSound DEF MemorySound

\* One with data of another day.
LEMMA StaleEventSound ==
    ASSUME MemorySound, NEW s \in Symbols, StaleMarketEvent(s)
    PROVE  MemorySound'
  <1> DEFINE idx == [i \in DOMAIN orders |-> i]
             b == StaleIter(book, idx, s)[DOMAIN idx]
  <1>1. Commit(b)
    BY DEF StaleMarketEvent, FoldLeft, MapThenFoldSet, StaleIter, Blocked
  <1>2. /\ Sound(book, Len(orders), Started) /\ Len(orders) \in Nat
        /\ idx \in [1..Len(orders) -> 1..Len(orders)] /\ now \in Nat /\ Started \in BOOLEAN
    BY LoopBegins, BookParts
  <1> HIDE DEF idx
  <1>3. Sound(b, Len(orders), Started)
    BY <1>2, StaleSound
  <1> HIDE DEF b
  <1>4. UNCHANGED <<now, tasks, status>>
    BY DEF StaleMarketEvent
  <1> QED BY <1>1, <1>2, <1>3, <1>4, CallSound DEF MemorySound

\* The prices of monitor_positions and of the settlement.
LEMMA PricesType ==
    ASSUME NEW prices \in [Symbols -> Marks]
    PROVE  prices \in [Symbols -> Nat]
  BY PaperMemoryAssumption

\* The monitor's prices of a moment.
LEMMA MonitorPositionsSound ==
    ASSUME MemorySound, NEW prices \in [Symbols -> Marks], MonitorPositions(prices)
    PROVE  MemorySound'
  <1> DEFINE b == MonitorIter(book, prices)[Symbols]
  <1>1. Commit(b)
    BY DEF MonitorPositions, MapThenFoldSet, MonitorIter
  <1>2. Sound(book, 0, Started) /\ now \in Nat /\ Started \in BOOLEAN
    BY BookParts DEF MemorySound
  <1>3. Sound(b, 0, Started)
    BY <1>2, PricesType, MonitorSound
  <1> HIDE DEF b
  <1>4. UNCHANGED <<now, tasks, status>>
    BY DEF MonitorPositions
  <1> QED BY <1>1, <1>3, <1>4, CallSound DEF MemorySound

\* A scheduled task: it is marked as run, and does its work.
LEMMA TaskSound ==
    ASSUME MemorySound, NEW t \in TaskTypes, NEW retry, RunTask(t, retry)
    PROVE  MemorySound'
  <1>1. /\ Sound(book, 0, Started) /\ Sound(book, 0, FALSE) /\ Started \in BOOLEAN
        /\ Day \in Days /\ now \in 0..MaxClock
    BY BookParts, UnstartedSound, DayType DEF MemorySound
  <1>2. UNCHANGED <<now, status>> /\ Day' = Day
    BY DEF RunTask, Day
  <1>3. /\ tasks \in [TaskTypes -> [Days -> Nat]] /\ "SESSION_START" \in TaskTypes
        /\ tasks' = [tasks EXCEPT ![t][Day] = @ + 1]
    BY DEF RunTask, MemorySound, TaskTypes
  <1>4. tasks' \in [TaskTypes -> [Days -> Nat]]
        /\ \A d \in Days : d # Day => tasks'["SESSION_START"][d] = tasks["SESSION_START"][d]
    BY <1>1, <1>3
  <1>5. \A d \in Days : d > Day => tasks'["SESSION_START"][d] = 0
    BY <1>1, <1>4 DEF MemorySound, Days
  <1>6. Sound(book', 0, Started')
    <2>1. CASE t = "SESSION_START"
      <3>1. Commit(T1Released(book))
        BY <2>1 DEF RunTask
      <3>2. Started' = TRUE
        <4>1. tasks'["SESSION_START"][Day] = tasks["SESSION_START"][Day] + 1
          BY <1>1, <1>3, <2>1
        <4>2. tasks["SESSION_START"][Day] \in Nat
          BY <1>1, <1>3
        <4> QED BY <1>2, <4>1, <4>2 DEF Started
      <3>3. Sound(T1Released(book), 0, TRUE)
        BY <1>1, T1ReleasedSound
      <3>4. Sound(book', 0, TRUE)
        <4> DEFINE b == T1Released(book)
        <4> HIDE DEF b
        <4>1. Commit(b) /\ Sound(b, 0, TRUE)
          BY <3>1, <3>3 DEF b
        <4> QED BY <4>1, CommitSound
      <3> QED BY <3>2, <3>4
    <2>2. CASE t = "DAILY_REPORT"
      <3> DEFINE prices == [s \in Symbols |-> NoPrice]
                 b == Settled(book, prices)
      <3>1. Commit(b)
        BY <2>2 DEF RunTask
      <3>2. Started' = Started
        BY <1>1, <1>2, <1>3, <2>2 DEF Started
      <3>3. prices \in [Symbols -> Nat]
        BY DEF NoPrice
      <3> HIDE DEF prices
      <3>4. Sound(b, 0, Started)
        BY <1>1, <3>3, SettledSound
      <3> HIDE DEF b
      <3>5. Sound(book', 0, Started)
        BY <1>1, <3>1, <3>4, CommitSound
      <3> QED BY <3>2, <3>5
    <2> QED BY <2>1, <2>2 DEF TaskTypes
  <1> QED BY <1>1, <1>2, <1>4, <1>5, <1>6 DEF MemorySound

\* A new account holds its cash, and nothing else.
LEMMA MemoryBegins == Init => MemorySound
  <1> SUFFICES ASSUME Init PROVE MemorySound
    OBVIOUS
  <1> DEFINE noOrders == <<>>
             nothing == [total |-> 0, available |-> 0, today |-> 0, locked |-> 0,
                         average |-> 0, last |-> 0]
             noTrades == [bought |-> 0, sold |-> 0, today |-> 0]
             noRuns == [d \in Days |-> 0]
  <1>1. InitialCash \in Nat /\ MaxClock \in Nat /\ now = 0 /\ now \in 0..MaxClock
    BY PaperMemoryAssumption DEF Init
  <1>2. account \in Account /\ account.available = InitialCash /\ account.frozen = 0
    BY <1>1 DEF Init, Account, AccountStatus
  <1>3. ledger \in Ledger /\ ledger.cash = InitialCash /\ ledger.available = InitialCash
        /\ ledger.frozen = 0
    BY <1>1 DEF Init, Ledger
  <1>4. position \in [Symbols -> Position] /\ \A s \in Symbols : position[s] = nothing
    <2>1. nothing \in Position
      BY DEF Position
    <2> QED BY <2>1 DEF Init
  <1>5. traded \in [Symbols -> History] /\ \A s \in Symbols : traded[s] = noTrades
    <2>1. noTrades \in History
      BY DEF History
    <2> QED BY <2>1 DEF Init
  <1>6. orders = noOrders /\ noOrders \in Seq(Order) /\ Len(noOrders) = 0
    BY DEF Init
  <1>7. keys = {}
    BY DEF Init
  <1>8. status \in [DOMAIN Proposals -> DOMAIN ProposalMoves]
    BY DEF Init, ProposalMoves
  <1>9. tasks \in [TaskTypes -> [Days -> Nat]] /\ \A t \in TaskTypes : tasks[t] = noRuns
    <2>1. noRuns \in [Days -> Nat]
      OBVIOUS
    <2> QED BY <2>1 DEF Init, Days
  <1>10. \A d \in Days : tasks["SESSION_START"][d] = 0
    BY <1>9 DEF TaskTypes
  <1>11. Started = FALSE
    <2>1. Day \in Days
      BY <1>1, DayType
    <2>2. tasks["SESSION_START"][Day] = 0
      BY <1>10, <2>1
    <2> QED BY <2>2 DEF Started
  <1>12. \A s \in Symbols : PositionSound(position[s], traded[s], FALSE)
    BY <1>4, <1>5 DEF PositionSound
  <1> HIDE DEF noOrders
  <1> DEFINE b == book
  <1>13. b = [account |-> account, position |-> position, orders |-> orders,
              keys |-> keys, ledger |-> ledger, traded |-> traded, raised |-> FALSE]
    BY DEF book
  <1> HIDE DEF b, nothing, noTrades, noRuns
  <1>14. /\ b \in Book /\ b.account = account /\ b.position = position
         /\ b.orders = orders /\ b.keys = {} /\ b.ledger = ledger
         /\ b.traded = traded
    BY <1>2, <1>3, <1>4, <1>5, <1>6, <1>7, <1>13 DEF Book
  <1>15. Kept(b, 0, FALSE)
    <2>1. 0 <= Len(b.orders)
      BY <1>6, <1>14
    <2>2. b.keys \subseteq (DOMAIN b.orders) \X Events
      BY <1>14
    <2>3. \A s \in Symbols : PositionSound(b.position[s], b.traded[s], FALSE)
      BY <1>12, <1>14
    <2> QED BY <1>14, <2>1, <2>2, <2>3 DEF Kept
  <1>16. Explained(b, 0) /\ Shown(b) /\ Owned(b)
    BY <1>1, <1>2, <1>3, <1>14 DEF Explained, Shown, Owned
  <1> QED BY <1>1, <1>8, <1>9, <1>10, <1>11, <1>15, <1>16 DEF MemorySound, Sound, b

\* Every operation, the clock and rest keep the invariant.
LEMMA MemoryStays == MemorySound /\ [Next]_vars => MemorySound'
  <1> SUFFICES ASSUME MemorySound, [Next]_vars PROVE MemorySound'
    OBVIOUS
  <1>1. ASSUME NEW p \in DOMAIN Proposals, NEW to \in {"REVIEWED", "REJECTED", "CANCELLED"},
               TransitionProposal(p, to)
        PROVE  MemorySound'
    <2>1. status' \in [DOMAIN Proposals -> DOMAIN ProposalMoves]
      BY <1>1 DEF TransitionProposal, MemorySound, ProposalMoves
    <2> QED BY <1>1, <2>1, StatusSound DEF TransitionProposal
  <1>2. ASSUME NEW p \in DOMAIN Proposals, AcceptExpired(p)
        PROVE  MemorySound'
    <2>1. status' \in [DOMAIN Proposals -> DOMAIN ProposalMoves]
      BY <1>2 DEF AcceptExpired, MemorySound, ProposalMoves
    <2> QED BY <1>2, <2>1, StatusSound DEF AcceptExpired
  <1>3. ASSUME NEW s \in Symbols, NEW l \in Limits, NEW q \in SellQuantities,
               CreateSellOrder(s, q, l)
        PROVE  MemorySound'
    <2>1. l \in Nat /\ q \in Nat
      BY PaperMemoryAssumption
    <2>2. Sound(book, 0, Started) /\ now \in Nat /\ Started \in BOOLEAN
      BY BookParts DEF MemorySound
    <2> DEFINE b == SellPlaced(book, s, q, l)
    <2>3. Sound(b, 0, Started)
      BY <2>1, <2>2, SellPlacedSound
    <2>4. Commit(b) /\ UNCHANGED <<now, status, tasks>>
      BY <1>3 DEF CreateSellOrder
    <2> HIDE DEF b
    <2> QED BY <2>3, <2>4, CallSound DEF MemorySound
  <1>4. ASSUME NEW prices \in [Symbols -> Marks], DailySettlement(prices)
        PROVE  MemorySound'
    <2>1. Sound(book, 0, Started) /\ Started \in BOOLEAN
      BY BookParts DEF MemorySound
    <2> DEFINE b == Settled(book, prices)
    <2>2. Sound(b, 0, Started)
      BY <2>1, PricesType, SettledSound
    <2>3. Commit(b) /\ UNCHANGED <<now, status, tasks>>
      BY <1>4 DEF DailySettlement
    <2> HIDE DEF b
    <2> QED BY <2>2, <2>3, CallSound DEF MemorySound
  <1>5. CASE Rest \/ UNCHANGED vars
    <2>1. UNCHANGED <<now, account, position, orders, keys, ledger, tasks, traded, status>>
      BY <1>5 DEF Rest, vars
    <2>2. status' \in [DOMAIN Proposals -> DOMAIN ProposalMoves]
      BY <2>1 DEF MemorySound
    <2> QED BY <2>1, <2>2, StatusSound
  <1>6. CASE Operation
    BY <1>1, <1>2, <1>3, <1>4, <1>6, AcceptSound, EventSound, StaleEventSound,
       MonitorPositionsSound, TaskSound DEF Operation
  <1> QED BY <1>5, <1>6, TickSound DEF Next, Call

\* The invariant holds in every state the service can reach.
THEOREM MemoryInvariant == Spec => []MemorySound
  BY MemoryBegins, MemoryStays, PTL DEF Spec

----------------------------------------------------------------------------
(* What follows from it.                                                   *)

\* Positions are whole: no bucket is ever negative and no share is lost between buying,
\* locking and selling it, though a call that raises keeps what it did.
THEOREM PositionsAlwaysKept == Spec => []PositionsKept
  <1>1. MemorySound => PositionsKept
    <2> SUFFICES ASSUME MemorySound PROVE PositionsKept
      OBVIOUS
    <2>1. TypeOK
      BY BookParts DEF MemorySound, TypeOK, Days, History
    <2>2. SharesInBuckets
      BY BookParts DEF SharesInBuckets, PositionSound
    <2> QED BY <2>1, <2>2 DEF PositionsKept
  <1> QED BY <1>1, MemoryInvariant, PTL

\* The cash is what the ledger explains, and its last entry shows the balances as they
\* are: what overlapping orders freeze and release makes no money and loses none.
THEOREM LedgerAlwaysExplains == Spec => []LedgerExplainsCash
  <1>1. MemorySound => LedgerExplainsCash
    <2> SUFFICES ASSUME MemorySound PROVE LedgerExplainsCash
      OBVIOUS
    <2>1. /\ account.available + account.frozen = ledger.cash + 0
          /\ ledger.available = account.available /\ ledger.frozen = account.frozen
      BY DEF MemorySound, Sound, Explained, Shown, book
    <2>2. ledger.cash \in Int
      BY BookParts DEF Ledger
    <2> QED BY <2>1, <2>2 DEF LedgerExplainsCash
  <1> QED BY <1>1, MemoryInvariant, PTL

\* Cash is frozen only while an active buy may use it, though closing any buy gives
\* back all that is frozen.
THEOREM FrozenCashAlwaysHasOrder == Spec => []FrozenCashHasOrder
  <1>1. MemorySound => FrozenCashHasOrder
    BY DEF MemorySound, Sound, Owned, Buying, Live, book, FrozenCashHasOrder
  <1> QED BY <1>1, MemoryInvariant, PTL

\* A session that has been started holds back no more than its own purchases: SUCCESS
\* is recorded before the shares are released, and no state shows the one without the other.
THEOREM SessionsAlwaysReleased == Spec => []StartedSessionReleased
  <1>1. MemorySound => StartedSessionReleased
    BY BookParts DEF StartedSessionReleased, PositionSound, Started
  <1> QED BY <1>1, MemoryInvariant, PTL
=============================================================================
