----------------------------- MODULE FeedProofs -----------------------------
(***************************************************************************)
(* Proofs about the quote feed and the admission of a provider.  The feed   *)
(* comes first; the admission takes only steps of the feed (theorem         *)
(* AdmissionRunsFeed), so what is shown of the feed holds there too.        *)
(***************************************************************************)
EXTENDS ShadowAdmission, SetFolds, SequenceTheorems, TLAPS

(* Saving a batch, one quote after the other.                              *)

\* The rows of one provider and symbol that count as valid, in order.
InOrder(rows) ==
    \A i, j \in DOMAIN rows :
        /\ i < j /\ rows[i].provider = rows[j].provider
        /\ rows[i].symbol = rows[j].symbol
        /\ rows[i].quality = "VALID" /\ rows[j].quality = "VALID"
        => rows[i].time <= rows[j].time

\* The table with more rows behind the ones it has.
Extends(rows) ==
    /\ rows \in Seq(QuoteSnapshot) /\ InOrder(rows)
    /\ Len(quotes) <= Len(rows)
    /\ \A i \in 1..Len(quotes) : rows[i] = quotes[i]

\* The rows behind the table's are those of one provider.
AddedBy(p, rows) == \A i \in 1..Len(rows) : Len(quotes) < i => rows[i].provider = p

\* What a batch of a provider that is being saved has done so far.
Saving(p) ==
    {acc \in [rows : Seq(QuoteSnapshot),
              files : SUBSET (files \cup {FileOf(s) : s \in QuoteSnapshot}),
              invalid : Nat, duplicate : Nat, late : Nat, clash : BOOLEAN] :
        Extends(acc.rows) /\ AddedBy(p, acc.rows)}

\* Instants are the numbers from one on.
LEMMA InstantsAreNumbers ==
    Len(DayOf) \in Nat \ {0} /\ Instants = 1..Len(DayOf) /\ Instants \subseteq Nat \ {0}
  BY FeedAssumption DEF Instants

\* A row that is not late may stand behind the others.
LEMMA OneMoreRow ==
    ASSUME NEW rows, Extends(rows), NEW s \in QuoteSnapshot,
           s.quality = "VALID" => ~is_out_of_order(rows, s),
           quotes \in Seq(QuoteSnapshot)
    PROVE  Extends(Append(rows, s))
  <1> DEFINE n == Len(rows)
             more == Append(rows, s)
  <1>1. /\ rows \in Seq(QuoteSnapshot) /\ n \in Nat /\ Len(quotes) \in Nat
        /\ DOMAIN rows = 1..n /\ Len(quotes) <= n
    BY DEF Extends
  <1>2. /\ more \in Seq(QuoteSnapshot) /\ Len(more) = n + 1 /\ DOMAIN more = 1..(n + 1)
        /\ more[n + 1] = s /\ \A i \in 1..n : more[i] = rows[i]
    BY <1>1
  <1> HIDE DEF more
  <1>3. s.time \in Nat /\ \A i \in 1..n : rows[i].time \in Nat
    <2>1. Instants \subseteq Nat
      BY InstantsAreNumbers
    <2>2. \A q \in QuoteSnapshot : q.time \in Nat
      BY <2>1 DEF QuoteSnapshot
    <2> QED BY <1>1, <2>2
  <1>4. InOrder(more)
    <2> SUFFICES ASSUME NEW i \in 1..(n + 1), NEW j \in 1..(n + 1), i < j,
                        more[i].provider = more[j].provider,
                        more[i].symbol = more[j].symbol,
                        more[i].quality = "VALID", more[j].quality = "VALID"
                 PROVE  more[i].time <= more[j].time
      BY <1>2 DEF InOrder
    <2>1. i \in 1..n
      BY <1>1
    <2>2. CASE j \in 1..n
      BY <1>1, <1>2, <2>1, <2>2 DEF Extends, InOrder
    <2>3. CASE j = n + 1
      <3>1. more[j] = s /\ more[i] = rows[i]
        BY <1>2, <2>1, <2>3
      <3>2. ~(rows[i].time > s.time)
        BY <1>1, <2>1, <3>1 DEF is_out_of_order
      <3> QED BY <1>3, <2>1, <3>1, <3>2
    <2> QED BY <1>1, <2>2, <2>3
  <1> QED
    BY <1>1, <1>2, <1>4 DEF Extends, more

\* Saving one quote more keeps what was saved.
LEMMA SaveOneExtends ==
    ASSUME quotes \in Seq(QuoteSnapshot), recording \in BOOLEAN, NEW p,
           NEW acc \in Saving(p), NEW s \in QuoteSnapshot, s.provider = p
    PROVE  SaveOne(acc, s) \in Saving(p)
  <1> DEFINE isLate == is_out_of_order(acc.rows, s)
             marked == IF isLate THEN [s EXCEPT !.quality = "OUT_OF_ORDER"] ELSE s
             rows == save_quote_snapshot(acc.rows, marked)
  <1>1. marked \in QuoteSnapshot /\ marked.provider = p
    BY DEF QuoteSnapshot, Qualities
  <1>2. marked.quality = "VALID" => ~isLate /\ marked = s
    BY DEF QuoteSnapshot
  <1>3. Extends(acc.rows) /\ AddedBy(p, acc.rows)
    BY DEF Saving
  <1>4. Extends(Append(acc.rows, marked))
    <2> HIDE DEF marked
    <2> QED BY <1>1, <1>2, <1>3, OneMoreRow
  <1>5. Extends(rows) /\ rows \in Seq(QuoteSnapshot) /\ AddedBy(p, rows)
    <2>1. rows = acc.rows \/ rows = Append(acc.rows, marked)
      BY DEF save_quote_snapshot
    <2> HIDE DEF marked, rows
    <2>2. AddedBy(p, Append(acc.rows, marked))
      <3>1. acc.rows \in Seq(QuoteSnapshot) /\ Len(acc.rows) \in Nat
        BY <1>3 DEF Extends
      <3>2. ASSUME NEW i \in 1..Len(Append(acc.rows, marked)), Len(quotes) < i
            PROVE  Append(acc.rows, marked)[i].provider = p
        <4>1. CASE i = Len(acc.rows) + 1
          BY <1>1, <3>1, <4>1
        <4>2. CASE i \in 1..Len(acc.rows)
          <5>1. Append(acc.rows, marked)[i] = acc.rows[i]
            BY <1>1, <3>1, <4>2
          <5> QED BY <1>3, <3>2, <4>2, <5>1 DEF AddedBy
        <4> QED BY <1>1, <3>1, <4>1, <4>2
      <3> QED BY <3>2 DEF AddedBy
    <2> QED BY <1>3, <1>4, <2>1, <2>2 DEF Extends
  <1> DEFINE out == [rows |-> rows,
         files |-> IF recording THEN acc.files \cup {FileOf(s)} ELSE acc.files,
         invalid |-> acc.invalid + (IF marked.quality = "VALID" THEN 0 ELSE 1),
         duplicate |-> acc.duplicate + (IF is_duplicate(acc.rows, s) THEN 1 ELSE 0),
         late |-> acc.late + (IF isLate THEN 1 ELSE 0),
         clash |-> recording /\ FileOf(s) \in acc.files]
  <1>6. SaveOne(acc, s) = IF acc.clash THEN acc ELSE out
    BY DEF SaveOne
  <1>7. /\ acc.files \in SUBSET (files \cup {FileOf(q) : q \in QuoteSnapshot})
        /\ acc.invalid \in Nat /\ acc.duplicate \in Nat /\ acc.late \in Nat
    BY DEF Saving
  <1>8. /\ out.files \in SUBSET (files \cup {FileOf(q) : q \in QuoteSnapshot})
        /\ out.invalid \in Nat /\ out.duplicate \in Nat /\ out.late \in Nat
        /\ out.clash \in BOOLEAN /\ out.rows = rows
    <2> HIDE DEF rows, marked, isLate
    <2> QED BY <1>7
  <1>9. out = [rows |-> out.rows, files |-> out.files, invalid |-> out.invalid,
               duplicate |-> out.duplicate, late |-> out.late, clash |-> out.clash]
    OBVIOUS
  <1>10. out \in Saving(p)
    <2> HIDE DEF out, rows
    <2> QED BY <1>5, <1>8, <1>9 DEF Saving
  <1> QED BY <1>6, <1>10

\* The recursion behind Saved, over the sets of indices it has seen.
SavedIter(base, snaps) ==
    CHOOSE iter : iter = [t \in SUBSET DOMAIN snaps |->
        IF t = {} THEN base ELSE SaveOne(iter[t \ {Max(t)}], snaps[Max(t)])]
NothingSaved == [NoBatch EXCEPT !.rows = quotes, !.files = files]

\* Saving a batch is the value of that recursion.
LEMMA SavedIsIter ==
    ASSUME NEW p, NEW batch, NEW asOf
    PROVE  Saved(p, batch, asOf) =
             SavedIter(NothingSaved, Snapshots(p, batch, asOf))[DOMAIN Snapshots(p, batch, asOf)]
  BY DEF Saved, FoldLeft, MapThenFoldSet, SavedIter, NothingSaved

\* Before the first quote the table and the files are as they were.
LEMMA NothingSavedYet ==
    ASSUME quotes \in Seq(QuoteSnapshot), InOrder(quotes), NEW p
    PROVE  NothingSaved \in Saving(p)
  <1> DEFINE F == SUBSET (files \cup {FileOf(s) : s \in QuoteSnapshot})
             R == [rows : Seq(QuoteSnapshot), files : F,
                   invalid : Nat, duplicate : Nat, late : Nat, clash : BOOLEAN]
             noRows == <<>>
  <1>1. noRows \in Seq(QuoteSnapshot) /\ {} \in F /\ files \in F
    OBVIOUS
  <1>2. NoBatch = [rows |-> noRows, files |-> {}, invalid |-> 0, duplicate |-> 0,
                   late |-> 0, clash |-> FALSE]
    BY DEF NoBatch
  <1> HIDE DEF noRows, F
  <1>3. NoBatch \in R
    BY <1>1, <1>2
  <1>4. [NoBatch EXCEPT !.rows = quotes] \in R
    BY <1>3
  <1>5. NothingSaved \in R /\ NothingSaved.rows = quotes
    BY <1>1, <1>3, <1>4 DEF NothingSaved
  <1>6. Extends(quotes) /\ AddedBy(p, quotes)
    BY DEF Extends, AddedBy
  <1> QED BY <1>5, <1>6 DEF Saving, F

\* A fold of quotes leaves a table that was only added to, in order.
LEMMA SavedExtends ==
    ASSUME quotes \in Seq(QuoteSnapshot), InOrder(quotes), recording \in BOOLEAN,
           NEW p, NEW snaps \in Seq(QuoteSnapshot),
           \A i \in DOMAIN snaps : snaps[i].provider = p
    PROVE  SavedIter(NothingSaved, snaps)[DOMAIN snaps] \in Saving(p)
  <1> DEFINE S == 1..Len(snaps)
             V == Saving(p)
             base == NothingSaved
             pick == [t \in SUBSET S |-> Max(t)]
             op == [x \in S \X V |-> SaveOne(x[2], snaps[x[1]])]
             step(iter) == [t \in SUBSET S |->
               IF t = {} THEN base ELSE SaveOne(iter[t \ {Max(t)}], snaps[Max(t)])]
  <1>1. DOMAIN snaps = S /\ \A x \in S : snaps[x] \in QuoteSnapshot /\ snaps[x].provider = p
    OBVIOUS
  <1>2. IsFiniteSet(S) /\ Picks(pick, S)
    <2>1. Len(snaps) \in Nat
      OBVIOUS
    <2> QED BY <2>1, MaxPicks
  <1>3. base \in V
    BY NothingSavedYet
  <1>4. \A x \in S, v \in V : SaveOne(v, snaps[x]) \in V
    BY <1>1, SaveOneExtends
  <1>5. op \in [S \X V -> V]
    BY <1>4
  <1>6. PICK g \in [SUBSET S -> V] : Folds(g, S, base, pick, op)
    <2> HIDE DEF S, V, base, pick, op
    <2> QED BY <1>2, <1>3, <1>5, FoldExists
  <1>7. ASSUME NEW t \in SUBSET S
        PROVE  g[t] = step(g)[t]
    <2>1. CASE t = {}
      BY <2>1, <1>6 DEF Folds
    <2>2. CASE t # {}
      <3> DEFINE x == pick[t]
                 v == g[t \ {x}]
      <3>1. g[t] = op[<<x, v>>]
        BY <2>2, <1>6 DEF Folds
      <3>2. x = Max(t) /\ x \in S /\ v \in V
        BY <2>2, <1>2, <1>6 DEF Picks
      <3> HIDE DEF x, v, S, V
      <3>3. op[<<x, v>>] = SaveOne(v, snaps[x])
        BY <3>2
      <3> QED BY <2>2, <3>1, <3>2, <3>3 DEF x, v
    <2> QED BY <2>1, <2>2
  <1>8. g = step(g)
    BY <1>7
  <1> DEFINE I == SavedIter(base, snaps)
  <1>9. I = step(I)
    BY <1>1, <1>8 DEF SavedIter
  <1> DEFINE T == {t \in SUBSET S : I[t] \in V}
  <1>10. ASSUME NEW t \in SUBSET S, \A x \in t : t \ {x} \in T
         PROVE  t \in T
    <2>1. I[t] = step(I)[t]
      BY <1>9
    <2>2. CASE t = {}
      BY <2>1, <2>2, <1>3
    <2>3. CASE t # {}
      <3>1. Max(t) \in t
        BY <2>3, <1>2 DEF Picks
      <3>2. I[t \ {Max(t)}] \in V
        BY <3>1, <1>10
      <3>3. I[t] = SaveOne(I[t \ {Max(t)}], snaps[Max(t)])
        BY <2>1, <2>3
      <3>4. Max(t) \in S
        BY <3>1
      <3> HIDE DEF I, V, S
      <3>5. I[t] \in V
        BY <3>2, <3>3, <3>4, <1>4
      <3> QED BY <3>5
    <2> QED BY <2>2, <2>3
  <1>11. \A t \in SUBSET S : t \in T
    <2> HIDE DEF T, S
    <2> QED BY <1>2, <1>10, SubsetInduction
  <1> QED BY <1>1, <1>11

\* The quotes of a batch are normalised one by one.
LEMMA SnapshotsType ==
    ASSUME NEW p \in Providers, NEW batch \in Batches, NEW asOf \in Instants
    PROVE  /\ Snapshots(p, batch, asOf) \in Seq(QuoteSnapshot)
           /\ Len(Snapshots(p, batch, asOf)) = Len(batch)
           /\ Len(batch) \in Nat
           /\ \A i \in DOMAIN Snapshots(p, batch, asOf) :
                  Snapshots(p, batch, asOf)[i].provider = p
  <1>1. batch \in Seq(RawQuote) /\ Len(batch) \in Nat /\ DOMAIN batch = 1..Len(batch)
    BY FeedAssumption
  <1>2. \A i \in 1..Len(batch) : normalize_quote(batch[i], p, asOf) \in QuoteSnapshot
    <2> SUFFICES ASSUME NEW raw \in RawQuote
                 PROVE  normalize_quote(raw, p, asOf) \in QuoteSnapshot
      BY <1>1
    <2>1. Quality(raw, asOf) \in Qualities
      BY DEF Quality, Qualities
    <2> QED BY <2>1 DEF normalize_quote, RawQuote, QuoteSnapshot
  <1>3. Snapshots(p, batch, asOf) = [i \in 1..Len(batch) |-> normalize_quote(batch[i], p, asOf)]
    BY <1>1 DEF Snapshots
  <1>4. \A i \in 1..Len(batch) : normalize_quote(batch[i], p, asOf).provider = p
    BY DEF normalize_quote
  <1> HIDE DEF Snapshots
  <1> QED BY <1>1, <1>2, <1>3, <1>4

\* What is stored of a batch stands behind what was there, in order.
LEMMA StoredInOrder ==
    ASSUME quotes \in Seq(QuoteSnapshot), InOrder(quotes), recording \in BOOLEAN,
           NEW p \in Providers, NEW batch \in Batches, NEW asOf \in Instants
    PROVE  Saved(p, batch, asOf) \in Saving(p)
  <1> DEFINE snaps == Snapshots(p, batch, asOf)
  <1>1. snaps \in Seq(QuoteSnapshot) /\ \A i \in DOMAIN snaps : snaps[i].provider = p
    BY SnapshotsType
  <1>2. Saved(p, batch, asOf) = SavedIter(NothingSaved, snaps)[DOMAIN snaps]
    BY SavedIsIter
  <1> HIDE DEF snaps
  <1> QED BY <1>1, <1>2, SavedExtends

\* Rows that may be put behind the table's.
Behind(rows) ==
    \A i \in DOMAIN quotes, j \in DOMAIN rows :
        /\ quotes[i].provider = rows[j].provider /\ quotes[i].symbol = rows[j].symbol
        /\ quotes[i].quality = "VALID" /\ rows[j].quality = "VALID"
        => quotes[i].time <= rows[j].time
NewRows(p, rows) ==
    /\ rows \in Seq(QuoteSnapshot) /\ InOrder(rows) /\ Behind(rows)
    /\ \A i \in DOMAIN rows : rows[i].provider = p

\* What a batch adds to the table.
LEMMA AddedRows ==
    ASSUME quotes \in Seq(QuoteSnapshot), NEW p, NEW rows, Extends(rows), AddedBy(p, rows)
    PROVE  NewRows(p, Added(rows))
  <1> DEFINE n == Len(quotes)
             m == Len(rows)
             new == Added(rows)
  <1>1. /\ rows \in Seq(QuoteSnapshot) /\ n \in Nat /\ m \in Nat /\ n <= m
        /\ DOMAIN rows = 1..m /\ DOMAIN quotes = 1..n
        /\ \A i \in 1..n : rows[i] = quotes[i]
    BY DEF Extends
  <1>2. /\ new \in Seq(QuoteSnapshot) /\ DOMAIN new = 1..(m - n)
        /\ \A i \in 1..(m - n) : new[i] = rows[n + i]
    <2>1. new = SubSeq(rows, n + 1, m)
      BY DEF Added
    <2>2. \A i \in (n + 1)..m : rows[i] \in QuoteSnapshot
      BY <1>1
    <2> HIDE DEF new
    <2>3. new = [i \in 1..(m - n) |-> rows[n + i]]
      BY <1>1, <2>1
    <2> QED BY <1>1, <2>2, <2>3
  <1> HIDE DEF new, n, m
  <1>3. \A i \in 1..(m - n) : n + i \in 1..m /\ n < n + i
    BY <1>1
  <1>4. InOrder(new)
    <2> SUFFICES ASSUME NEW i \in 1..(m - n), NEW j \in 1..(m - n), i < j,
                        new[i].provider = new[j].provider,
                        new[i].symbol = new[j].symbol,
                        new[i].quality = "VALID", new[j].quality = "VALID"
                 PROVE  new[i].time <= new[j].time
      BY <1>2 DEF InOrder
    <2>1. n + i \in 1..m /\ n + j \in 1..m /\ n + i < n + j
      BY <1>1, <1>3
    <2> QED BY <1>1, <1>2, <2>1 DEF Extends, InOrder
  <1>5. Behind(new)
    <2> SUFFICES ASSUME NEW i \in 1..n, NEW j \in 1..(m - n),
                        quotes[i].provider = new[j].provider,
                        quotes[i].symbol = new[j].symbol,
                        quotes[i].quality = "VALID", new[j].quality = "VALID"
                 PROVE  quotes[i].time <= new[j].time
      BY <1>1, <1>2 DEF Behind
    <2>1. i \in 1..m /\ n + j \in 1..m /\ i < n + j
      BY <1>1, <1>3
    <2> QED BY <1>1, <1>2, <2>1 DEF Extends, InOrder
  <1>6. \A i \in DOMAIN new : new[i].provider = p
    BY <1>2, <1>3 DEF AddedBy, m, n
  <1> QED BY <1>2, <1>4, <1>5, <1>6 DEF NewRows, new

\* The table keeps its order when new rows are put behind it.
LEMMA RowsPutBehind ==
    ASSUME quotes \in Seq(QuoteSnapshot), InOrder(quotes), NEW p, NEW rows, NewRows(p, rows)
    PROVE  Extends(quotes \o rows)
  <1> DEFINE n == Len(quotes)
             m == Len(rows)
             all == quotes \o rows
  <1>1. /\ rows \in Seq(QuoteSnapshot) /\ n \in Nat /\ m \in Nat
        /\ DOMAIN rows = 1..m /\ DOMAIN quotes = 1..n
    BY DEF NewRows
  <1>2. /\ all \in Seq(QuoteSnapshot) /\ Len(all) = n + m /\ DOMAIN all = 1..(n + m)
        /\ \A i \in 1..n : all[i] = quotes[i]
        /\ \A i \in 1..(n + m) : ~(i <= n) => i - n \in 1..m /\ all[i] = rows[i - n]
    BY <1>1
  <1> HIDE DEF all, n, m
  <1>3. InOrder(all)
    <2> SUFFICES ASSUME NEW i \in 1..(n + m), NEW j \in 1..(n + m), i < j,
                        all[i].provider = all[j].provider,
                        all[i].symbol = all[j].symbol,
                        all[i].quality = "VALID", all[j].quality = "VALID"
                 PROVE  all[i].time <= all[j].time
      BY <1>2 DEF InOrder
    <2>1. CASE j <= n
      <3>1. i \in 1..n /\ j \in 1..n
        BY <1>1, <2>1
      <3> QED BY <1>1, <1>2, <3>1 DEF InOrder
    <2>2. CASE i <= n /\ ~(j <= n)
      <3>1. i \in 1..n /\ j - n \in 1..m /\ all[j] = rows[j - n] /\ all[i] = quotes[i]
        BY <1>1, <1>2, <2>2
      <3> QED BY <1>1, <3>1 DEF NewRows, Behind
    <2>3. CASE ~(i <= n) /\ ~(j <= n)
      <3>1. /\ i - n \in 1..m /\ j - n \in 1..m /\ i - n < j - n
            /\ all[i] = rows[i - n] /\ all[j] = rows[j - n]
        BY <1>1, <1>2, <2>3
      <3> QED BY <1>1, <3>1 DEF NewRows, InOrder
    <2> QED BY <1>1, <2>1, <2>2, <2>3
  <1> QED BY <1>1, <1>2, <1>3 DEF Extends, n, all

\* Rows of another provider do not come between.
LEMMA StillBehind ==
    ASSUME quotes \in Seq(QuoteSnapshot), NEW p, NEW q, p # q,
           NEW rows, NewRows(p, rows), NEW others, NewRows(q, others),
           quotes' = quotes \o others
    PROVE  NewRows(p, rows)'
  <1> DEFINE n == Len(quotes)
             m == Len(others)
  <1>1. /\ others \in Seq(QuoteSnapshot) /\ n \in Nat /\ m \in Nat
        /\ DOMAIN others = 1..m /\ DOMAIN quotes = 1..n
    BY DEF NewRows
  <1>2. /\ DOMAIN quotes' = 1..(n + m)
        /\ \A i \in 1..n : quotes'[i] = quotes[i]
        /\ \A i \in 1..(n + m) : ~(i <= n) => i - n \in 1..m /\ quotes'[i] = others[i - n]
    BY <1>1
  <1>3. ASSUME NEW i \in DOMAIN quotes', NEW j \in DOMAIN rows,
               quotes'[i].provider = rows[j].provider, quotes'[i].symbol = rows[j].symbol,
               quotes'[i].quality = "VALID", rows[j].quality = "VALID"
        PROVE  quotes'[i].time <= rows[j].time
    <2>1. CASE i \in 1..n
      BY <1>1, <1>2, <1>3, <2>1 DEF NewRows, Behind
    <2>2. CASE i \notin 1..n
      <3>1. i \in 1..(n + m) /\ ~(i <= n)
        BY <1>1, <1>2, <2>2
      <3>2. i - n \in 1..m /\ quotes'[i] = others[i - n]
        BY <1>2, <3>1
      <3>3. quotes'[i].provider = q /\ rows[j].provider = p
        BY <1>1, <3>2 DEF NewRows
      <3> QED BY <1>3, <3>3
    <2> QED BY <2>1, <2>2
  <1>4. Behind(rows)'
    BY <1>3 DEF Behind
  <1> QED BY <1>4 DEF NewRows, InOrder

\* A batch has no more quotes of three qualities than it has quotes.
LEMMA QualitiesApart ==
    ASSUME NEW snaps \in Seq(QuoteSnapshot)
    PROVE  /\ OfQuality(snaps, "VALID") \in Nat /\ OfQuality(snaps, "STALE") \in Nat
           /\ OfQuality(snaps, "PROVIDER_ERROR") \in Nat
           /\ OfQuality(snaps, "VALID") + OfQuality(snaps, "STALE")
                + OfQuality(snaps, "PROVIDER_ERROR") <= Len(snaps)
  <1> DEFINE S == 1..Len(snaps)
             of(q) == {i \in DOMAIN snaps : snaps[i].quality = q}
             a == of("VALID")
             b == of("STALE")
             c == of("PROVIDER_ERROR")
  <1>1. IsFiniteSet(S) /\ Cardinality(S) = Len(snaps) /\ DOMAIN snaps = S
    <2> DEFINE n == Len(snaps)
    <2>1. n \in Nat /\ DOMAIN snaps = 1..n
      OBVIOUS
    <2> HIDE DEF n
    <2>2. IsFiniteSet(1..n) /\ Cardinality(1..n) = IF 1 > n THEN 0 ELSE n - 1 + 1
      BY <2>1, FS_Interval
    <2> QED BY <2>1, <2>2 DEF n
  <1>2. a \subseteq S /\ b \subseteq S /\ c \subseteq S
    BY <1>1
  <1>3. a \cap b = {} /\ (a \cup b) \cap c = {}
    OBVIOUS
  <1> HIDE DEF S, a, b, c
  <1>4. IsFiniteSet(a) /\ IsFiniteSet(b) /\ IsFiniteSet(c) /\ IsFiniteSet(a \cup b)
    BY <1>1, <1>2, FS_Subset, FS_Union
  <1>5. /\ Cardinality(a) \in Nat /\ Cardinality(b) \in Nat /\ Cardinality(c) \in Nat
        /\ Cardinality(a \cup b) \in Nat /\ Cardinality({}) = 0
    BY <1>4, FS_CardinalityType, FS_EmptySet
  <1>6. Cardinality(a \cup b) = Cardinality(a) + Cardinality(b)
    <2>1. Cardinality(a \cup b) = Cardinality(a) + Cardinality(b) - Cardinality(a \cap b)
      BY <1>4, FS_Union
    <2>2. Cardinality(a \cap b) = 0
      BY <1>3, <1>5
    <2> QED BY <1>5, <2>1, <2>2
  <1>7. Cardinality((a \cup b) \cup c) = Cardinality(a \cup b) + Cardinality(c)
    <2>1. Cardinality((a \cup b) \cup c)
            = Cardinality(a \cup b) + Cardinality(c) - Cardinality((a \cup b) \cap c)
      BY <1>4, FS_Union
    <2>2. Cardinality((a \cup b) \cap c) = 0
      BY <1>3, <1>5
    <2> QED BY <1>5, <2>1, <2>2
  <1>8. Cardinality((a \cup b) \cup c) <= Cardinality(S)
    BY <1>1, <1>2, FS_Subset
  <1> QED
    BY <1>1, <1>5, <1>6, <1>7, <1>8 DEF OfQuality, a, b, c

----------------------------------------------------------------------------
(* The invariant of the feed.                                              *)

Book == [switches : Nat, moves : Nat, fills : Nat]
HealthRow == [status : HealthStatus, failures : Nat, successes : Nat, day : Int,
              fell : HealthStatus \cup {"none"}]
Run == [provider : Providers, at : Nat, ended : Nat, result : RunResults,
        mutated : BOOLEAN, fills : Nat, received : Nat, valid : Nat,
        invalid : Nat, stale : Nat, duplicate : Nat, late : Nat, schema : Nat,
        network : Nat, touched : BOOLEAN, stored : Nat]
Gateway == [phase : {"idle", "fetch", "commit"}, asOf : Nat, attempt : 0..PollAttempts,
            book : Book, touched : BOOLEAN, run : Run \cup {NoRun},
            new : Seq(QuoteSnapshot), err : Errors \cup {"none"}]

FeedTyped ==
    /\ now \in Instants /\ recording \in BOOLEAN
    /\ quotes \in Seq(QuoteSnapshot) /\ InOrder(quotes)
    /\ health \in [Providers -> HealthRow]
    /\ gw \in [Providers -> Gateway]
    /\ book \in Book
    /\ runs \in SUBSET Run /\ IsFiniteSet(runs)

\* The book has not gone back since a poll or a check read it.
ReadEarlier(read) ==
    /\ read.moves <= book.moves /\ read.fills <= book.fills
    /\ read.moves = book.moves => read.fills = book.fills

\* What a row says of its poll: it saw no change if it passed, and a fill if it did not
\* pass for any other reason than a change of the book or a failed fetch.
Verdict(r) ==
    /\ r.result = "PASSED" => ~r.touched /\ ~r.mutated
    /\ ~r.touched => r.fills = 0
    /\ r.network = 0 /\ r.fills = 0 => r.result \in {"PASSED", "ACCOUNT_MUTATION_DETECTED"}
CountsAddUp(r) == r.valid + r.stale + r.schema <= r.received

\* The run a gateway is about to commit is that of its poll.
RunPending(p, run) ==
    /\ run \in Run /\ run.provider = p /\ run.at = gw[p].asOf
    /\ run.at <= run.ended /\ run.ended <= now
    /\ CountsAddUp(run) /\ Verdict(run)

\* A poll began no later than now, and read the book as it was no later than now.
GatewaySound(p) ==
    /\ gw[p].asOf <= now
    /\ gw[p].phase # "idle" => gw[p].asOf \in Instants
    /\ gw[p].touched => gw[p].phase = "fetch" /\ gw[p].book.moves < book.moves
    /\ gw[p].phase = "fetch" =>
        /\ ReadEarlier(gw[p].book)
        /\ ~gw[p].touched => gw[p].book.moves = book.moves
    /\ gw[p].phase = "commit" => RunPending(p, gw[p].run) /\ NewRows(p, gw[p].new)

\* The rows of runs are those of polls that have begun, and ended.
RunSound(r) ==
    /\ r.at <= r.ended /\ r.ended <= now
    /\ CountsAddUp(r) /\ Verdict(r)
    /\ r.at <= gw[r.provider].asOf
    /\ gw[r.provider].phase # "idle" => r.at < gw[r.provider].asOf

\* After a failure that broke the provider and no success since, it is still broken.
HealthSound(p) ==
    /\ health[p].failures = 0 \/ health[p].successes = 0
    /\ health[p].fell \in Broken /\ health[p].successes = 0
         => health[p].status \in Broken
    /\ health[p].status = "HEALTHY" /\ health[p].fell \in Broken
         => health[p].successes >= Recovery \/ health[p].successes >= 2

FeedSound ==
    /\ FeedTyped
    /\ \A p \in Providers : GatewaySound(p) /\ HealthSound(p)
    /\ \A r \in runs : RunSound(r)
    /\ StatusAnnounced

\* The invariant is what the properties need.
LEMMA FeedSoundSays == FeedSound => RowsKept /\ HealthEarned /\ PassedMeansUntouched
  <1> SUFFICES ASSUME FeedSound PROVE RowsKept /\ HealthEarned /\ PassedMeansUntouched
    OBVIOUS
  <1>1. ValidRowsInOrder
    BY DEF FeedSound, FeedTyped, InOrder, ValidRowsInOrder
  <1>2. FeedTypeOK
    <2>1. \A p \in Providers : health[p] \in HealthRow /\ gw[p] \in Gateway
      BY DEF FeedSound, FeedTyped
    <2>2. \A p \in Providers : /\ health[p].status \in HealthStatus
                               /\ gw[p].attempt \in 0..PollAttempts
      BY <2>1 DEF HealthRow, Gateway
    <2>3. \A r \in runs : r.result \in RunResults /\ r.fills \in Nat
      BY DEF FeedSound, FeedTyped, Run
    <2> QED BY <2>2, <2>3 DEF FeedSound, FeedTyped, FeedTypeOK, HealthSound, RunSound, CountsAddUp
  <1>3. NotHealthyAtOnce
    BY DEF FeedSound, HealthSound, NotHealthyAtOnce
  <1>4. PassedMeansUntouched
    BY DEF FeedSound, RunSound, Verdict, PassedMeansUntouched
  <1> QED BY <1>1, <1>2, <1>3, <1>4 DEF RowsKept, HealthEarned, FeedSound

\* A gateway between polls.
LEMMA IdleType ==
    /\ Idle \in Gateway /\ NoRun \in Run \cup {NoRun}
    /\ Idle.phase = "idle" /\ Idle.asOf = 0 /\ Idle.touched = FALSE /\ Idle.attempt = 0
    /\ Idle.book = NoBook /\ Idle.run = NoRun /\ Idle.new = <<>> /\ Idle.err = "none"
  <1>1. 0 \in 0..PollAttempts /\ NoBook \in Book
    BY FeedAssumption DEF NoBook, Book
  <1>2. <<>> \in Seq(QuoteSnapshot)
    OBVIOUS
  <1> DEFINE none == <<>>
  <1>3. /\ Idle = [phase |-> "idle", asOf |-> 0, attempt |-> 0, book |-> NoBook,
                   touched |-> FALSE, run |-> NoRun, new |-> none, err |-> "none"]
        /\ none \in Seq(QuoteSnapshot)
    BY <1>2 DEF Idle
  <1>4. none = <<>>
    OBVIOUS
  <1> HIDE DEF none
  <1> QED BY <1>1, <1>3, <1>4 DEF Gateway

\* A feed that has just started is sound.
LEMMA FeedSoundInit == FeedInit => FeedSound
  <1> SUFFICES ASSUME FeedInit PROVE FeedSound
    OBVIOUS
  <1>1. 1 \in Instants
    BY InstantsAreNumbers
  <1>2. Idle \in Gateway /\ NewHealth \in HealthRow
    BY IdleType DEF NewHealth, HealthRow, HealthStatus
  <1>3. FeedTyped
    <2>1. IsFiniteSet(runs)
      BY FS_EmptySet DEF FeedInit
    <2>2. quotes \in Seq(QuoteSnapshot) /\ InOrder(quotes)
      BY DEF FeedInit, InOrder
    <2>3. recording \in BOOLEAN
      BY FeedAssumption DEF FeedInit
    <2> QED BY <1>1, <1>2, <2>1, <2>2, <2>3 DEF FeedTyped, FeedInit, Book, NoBook
  <1>4. \A p \in Providers : GatewaySound(p)
    <2>1. Idle.phase = "idle" /\ Idle.touched = FALSE /\ Idle.asOf = 0
      BY IdleType
    <2> QED BY <2>1 DEF FeedInit, GatewaySound
  <1>5. \A p \in Providers : HealthSound(p)
    BY DEF FeedInit, HealthSound, NewHealth, Broken
  <1>6. StatusAnnounced
    BY DEF FeedInit, StatusAnnounced, NewHealth
  <1> QED BY <1>3, <1>4, <1>5, <1>6 DEF FeedSound, FeedInit

\* What the parts of the invariant are about a provider.
LEMMA OfProvider ==
    ASSUME FeedSound, NEW p \in Providers
    PROVE  /\ gw[p] \in Gateway /\ health[p] \in HealthRow
           /\ gw[p].asOf \in Nat /\ gw[p].book \in Book
           /\ now \in Instants /\ now \in Nat /\ book \in Book
  <1>1. gw[p] \in Gateway /\ health[p] \in HealthRow /\ now \in Instants /\ book \in Book
    BY DEF FeedSound, FeedTyped
  <1> QED BY <1>1, InstantsAreNumbers DEF Gateway

\* A poll that ends leaves its gateway idle and the others as they were.
LEMMA PollEnds ==
    ASSUME FeedSound, NEW p \in Providers, gw' = Done(p), UNCHANGED <<now, book>>,
           \A q \in Providers \ {p} : gw[q].phase = "commit" => NewRows(q, gw[q].new)'
    PROVE  /\ gw' \in [Providers -> Gateway]
           /\ \A q \in Providers : GatewaySound(q)'
           /\ \A q \in Providers : gw'[q].asOf = gw[q].asOf
           /\ gw'[p].phase = "idle" /\ \A q \in Providers \ {p} : gw'[q] = gw[q]
  <1> DEFINE ended == [Idle EXCEPT !.asOf = gw[p].asOf]
  <1>1. /\ gw \in [Providers -> Gateway] /\ gw[p].asOf \in Nat
    BY OfProvider DEF FeedSound, FeedTyped
  <1>2. Idle \in Gateway /\ Idle.phase = "idle" /\ Idle.touched = FALSE
    BY IdleType
  <1>3. /\ ended \in Gateway /\ ended.asOf = gw[p].asOf
        /\ ended.phase = "idle" /\ ended.touched = FALSE
    BY <1>1, <1>2 DEF Gateway
  <1>4. gw' = [gw EXCEPT ![p] = ended]
    BY DEF Done
  <1> HIDE DEF ended
  <1>5. \A q \in Providers : gw'[q] = IF q = p THEN ended ELSE gw[q]
    BY <1>1, <1>4
  <1>6. gw' \in [Providers -> Gateway]
    BY <1>1, <1>3, <1>4
  <1>7. \A q \in Providers : GatewaySound(q)'
    <2> SUFFICES ASSUME NEW q \in Providers PROVE GatewaySound(q)'
      OBVIOUS
    <2>1. GatewaySound(q)
      BY DEF FeedSound
    <2>2. CASE q = p
      BY <1>3, <1>5, <2>1, <2>2 DEF GatewaySound
    <2>3. CASE q # p
      <3>1. gw'[q] = gw[q] /\ now' = now /\ book' = book
        BY <1>5, <2>3
      <3>2. gw[q].phase = "commit" => NewRows(q, gw[q].new)'
        BY <2>3
      <3> QED BY <2>1, <3>1, <3>2 DEF GatewaySound, ReadEarlier, RunPending
    <2> QED BY <2>2, <2>3
  <1> QED BY <1>3, <1>5, <1>6, <1>7

\* The row of a poll that ends joins the sound rows.
LEMMA RunAdded ==
    ASSUME FeedSound, NEW p \in Providers, gw[p].phase = "commit",
           \A q \in Providers : gw'[q].asOf = gw[q].asOf,
           gw'[p].phase = "idle", \A q \in Providers \ {p} : gw'[q] = gw[q],
           UNCHANGED <<now, book>>, NEW row \in Run, runs' = save_shadow_run(row),
           row.provider = p, row.at = gw[p].asOf, row.at <= row.ended, row.ended <= now,
           CountsAddUp(row), Verdict(row)
    PROVE  runs' \in SUBSET Run /\ IsFiniteSet(runs') /\ \A r \in runs' : RunSound(r)'
  <1>1. runs' \subseteq runs \cup {row}
    BY DEF save_shadow_run
  <1>2. runs \in SUBSET Run /\ IsFiniteSet(runs) /\ now \in Nat
    BY OfProvider DEF FeedSound, FeedTyped
  <1>3. IsFiniteSet(runs \cup {row})
    BY <1>2, FS_AddElement
  <1>5. ASSUME NEW r \in runs
        PROVE  RunSound(r)'
    <2>1. RunSound(r) /\ r.provider \in Providers
      BY <1>2 DEF FeedSound, Run
    <2>2. CASE r.provider = p
      BY <2>1, <2>2 DEF RunSound, CountsAddUp, Verdict
    <2>3. CASE r.provider # p
      BY <2>1, <2>3 DEF RunSound, CountsAddUp, Verdict
    <2> QED BY <2>2, <2>3
  <1>6. RunSound(row)'
    <2>1. gw[p].asOf <= now /\ gw[p].asOf \in Nat
      BY OfProvider DEF FeedSound, GatewaySound
    <2> QED BY <1>2, <2>1 DEF RunSound, CountsAddUp, Verdict
  <1> QED BY <1>1, <1>2, <1>3, <1>5, <1>6, FS_Subset

\* A run row is well typed, the fills seen during the poll included.
LEMMA ShadowRunType ==
    ASSUME FeedSound, NEW p \in Providers, gw[p].phase = "fetch", NEW result \in RunResults
    PROVE  LET row == ShadowRun(p, gw[p], result)
           IN  /\ row \in Run /\ row.provider = p /\ row.at = gw[p].asOf
               /\ row.ended = now /\ row.result = result
               /\ row.valid = 0 /\ row.stale = 0 /\ row.schema = 0 /\ row.received = 0
               /\ row.mutated = (Checksum(gw[p].book) /= Checksum(book))
               /\ row.fills = book.fills - gw[p].book.fills /\ row.network = 0
               /\ row.touched = gw[p].touched /\ row.stored = 0
  <1>1. /\ gw[p].asOf \in Nat /\ now \in Nat /\ gw[p].book.fills \in Nat /\ book.fills \in Nat
        /\ gw[p].book.fills <= book.fills /\ gw[p].touched \in BOOLEAN
    BY OfProvider DEF Book, FeedSound, GatewaySound, ReadEarlier, Gateway
  <1>2. book.fills - gw[p].book.fills \in Nat
    BY <1>1
  <1> QED BY <1>1, <1>2 DEF ShadowRun, Run

\* A poll that was not touched saw no fill.
LEMMA UntouchedUnfilled ==
    ASSUME FeedSound, NEW p \in Providers, gw[p].phase = "fetch", ~gw[p].touched
    PROVE  book.fills - gw[p].book.fills = 0
  <1>1. GatewaySound(p) /\ gw[p].book.fills \in Nat /\ book.fills \in Nat
    BY OfProvider DEF FeedSound, Book
  <1> QED BY <1>1 DEF GatewaySound, ReadEarlier

\* The status of a provider moves between the known ones, and is announced.
LEMMA HealthMoves ==
    ASSUME FeedSound, NEW p \in Providers, NEW h \in HealthRow,
           health' = [health EXCEPT ![p] = h],
           outbox' = notify_provider_change(p, health[p].status, h.status, gw[p].asOf),
           h.day = IF h.status = health[p].status THEN health[p].day ELSE DayOf[gw[p].asOf],
           h.failures = 0 \/ h.successes = 0,
           h.fell \in Broken /\ h.successes = 0 => h.status \in Broken,
           h.status = "HEALTHY" /\ h.fell \in Broken
             => h.successes >= Recovery \/ h.successes >= 2
    PROVE  /\ health' \in [Providers -> HealthRow]
           /\ \A q \in Providers : HealthSound(q)'
           /\ StatusAnnounced'
  <1>1. health \in [Providers -> HealthRow]
    BY DEF FeedSound, FeedTyped
  <1>2. \A q \in Providers : health'[q] = IF q = p THEN h ELSE health[q]
    BY <1>1
  <1>3. \A q \in Providers : HealthSound(q)'
    BY <1>2 DEF FeedSound, HealthSound
  <1>4. /\ outbox \subseteq outbox'
        /\ h.status # health[p].status =>
             [provider |-> p, status |-> h.status, day |-> DayOf[gw[p].asOf]] \in outbox'
    BY DEF notify_provider_change
  <1>5. ASSUME NEW q \in Providers, health'[q].day /= 0
        PROVE  [provider |-> q, status |-> health'[q].status, day |-> health'[q].day] \in outbox'
    <2>1. CASE health'[q] = health[q]
      BY <1>4, <1>5, <2>1 DEF FeedSound, StatusAnnounced
    <2>2. CASE q = p /\ h.status = health[p].status
      <3>1. health'[q].day = health[q].day /\ health'[q].status = health[q].status
        BY <1>2, <2>2
      <3> QED BY <1>4, <1>5, <3>1 DEF FeedSound, StatusAnnounced
    <2>3. CASE q = p /\ h.status # health[p].status
      BY <1>2, <1>4, <2>3
    <2> QED BY <1>2, <2>1, <2>2, <2>3
  <1>6. StatusAnnounced'
    BY <1>5 DEF StatusAnnounced
  <1> QED BY <1>1, <1>3, <1>6

\* What a successful poll makes of a health row.
LEMMA SuccessRow ==
    ASSUME FeedSound, NEW p \in Providers, NEW invalid \in Nat, NEW asOf \in Instants
    PROVE  LET h == provider_success(health[p], invalid, asOf)
           IN  /\ h \in HealthRow
               /\ h.day = IF h.status = health[p].status THEN health[p].day ELSE DayOf[asOf]
               /\ h.failures = 0 /\ h.successes = health[p].successes + 1
               /\ h.fell = health[p].fell
               /\ h.status = StatusAfterSuccess(health[p], invalid)
  <1> DEFINE old == health[p]
             status == StatusAfterSuccess(old, invalid)
             stamp == Stamped(old, status, asOf)
             h == provider_success(old, invalid, asOf)
  <1>1. old \in HealthRow
    BY OfProvider
  <1>2. status \in HealthStatus
    BY DEF StatusAfterSuccess, HealthStatus
  <1>3. DayOf[asOf] \in Int
    BY FeedAssumption DEF Instants
  <1> HIDE DEF old, status
  <1>4. /\ stamp \in HealthRow /\ stamp.status = status
        /\ stamp.day = IF status = old.status THEN old.day ELSE DayOf[asOf]
        /\ stamp.failures = old.failures /\ stamp.successes = old.successes
        /\ stamp.fell = old.fell
    BY <1>1, <1>2, <1>3 DEF Stamped, HealthRow
  <1>5. h = [stamp EXCEPT !.failures = 0, !.successes = @ + 1]
    BY DEF provider_success, status
  <1> HIDE DEF stamp, h
  <1>6. /\ h \in HealthRow /\ h.status = status /\ h.day = stamp.day
        /\ h.failures = 0 /\ h.successes = stamp.successes + 1 /\ h.fell = stamp.fell
    <2>1. stamp.successes + 1 \in Nat
      BY <1>4 DEF HealthRow
    <2>2. stamp = [status |-> stamp.status, failures |-> stamp.failures,
                   successes |-> stamp.successes, day |-> stamp.day, fell |-> stamp.fell]
      BY <1>4 DEF HealthRow
    <2>3. h = [status |-> stamp.status, failures |-> 0,
               successes |-> stamp.successes + 1, day |-> stamp.day, fell |-> stamp.fell]
      BY <1>5, <2>2
    <2> QED BY <1>4, <2>1, <2>3 DEF HealthRow
  <1> QED BY <1>4, <1>6 DEF h, old, status

\* What a failed poll makes of a health row.
LEMMA FailureRow ==
    ASSUME FeedSound, NEW p \in Providers, NEW err, NEW asOf \in Instants
    PROVE  LET h == provider_failure(health[p], err, asOf)
           IN  /\ h \in HealthRow
               /\ h.day = IF h.status = health[p].status THEN health[p].day ELSE DayOf[asOf]
               /\ h.successes = 0 /\ h.fell = h.status
               /\ h.status = StatusAfterFailure(health[p], err)
  <1> DEFINE old == health[p]
             status == StatusAfterFailure(old, err)
             stamp == Stamped(old, status, asOf)
             h == provider_failure(old, err, asOf)
  <1>1. old \in HealthRow
    BY OfProvider
  <1>2. status \in HealthStatus
    BY DEF StatusAfterFailure, HealthStatus
  <1>3. DayOf[asOf] \in Int
    BY FeedAssumption DEF Instants
  <1> HIDE DEF old, status
  <1>4. /\ stamp \in HealthRow /\ stamp.status = status
        /\ stamp.day = IF status = old.status THEN old.day ELSE DayOf[asOf]
        /\ stamp.failures = old.failures /\ stamp.successes = old.successes
    BY <1>1, <1>2, <1>3 DEF Stamped, HealthRow
  <1>5. h = [stamp EXCEPT !.failures = @ + 1, !.successes = 0, !.fell = status]
    BY DEF provider_failure, status
  <1> HIDE DEF stamp, h
  <1>6. /\ h \in HealthRow /\ h.status = status /\ h.day = stamp.day
        /\ h.successes = 0 /\ h.fell = status
    <2>1. stamp.failures + 1 \in Nat
      BY <1>4 DEF HealthRow
    <2>2. stamp = [status |-> stamp.status, failures |-> stamp.failures,
                   successes |-> stamp.successes, day |-> stamp.day, fell |-> stamp.fell]
      BY <1>4 DEF HealthRow
    <2>3. h = [status |-> stamp.status, failures |-> stamp.failures + 1,
               successes |-> 0, day |-> stamp.day, fell |-> status]
      BY <1>5, <2>2
    <2> QED BY <1>2, <1>4, <2>1, <2>3 DEF HealthRow
  <1> QED BY <1>4, <1>6 DEF h, old, status

\* What is known of a poll once its fetch is over: it is about to commit a run that
\* tells whether it was touched, and nothing else has moved.
FetchOver(p) ==
    /\ gw[p].phase = "fetch" /\ gw'[p].phase = "commit" /\ gw'[p].asOf = gw[p].asOf
    /\ gw'[p].run.touched = gw[p].touched
    /\ \A q \in Providers \ {p} : gw'[q] = gw[q]
    /\ UNCHANGED <<now, quotes, runs, book>>

\* A poll that has a run and rows to commit leaves a sound feed.
LEMMA ToCommitSound ==
    ASSUME FeedSound, NEW p \in Providers, gw[p].phase = "fetch",
           NEW run, RunPending(p, run), run.touched = gw[p].touched,
           NEW new, NewRows(p, new), NEW err \in Errors \cup {"none"},
           gw' = ToCommit(p, run, new, err),
           UNCHANGED <<now, recording, quotes, health, runs, book, outbox>>
    PROVE  FeedSound' /\ FetchOver(p)
  <1> DEFINE over == [Idle EXCEPT !.phase = "commit", !.asOf = gw[p].asOf,
                                  !.run = run, !.new = new, !.err = err]
  <1>1. /\ gw \in [Providers -> Gateway] /\ gw[p].asOf \in Nat
        /\ run \in Run /\ new \in Seq(QuoteSnapshot)
    BY OfProvider DEF FeedSound, FeedTyped, RunPending, NewRows
  <1>2. /\ over \in Gateway /\ over.phase = "commit" /\ over.asOf = gw[p].asOf
        /\ over.touched = FALSE /\ over.run = run /\ over.new = new
    BY <1>1, IdleType DEF Gateway
  <1>3. gw' = [gw EXCEPT ![p] = over]
    BY DEF ToCommit
  <1> HIDE DEF over
  <1>4. \A q \in Providers : gw'[q] = IF q = p THEN over ELSE gw[q]
    BY <1>1, <1>3
  <1>5. gw' \in [Providers -> Gateway]
    BY <1>1, <1>2, <1>3
  <1>6. ASSUME NEW q \in Providers PROVE GatewaySound(q)' /\ HealthSound(q)'
    <2>1. GatewaySound(q) /\ HealthSound(q)
      BY DEF FeedSound
    <2>2. CASE q = p
      <3>1. gw'[q] = over
        BY <1>4, <2>2
      <3>2. RunPending(q, gw[q].run)'
        BY <1>2, <2>2, <3>1 DEF RunPending, CountsAddUp, Verdict
      <3>3. NewRows(q, gw[q].new)'
        BY <1>2, <2>2, <3>1 DEF NewRows, InOrder, Behind
      <3> QED BY <1>2, <2>1, <2>2, <3>1, <3>2, <3>3 DEF GatewaySound, HealthSound
    <2>3. CASE q # p
      <3>1. gw'[q] = gw[q]
        BY <1>4, <2>3
      <3> QED BY <2>1, <3>1
        DEF GatewaySound, HealthSound, ReadEarlier, RunPending, NewRows, InOrder, Behind
    <2> QED BY <2>2, <2>3
  <1>7. ASSUME NEW r \in runs' PROVE RunSound(r)'
    <2>1. RunSound(r) /\ r.provider \in Providers
      BY <1>7 DEF FeedSound, FeedTyped, Run
    <2>2. gw'[r.provider].asOf = gw[r.provider].asOf
      BY <1>2, <1>4, <2>1
    <2>3. gw'[r.provider].phase # "idle" => gw[r.provider].phase # "idle"
      BY <1>4, <2>1
    <2> QED BY <2>1, <2>2, <2>3 DEF RunSound, CountsAddUp, Verdict
  <1>8. FeedTyped' /\ StatusAnnounced'
    BY <1>5 DEF FeedSound, FeedTyped, InOrder, StatusAnnounced
  <1>9. FetchOver(p)
    BY <1>2, <1>4 DEF FetchOver
  <1> QED BY <1>6, <1>7, <1>8, <1>9 DEF FeedSound

\* A poll that fails leaves a sound feed, and a run that did not pass to commit.
LEMMA FetchFailsSound ==
    ASSUME FeedSound, NEW p \in Providers, FetchFails(p)
    PROVE  FeedSound' /\ FetchOver(p)
  <1>0. PICK err \in Errors :
        LET result == IF err = "PROVIDER_DISABLED" THEN "PROVIDER_NOT_CONFIGURED"
                      ELSE "FAILED"
            run == [ShadowRun(p, gw[p], result) EXCEPT !.network = 1]
        IN  /\ gw[p].phase = "fetch"
            /\ gw' = ToCommit(p, run, <<>>, err)
            /\ UNCHANGED <<now, recording, quotes, files, health, runs, book, outbox, polls>>
    BY DEF FetchFails
  <1> DEFINE result == IF err = "PROVIDER_DISABLED" THEN "PROVIDER_NOT_CONFIGURED"
                       ELSE "FAILED"
             blank == ShadowRun(p, gw[p], result)
             row == [blank EXCEPT !.network = 1]
             none == <<>>
  <1>1. /\ gw[p].phase = "fetch" /\ gw' = ToCommit(p, row, none, err)
        /\ UNCHANGED <<now, recording, quotes, health, runs, book, outbox>>
    BY <1>0
  <1>2. result \in RunResults /\ result # "PASSED"
    BY DEF RunResults
  <1>3. NewRows(p, none)
    BY DEF NewRows, InOrder, Behind
  <1> HIDE DEF result, none
  <1>4. /\ blank \in Run /\ blank.provider = p /\ blank.at = gw[p].asOf /\ blank.ended = now
        /\ blank.result = result /\ blank.valid = 0 /\ blank.stale = 0 /\ blank.schema = 0
        /\ blank.received = 0 /\ blank.touched = gw[p].touched
        /\ blank.fills = book.fills - gw[p].book.fills
    <2> HIDE DEF blank
    <2> QED BY <1>1, <1>2, ShadowRunType DEF blank
  <1> HIDE DEF blank
  <1>5. /\ row \in Run /\ row.provider = p /\ row.at = gw[p].asOf /\ row.ended = now
        /\ row.result = result /\ row.network = 1 /\ CountsAddUp(row)
        /\ row.touched = gw[p].touched /\ row.fills = book.fills - gw[p].book.fills
    BY <1>4 DEF Run, CountsAddUp
  <1> HIDE DEF row
  <1>6. Verdict(row)
    BY <1>1, <1>2, <1>5, UntouchedUnfilled DEF Verdict
  <1>7. RunPending(p, row)
    BY <1>5, <1>6, OfProvider DEF RunPending, FeedSound, GatewaySound
  <1> QED BY <1>1, <1>3, <1>5, <1>7, ToCommitSound

\* A stored batch leaves a sound feed, and a run to commit that passed only if the book was
\* not touched.
LEMMA StoreBatchSound ==
    ASSUME FeedSound, NEW p \in Providers, StoreBatch(p)
    PROVE  FeedSound' /\ FetchOver(p)
  <1>0. PICK batch \in Batches :
        LET g == gw[p]
            saved == Saved(p, batch, g.asOf)
            snaps == Snapshots(p, batch, g.asOf)
            row == [ShadowRun(p, g, "PASSED")
                       EXCEPT !.received = Len(batch),
                              !.valid = OfQuality(snaps, "VALID"),
                              !.invalid = saved.invalid,
                              !.stale = OfQuality(snaps, "STALE"),
                              !.duplicate = saved.duplicate, !.late = saved.late,
                              !.schema = OfQuality(snaps, "PROVIDER_ERROR")]
            run == [row EXCEPT !.result = RunResult(row)]
        IN  /\ g.phase = "fetch"
            /\ gw' = ToCommit(p, run, Added(saved.rows), "none")
            /\ UNCHANGED <<now, recording, quotes, health, runs, book, outbox, polls>>
    BY DEF StoreBatch
  <1> DEFINE g == gw[p]
             saved == Saved(p, batch, g.asOf)
             snaps == Snapshots(p, batch, g.asOf)
             blank == ShadowRun(p, g, "PASSED")
             valid == OfQuality(snaps, "VALID")
             stale == OfQuality(snaps, "STALE")
             schema == OfQuality(snaps, "PROVIDER_ERROR")
             row == [blank EXCEPT !.received = Len(batch), !.valid = valid,
                       !.invalid = saved.invalid, !.stale = stale,
                       !.duplicate = saved.duplicate, !.late = saved.late,
                       !.schema = schema]
             last == [row EXCEPT !.result = RunResult(row)]
             new == Added(saved.rows)
  <1>1. /\ g.phase = "fetch" /\ gw' = ToCommit(p, last, new, "none") /\ g.asOf \in Instants
        /\ UNCHANGED <<now, recording, quotes, health, runs, book, outbox>>
    BY <1>0 DEF FeedSound, GatewaySound
  <1>2. saved \in Saving(p)
    <2> HIDE DEF saved
    <2> QED BY <1>1, StoredInOrder DEF FeedSound, FeedTyped, saved
  <1> HIDE DEF saved
  <1>3. /\ Extends(saved.rows) /\ AddedBy(p, saved.rows)
        /\ saved.invalid \in Nat /\ saved.duplicate \in Nat /\ saved.late \in Nat
    BY <1>2 DEF Saving
  <1>4. NewRows(p, new)
    BY <1>3, AddedRows DEF FeedSound, FeedTyped
  <1>7. /\ blank \in Run /\ blank.provider = p /\ blank.at = g.asOf /\ blank.ended = now
        /\ blank.mutated = (Checksum(g.book) /= Checksum(book))
        /\ blank.fills = book.fills - g.book.fills /\ blank.touched = g.touched
    <2>1. "PASSED" \in RunResults
      BY DEF RunResults
    <2> HIDE DEF blank
    <2> QED BY <1>1, <2>1, ShadowRunType DEF blank
  <1>8. /\ valid \in Nat /\ stale \in Nat /\ schema \in Nat /\ Len(batch) \in Nat
        /\ valid + stale + schema <= Len(batch)
    <2>1. snaps \in Seq(QuoteSnapshot) /\ Len(snaps) = Len(batch) /\ Len(batch) \in Nat
      BY <1>1, SnapshotsType
    <2> HIDE DEF snaps
    <2> QED BY <2>1, QualitiesApart
  <1> HIDE DEF blank, valid, stale, schema, snaps, g, new
  <1>9. last = [provider |-> blank.provider, at |-> blank.at, ended |-> blank.ended,
                result |-> RunResult(row), mutated |-> blank.mutated, fills |-> blank.fills,
                received |-> Len(batch), valid |-> valid, invalid |-> saved.invalid,
                stale |-> stale, duplicate |-> saved.duplicate, late |-> saved.late,
                schema |-> schema, network |-> blank.network, touched |-> blank.touched,
                stored |-> blank.stored]
    <2> DEFINE got == Len(batch)
    <2>1. blank = [provider |-> blank.provider, at |-> blank.at, ended |-> blank.ended,
                   result |-> blank.result, mutated |-> blank.mutated, fills |-> blank.fills,
                   received |-> blank.received, valid |-> blank.valid,
                   invalid |-> blank.invalid, stale |-> blank.stale,
                   duplicate |-> blank.duplicate, late |-> blank.late,
                   schema |-> blank.schema, network |-> blank.network,
                   touched |-> blank.touched, stored |-> blank.stored]
      BY <1>7 DEF Run
    <2>2. row = [blank EXCEPT !.received = got, !.valid = valid,
                   !.invalid = saved.invalid, !.stale = stale,
                   !.duplicate = saved.duplicate, !.late = saved.late,
                   !.schema = schema]
      OBVIOUS
    <2> HIDE DEF row, got
    <2>3. row = [provider |-> blank.provider, at |-> blank.at, ended |-> blank.ended,
                 result |-> blank.result, mutated |-> blank.mutated, fills |-> blank.fills,
                 received |-> got, valid |-> valid, invalid |-> saved.invalid,
                 stale |-> stale, duplicate |-> saved.duplicate,
                 late |-> saved.late, schema |-> schema, network |-> blank.network,
                 touched |-> blank.touched, stored |-> blank.stored]
      BY <2>1, <2>2
    <2> QED BY <2>3 DEF got
  <1>10. row.mutated = blank.mutated /\ row.fills = blank.fills
    BY <1>7 DEF Run
  <1> HIDE DEF row, last
  <1>11. /\ RunResult(row) \in RunResults
         /\ RunResult(row) = "PASSED" => ~row.mutated /\ ~(row.fills > 0)
         /\ row.fills = 0 => RunResult(row) \in {"PASSED", "ACCOUNT_MUTATION_DETECTED"}
    BY <1>7, <1>10 DEF RunResult, RunResults
  <1>12. last \in Run
    BY <1>3, <1>7, <1>8, <1>9, <1>11 DEF Run
  <1>13. /\ last.provider = p /\ last.at = g.asOf /\ last.ended = now
         /\ last.result = RunResult(row) /\ last.mutated = blank.mutated
         /\ last.fills = blank.fills /\ last.touched = g.touched
         /\ CountsAddUp(last)
    BY <1>7, <1>8, <1>9 DEF CountsAddUp
  <1>14. ~last.mutated => ~last.touched
    <2>1. ~last.mutated => g.book.moves = book.moves
      BY <1>7, <1>13 DEF Checksum
    <2>2. g.book.moves \in Nat /\ book.moves \in Nat /\ GatewaySound(p)
      BY OfProvider DEF g, Book, FeedSound
    <2> QED BY <1>13, <2>1, <2>2 DEF GatewaySound, g
  <1>15. Verdict(last)
    <2>1. ~last.touched => last.fills = 0
      BY <1>1, <1>7, <1>13, UntouchedUnfilled DEF g
    <2> QED BY <1>10, <1>11, <1>13, <1>14, <2>1 DEF Verdict
  <1>16. RunPending(p, last)
    BY <1>12, <1>13, <1>15, OfProvider DEF RunPending, FeedSound, GatewaySound, g
  <1>17. last.touched = gw[p].touched /\ gw[p].phase = "fetch"
    BY <1>1, <1>13 DEF g
  <1> QED BY <1>1, <1>4, <1>16, <1>17, ToCommitSound

\* What a gateway commits leaves a sound feed with more rows and one more run.
LEMMA CommitSound ==
    ASSUME FeedSound, NEW p \in Providers, CommitPoll(p)
    PROVE  /\ FeedSound' /\ Extends(quotes') /\ runs \subseteq runs'
           /\ \A r \in runs' \ runs : /\ r.provider = p /\ r.at = gw[p].asOf /\ r.stored = now
                                      /\ r.touched = gw[p].run.touched
           /\ gw[p].phase = "commit" /\ gw'[p].phase = "idle" /\ gw'[p].asOf = gw[p].asOf
           /\ \A q \in Providers \ {p} : gw'[q] = gw[q]
           /\ UNCHANGED <<now, book>>
  <1> DEFINE g == gw[p]
             h == HealthAfter(health[p], g)
             row == [g.run EXCEPT !.stored = now]
  <1>1. /\ g.phase = "commit" /\ gw' = Done(p) /\ g.asOf \in Instants
        /\ quotes' = quotes \o g.new
        /\ health' = [health EXCEPT ![p] = h]
        /\ outbox' = notify_provider_change(p, health[p].status, h.status, g.asOf)
        /\ runs' = save_shadow_run(row)
        /\ UNCHANGED <<now, recording, book>>
        /\ RunPending(p, g.run) /\ NewRows(p, g.new)
    BY DEF CommitPoll, FeedSound, GatewaySound
  <1>2. g.run \in Run /\ g.run.invalid \in Nat /\ now \in Nat
    BY <1>1, OfProvider DEF RunPending, Run
  <1>3. /\ h \in HealthRow
        /\ h.failures = 0 \/ h.successes = 0
        /\ h.day = IF h.status = health[p].status THEN health[p].day ELSE DayOf[g.asOf]
        /\ h.fell \in Broken /\ h.successes = 0 => h.status \in Broken
        /\ h.status = "HEALTHY" /\ h.fell \in Broken
             => h.successes >= Recovery \/ h.successes >= 2
    <2>1. CASE g.err = "none"
      <3> DEFINE invalid == g.run.invalid
      <3>1. h = provider_success(health[p], invalid, g.asOf)
        BY <2>1 DEF HealthAfter
      <3> HIDE DEF h, g, invalid
      <3>2. invalid \in Nat
        BY <1>2 DEF invalid
      <3>3. /\ h \in HealthRow /\ h.failures = 0 /\ h.successes = health[p].successes + 1
            /\ h.fell = health[p].fell
            /\ h.day = IF h.status = health[p].status THEN health[p].day ELSE DayOf[g.asOf]
            /\ h.status = StatusAfterSuccess(health[p], invalid)
        BY <1>1, <3>1, <3>2, SuccessRow
      <3>4. h.successes # 0
        <4>1. health[p].successes \in Nat
          BY OfProvider DEF HealthRow
        <4> QED BY <3>3, <4>1
      <3>5. ASSUME h.status = "HEALTHY", h.fell \in Broken, ~(h.successes >= Recovery)
            PROVE  h.successes >= 2
        <4>1. health[p] \in HealthRow /\ HealthSound(p)
          BY OfProvider DEF FeedSound
        <4>2. health[p].successes \in Nat /\ Recovery \in Nat
          BY <4>1, FeedAssumption DEF HealthRow
        <4>3. health[p].status \notin Broken
          <5>1. ~(health[p].successes + 1 >= Recovery)
            BY <3>3, <3>5
          <5> QED BY <3>3, <3>5, <5>1 DEF StatusAfterSuccess
        <4>4. health[p].successes # 0
          BY <3>3, <3>5, <4>1, <4>3 DEF HealthSound
        <4> QED BY <3>3, <4>2, <4>4
      <3> QED BY <3>3, <3>4, <3>5
    <2>2. CASE g.err # "none"
      <3> DEFINE err == g.err
      <3>1. h = provider_failure(health[p], err, g.asOf)
        BY <2>2 DEF HealthAfter
      <3> HIDE DEF h, g, err
      <3>2. /\ h \in HealthRow /\ h.successes = 0 /\ h.fell = h.status
            /\ h.day = IF h.status = health[p].status THEN health[p].day ELSE DayOf[g.asOf]
            /\ h.status = StatusAfterFailure(health[p], err)
        BY <1>1, <3>1, FailureRow
      <3>3. h.status # "HEALTHY"
        BY <3>2 DEF StatusAfterFailure
      <3> QED BY <3>2, <3>3
    <2> QED BY <2>1, <2>2
  <1> HIDE DEF h
  <1>4. /\ health' \in [Providers -> HealthRow] /\ \A q \in Providers : HealthSound(q)'
        /\ StatusAnnounced'
    BY <1>1, <1>3, HealthMoves
  <1>5. Extends(quotes')
    <2>1. quotes \in Seq(QuoteSnapshot) /\ InOrder(quotes)
      BY DEF FeedSound, FeedTyped
    <2>2. Extends(quotes \o g.new)
      BY <1>1, <2>1, RowsPutBehind
    <2> QED BY <1>1, <2>2
  <1>6. ASSUME NEW q \in Providers \ {p}, gw[q].phase = "commit"
        PROVE  NewRows(q, gw[q].new)'
    <2>1. NewRows(q, gw[q].new) /\ quotes \in Seq(QuoteSnapshot)
      BY <1>6 DEF FeedSound, FeedTyped, GatewaySound
    <2>2. gw' = gw \/ gw' = Done(p)
      BY <1>1
    <2> DEFINE rows == gw[q].new
               others == g.new
    <2>3. NewRows(q, rows) /\ NewRows(p, others) /\ quotes' = quotes \o others
      BY <1>1, <2>1
    <2>4. gw'[q].new = rows
      <3>1. gw \in [Providers -> Gateway]
        BY DEF FeedSound, FeedTyped
      <3> QED BY <1>1, <1>6, <3>1 DEF Done
    <2> HIDE DEF rows, others
    <2>5. \A new : NewRows(q, new) => NewRows(q, new)'
      BY <1>6, <2>1, <2>3, StillBehind
    <2> QED BY <2>3, <2>4, <2>5
  <1>7. /\ gw' \in [Providers -> Gateway] /\ \A q \in Providers : GatewaySound(q)'
        /\ \A q \in Providers : gw'[q].asOf = gw[q].asOf
        /\ gw'[p].phase = "idle" /\ \A q \in Providers \ {p} : gw'[q] = gw[q]
    BY <1>1, <1>6, PollEnds
  <1>8. /\ row \in Run /\ row.provider = p /\ row.at = g.asOf /\ row.at <= row.ended
        /\ row.ended <= now /\ CountsAddUp(row) /\ Verdict(row)
        /\ row.stored = now /\ row.touched = g.run.touched
    <2> DEFINE run == g.run
    <2>1. run \in Run /\ RunPending(p, run)
      BY <1>1, <1>2
    <2> HIDE DEF run
    <2>2. [run EXCEPT !.stored = now] \in Run
      BY <1>2, <2>1 DEF Run
    <2> QED BY <1>2, <2>1, <2>2 DEF run, Run, RunPending, CountsAddUp, Verdict
  <1> HIDE DEF row
  <1>9. runs' \in SUBSET Run /\ IsFiniteSet(runs') /\ \A r \in runs' : RunSound(r)'
    BY <1>1, <1>7, <1>8, RunAdded
  <1>10. FeedTyped'
    BY <1>1, <1>4, <1>5, <1>7, <1>9 DEF FeedSound, FeedTyped, InOrder, Extends
  <1>11. runs \subseteq runs' /\ \A r \in runs' \ runs : r = row
    BY <1>1 DEF save_shadow_run
  <1> QED BY <1>1, <1>4, <1>5, <1>7, <1>8, <1>9, <1>10, <1>11 DEF FeedSound

\* A poll begins: the book it reads is the one of now.
LEMMA BeginPollSound ==
    ASSUME FeedSound, NEW p \in Providers, BeginPoll(p)
    PROVE  /\ FeedSound' /\ quotes' = quotes /\ runs' = runs
           /\ gw'[p].phase = "fetch" /\ gw'[p].asOf = now /\ gw'[p].book = book
           /\ \A q \in Providers \ {p} : gw'[q] = gw[q]
           /\ gw[p].phase = "idle" /\ gw[p].asOf < now
  <1> DEFINE began == Polling(book)
  <1>1. /\ gw[p].phase = "idle" /\ gw[p].asOf < now
        /\ gw' = [gw EXCEPT ![p] = began]
        /\ UNCHANGED <<now, recording, quotes, health, runs, book, outbox>>
    BY DEF BeginPoll
  <1>2. now \in Instants /\ now \in Nat /\ book \in Book /\ gw \in [Providers -> Gateway]
    BY OfProvider DEF FeedSound, FeedTyped
  <1>3. /\ began \in Gateway /\ began.phase = "fetch" /\ began.asOf = now
        /\ began.book = book /\ began.touched = FALSE
    <2>1. 1 \in 0..PollAttempts
      BY FeedAssumption
    <2>2. began = [Idle EXCEPT !.phase = "fetch", !.asOf = now, !.attempt = 1,
                               !.book = book]
      BY DEF Polling
    <2> HIDE DEF began
    <2> QED BY <1>2, <2>1, <2>2, IdleType DEF Gateway
  <1> HIDE DEF began
  <1>4. \A q \in Providers : gw'[q] = IF q = p THEN began ELSE gw[q]
    BY <1>1, <1>2
  <1>5. gw' \in [Providers -> Gateway]
    BY <1>1, <1>2, <1>3
  <1>6. \A q \in Providers : GatewaySound(q)'
    <2> SUFFICES ASSUME NEW q \in Providers PROVE GatewaySound(q)'
      OBVIOUS
    <2>1. book.moves \in Nat /\ book.fills \in Nat
      BY <1>2 DEF Book
    <2>2. CASE q = p
      <3>1. gw'[q] = began
        BY <1>4, <2>2
      <3> QED BY <1>1, <1>2, <1>3, <2>1, <3>1 DEF GatewaySound, ReadEarlier
    <2>3. CASE q # p
      BY <1>1, <1>4, <2>3 DEF FeedSound, GatewaySound, ReadEarlier, RunPending, NewRows, InOrder,
                                                  Behind, CountsAddUp, Verdict
    <2> QED BY <2>2, <2>3
  <1>7. ASSUME NEW r \in runs
        PROVE  RunSound(r)'
    <2>1. RunSound(r) /\ r \in Run
      BY DEF FeedSound, FeedTyped
    <2>2. r.provider \in Providers /\ r.at \in Nat /\ gw[p].asOf \in Nat
      BY <2>1, OfProvider DEF Run
    <2>3. CASE r.provider = p
      <3>1. r.at < now
        BY <1>1, <1>2, <2>1, <2>2, <2>3 DEF RunSound
      <3>2. gw'[r.provider].asOf = now
        BY <1>3, <1>4, <2>3
      <3> QED BY <1>1, <1>2, <2>1, <2>2, <3>1, <3>2 DEF RunSound, CountsAddUp, Verdict
    <2>4. CASE r.provider # p
      BY <1>1, <1>4, <2>1, <2>2, <2>4 DEF RunSound, CountsAddUp, Verdict
    <2> QED BY <2>3, <2>4
  <1>8. \A q \in Providers : HealthSound(q)'
    BY <1>1 DEF FeedSound, HealthSound
  <1>9. FeedTyped' /\ StatusAnnounced'
    BY <1>1, <1>5 DEF FeedSound, FeedTyped, InOrder, StatusAnnounced
  <1> QED BY <1>1, <1>3, <1>4, <1>6, <1>7, <1>8, <1>9 DEF FeedSound

\* A poll that is tried again is the poll it was.
LEMMA RetrySound ==
    ASSUME FeedSound, NEW p \in Providers, Retry(p)
    PROVE  /\ FeedSound' /\ quotes' = quotes /\ runs' = runs
           /\ \A q \in Providers : /\ gw'[q].phase = gw[q].phase /\ gw'[q].asOf = gw[q].asOf
                                   /\ gw'[q].book = gw[q].book
                                   /\ gw'[q].touched = gw[q].touched
                                   /\ gw'[q].run = gw[q].run /\ gw'[q].new = gw[q].new
  <1> DEFINE again == [gw[p] EXCEPT !.attempt = @ + 1]
  <1>1. /\ gw[p].attempt < PollAttempts
        /\ gw' = [gw EXCEPT ![p] = again]
        /\ UNCHANGED <<now, recording, quotes, health, runs, book, outbox>>
    BY DEF Retry, MayRetry
  <1>2. gw[p] \in Gateway /\ gw \in [Providers -> Gateway]
    BY DEF FeedSound, FeedTyped
  <1>3. gw[p].attempt + 1 \in 0..PollAttempts
    BY <1>1, <1>2, FeedAssumption DEF Gateway
  <1>4. again = [gw[p] EXCEPT !.attempt = gw[p].attempt + 1]
    BY <1>2 DEF Gateway
  <1> HIDE DEF again
  <1>5. /\ again \in Gateway /\ again.phase = gw[p].phase /\ again.asOf = gw[p].asOf
        /\ again.book = gw[p].book /\ again.touched = gw[p].touched
        /\ again.run = gw[p].run /\ again.new = gw[p].new
    BY <1>2, <1>3, <1>4 DEF Gateway
  <1>6. \A q \in Providers : gw'[q] = IF q = p THEN again ELSE gw[q]
    BY <1>1, <1>2
  <1>7. \A q \in Providers : /\ gw'[q].phase = gw[q].phase /\ gw'[q].asOf = gw[q].asOf
                             /\ gw'[q].book = gw[q].book
                             /\ gw'[q].touched = gw[q].touched
                             /\ gw'[q].run = gw[q].run /\ gw'[q].new = gw[q].new
    BY <1>5, <1>6
  <1>8. gw' \in [Providers -> Gateway]
    BY <1>1, <1>2, <1>5
  <1>9. \A q \in Providers : GatewaySound(q)' /\ HealthSound(q)'
    BY <1>1, <1>7 DEF FeedSound, GatewaySound, HealthSound, ReadEarlier, RunPending, NewRows,
                      InOrder, Behind, CountsAddUp, Verdict
  <1>10. \A r \in runs' : RunSound(r)'
    BY <1>1, <1>7 DEF FeedSound, FeedTyped, Run, RunSound, CountsAddUp, Verdict
  <1>11. FeedTyped' /\ StatusAnnounced'
    BY <1>1, <1>8 DEF FeedSound, FeedTyped, InOrder, StatusAnnounced
  <1> QED BY <1>1, <1>7, <1>9, <1>10, <1>11 DEF FeedSound

\* A poll that is lost leaves everything but its gateway.
LEMMA LostPollSound ==
    ASSUME FeedSound, NEW p \in Providers, SchemaEscapes(p) \/ RecordingClashes(p)
    PROVE  FeedSound' /\ quotes' = quotes /\ runs' = runs
  <1>1. /\ gw[p].phase = "fetch" /\ gw' = Done(p)
        /\ UNCHANGED <<now, recording, quotes, health, runs, book, outbox>>
    BY DEF SchemaEscapes, RecordingClashes
  <1>6. ASSUME NEW q \in Providers \ {p}, gw[q].phase = "commit" PROVE NewRows(q, gw[q].new)'
    <2>1. NewRows(q, gw[q].new)
      BY <1>6 DEF FeedSound, GatewaySound
    <2>2. gw'[q] = gw[q]
      BY <1>1, <1>6 DEF Done, FeedSound, FeedTyped
    <2> QED BY <1>1, <2>1, <2>2 DEF NewRows, InOrder, Behind
  <1>2. /\ gw' \in [Providers -> Gateway]
        /\ \A q \in Providers : GatewaySound(q)'
        /\ \A q \in Providers : gw'[q].asOf = gw[q].asOf
        /\ gw'[p].phase = "idle" /\ \A q \in Providers \ {p} : gw'[q] = gw[q]
    BY <1>1, <1>6, PollEnds
  <1>3. ASSUME NEW r \in runs
        PROVE  RunSound(r)'
    <2>1. RunSound(r) /\ r.provider \in Providers
      BY DEF FeedSound, FeedTyped, Run
    <2>2. CASE r.provider = p
      BY <1>1, <1>2, <2>1, <2>2 DEF RunSound, CountsAddUp, Verdict
    <2>3. CASE r.provider # p
      BY <1>1, <1>2, <2>1, <2>3 DEF RunSound, CountsAddUp, Verdict
    <2> QED BY <2>2, <2>3
  <1>4. \A q \in Providers : HealthSound(q)'
    BY <1>1 DEF FeedSound, HealthSound
  <1>5. FeedTyped' /\ StatusAnnounced'
    BY <1>1, <1>2 DEF FeedSound, FeedTyped, InOrder, StatusAnnounced
  <1> QED BY <1>1, <1>2, <1>3, <1>4, <1>5 DEF FeedSound

\* The clock moves on.
LEMMA TickSound ==
    ASSUME FeedSound, Tick
    PROVE  FeedSound' /\ quotes' = quotes /\ runs' = runs /\ now' = now + 1 /\ gw' = gw
  <1>1. /\ now + 1 \in Instants /\ now' = now + 1
        /\ UNCHANGED <<recording, quotes, health, gw, runs, book, outbox>>
    BY DEF Tick
  <1>2. now \in Nat
    BY InstantsAreNumbers DEF FeedSound, FeedTyped
  <1>3. ASSUME NEW p \in Providers
        PROVE  GatewaySound(p)' /\ HealthSound(p)'
    <2>1. gw[p].asOf \in Nat
      BY OfProvider
    <2>2. GatewaySound(p) /\ HealthSound(p)
      BY DEF FeedSound
    <2>3. gw[p].phase = "commit" => gw[p].run.ended \in Nat
      BY <2>2 DEF GatewaySound, RunPending, Run
    <2> QED BY <1>1, <1>2, <2>1, <2>2, <2>3
      DEF GatewaySound, HealthSound, ReadEarlier, RunPending, NewRows, InOrder, Behind,
          CountsAddUp, Verdict
  <1>4. ASSUME NEW r \in runs
        PROVE  RunSound(r)'
    <2>1. r.ended \in Nat /\ RunSound(r)
      BY DEF FeedSound, FeedTyped, Run
    <2> QED BY <1>1, <1>2, <2>1 DEF RunSound, CountsAddUp, Verdict
  <1>5. FeedTyped' /\ StatusAnnounced'
    BY <1>1 DEF FeedSound, FeedTyped, InOrder, StatusAnnounced
  <1> QED BY <1>1, <1>3, <1>4, <1>5 DEF FeedSound

\* The book moves, and every poll under way is told.
LEMMA BookMovesSound ==
    ASSUME FeedSound, BookMoves
    PROVE  /\ FeedSound' /\ quotes' = quotes /\ runs' = runs /\ now' = now
           /\ book'.moves = book.moves + 1
           /\ \A q \in Providers : /\ gw'[q].phase = gw[q].phase /\ gw'[q].asOf = gw[q].asOf
                                   /\ gw'[q].book = gw[q].book /\ gw'[q].run = gw[q].run
  <1>1. /\ \E filled \in {0, 1} :
              book' = [book EXCEPT !.moves = @ + 1, !.fills = @ + filled]
        /\ gw' = [p \in Providers |->
                    IF gw[p].phase = "fetch" THEN [gw[p] EXCEPT !.touched = TRUE] ELSE gw[p]]
        /\ UNCHANGED <<now, recording, quotes, health, runs, outbox>>
    BY DEF BookMoves
  <1>2. book \in Book /\ book.moves \in Nat /\ book.fills \in Nat
    BY DEF FeedSound, FeedTyped, Book
  <1>3. /\ book' \in Book /\ book'.moves = book.moves + 1 /\ book'.fills >= book.fills
        /\ book'.fills \in Nat
    <2>1. PICK filled \in {0, 1} :
            book' = [book EXCEPT !.moves = @ + 1, !.fills = @ + filled]
      BY <1>1
    <2> DEFINE m == book.moves + 1
               f == book.fills + filled
    <2>2. m \in Nat /\ f \in Nat /\ f >= book.fills
      BY <1>2
    <2>3. book' = [book EXCEPT !.moves = m, !.fills = f]
      BY <1>2, <2>1
    <2> HIDE DEF m, f
    <2>4. book' \in Book /\ book'.moves = m /\ book'.fills = f
      BY <1>2, <2>2, <2>3 DEF Book
    <2> QED BY <2>2, <2>4 DEF m
  <1>4. \A p \in Providers : gw[p] \in Gateway
    BY DEF FeedSound, FeedTyped
  <1>5. ASSUME NEW p \in Providers
        PROVE  /\ gw'[p] \in Gateway /\ gw'[p].phase = gw[p].phase
               /\ gw'[p].asOf = gw[p].asOf /\ gw'[p].book = gw[p].book
               /\ gw'[p].run = gw[p].run /\ gw'[p].new = gw[p].new
               /\ gw'[p].touched => gw[p].phase = "fetch" \/ gw[p].touched
               /\ gw[p].phase = "fetch" => gw'[p].touched
    <2>1. gw'[p] = IF gw[p].phase = "fetch" THEN [gw[p] EXCEPT !.touched = TRUE] ELSE gw[p]
      BY <1>1
    <2>2. gw[p] \in Gateway
      BY <1>4
    <2> QED BY <2>1, <2>2 DEF Gateway
  <1>6. gw' \in [Providers -> Gateway]
    BY <1>1, <1>5
  <1>7. ASSUME NEW p \in Providers
        PROVE  GatewaySound(p)' /\ HealthSound(p)'
    <2>1. GatewaySound(p) /\ HealthSound(p)
      BY DEF FeedSound
    <2>2. gw[p].book.moves \in Nat /\ gw[p].book.fills \in Nat
      BY <1>4 DEF Gateway, Book
    <2>3. ReadEarlier(gw[p].book) => /\ gw[p].book.moves < book'.moves
                                     /\ gw[p].book.moves <= book'.moves
                                     /\ gw[p].book.fills <= book'.fills
                                     /\ gw[p].book.moves # book'.moves
      BY <1>2, <1>3, <2>2 DEF ReadEarlier
    <2>4. gw[p].phase = "commit" => RunPending(p, gw[p].run)' /\ NewRows(p, gw[p].new)'
      BY <1>1, <1>5, <2>1
      DEF GatewaySound, RunPending, NewRows, InOrder, Behind, CountsAddUp, Verdict
    <2>5. gw[p].phase = "fetch" => ReadEarlier(gw[p].book)'
      BY <1>5, <2>1, <2>3 DEF GatewaySound, ReadEarlier
    <2>6. gw'[p].touched => gw'[p].phase = "fetch" /\ gw'[p].book.moves < book'.moves
      BY <1>5, <2>1, <2>3 DEF GatewaySound
    <2> QED BY <1>1, <1>5, <2>1, <2>4, <2>5, <2>6 DEF GatewaySound, HealthSound
  <1>8. \A r \in runs' : RunSound(r)'
    BY <1>1, <1>5 DEF FeedSound, FeedTyped, Run, RunSound, CountsAddUp, Verdict
  <1>9. FeedTyped' /\ StatusAnnounced'
    BY <1>1, <1>3, <1>6 DEF FeedSound, FeedTyped, InOrder, StatusAnnounced
  <1> QED BY <1>1, <1>3, <1>5, <1>7, <1>8, <1>9 DEF FeedSound

\* An account is paused or resumed, and no poll is told.
LEMMA SwitchAccountSound ==
    ASSUME FeedSound, SwitchAccount
    PROVE  /\ FeedSound' /\ UNCHANGED <<now, quotes, runs, gw>>
           /\ book'.moves = book.moves /\ book'.fills = book.fills
  <1>1. /\ book' = [book EXCEPT !.switches = @ + 1]
        /\ UNCHANGED <<now, recording, quotes, health, gw, runs, outbox>>
    BY DEF SwitchAccount
  <1>2. book \in Book
    BY DEF FeedSound, FeedTyped
  <1>3. book' \in Book /\ book'.moves = book.moves /\ book'.fills = book.fills
    BY <1>1, <1>2 DEF Book
  <1>4. ASSUME NEW p \in Providers
        PROVE  GatewaySound(p)' /\ HealthSound(p)'
    BY <1>1, <1>3 DEF FeedSound, GatewaySound, HealthSound, ReadEarlier, RunPending, NewRows,
                      InOrder, Behind, CountsAddUp, Verdict
  <1>5. \A r \in runs' : RunSound(r)'
    BY <1>1 DEF FeedSound, RunSound, CountsAddUp, Verdict
  <1>6. FeedTyped' /\ StatusAnnounced'
    BY <1>1, <1>3 DEF FeedSound, FeedTyped, InOrder, StatusAnnounced
  <1> QED BY <1>1, <1>3, <1>4, <1>5, <1>6 DEF FeedSound

\* A feed that rests is as sound as it was.
LEMMA RestSound ==
    ASSUME FeedSound, UNCHANGED feedVars
    PROVE  FeedSound'
  <1>1. UNCHANGED <<now, recording, quotes, health, gw, runs, book, outbox>>
    BY DEF feedVars
  <1>2. \A p \in Providers : GatewaySound(p)' /\ HealthSound(p)'
    BY <1>1 DEF FeedSound, GatewaySound, HealthSound, ReadEarlier, RunPending, NewRows,
                InOrder, Behind, CountsAddUp, Verdict
  <1>3. \A r \in runs' : RunSound(r)'
    BY <1>1 DEF FeedSound, RunSound, CountsAddUp, Verdict
  <1> QED BY <1>1, <1>2, <1>3 DEF FeedSound, FeedTyped, InOrder, StatusAnnounced

\* Every step of the feed keeps it sound.
LEMMA FeedSoundStep == FeedSound /\ [FeedNext]_feedVars => FeedSound'
  <1> SUFFICES ASSUME FeedSound, [FeedNext]_feedVars PROVE FeedSound'
    OBVIOUS
  <1>1. ASSUME NEW p \in Providers, BeginPoll(p) PROVE FeedSound'
    BY <1>1, BeginPollSound
  <1>2. ASSUME NEW p \in Providers, Retry(p) PROVE FeedSound'
    BY <1>2, RetrySound
  <1>3. ASSUME NEW p \in Providers, FetchFails(p) PROVE FeedSound'
    BY <1>3, FetchFailsSound
  <1>4. ASSUME NEW p \in Providers, StoreBatch(p) PROVE FeedSound'
    BY <1>4, StoreBatchSound
  <1>5. ASSUME NEW p \in Providers, SchemaEscapes(p) \/ RecordingClashes(p) PROVE FeedSound'
    BY <1>5, LostPollSound
  <1>6. ASSUME Tick PROVE FeedSound'
    BY <1>6, TickSound
  <1>7. ASSUME BookMoves PROVE FeedSound'
    BY <1>7, BookMovesSound
  <1>8. ASSUME UNCHANGED feedVars PROVE FeedSound'
    BY <1>8, RestSound
  <1>9. ASSUME NEW p \in Providers, CommitPoll(p) PROVE FeedSound'
    BY <1>9, CommitSound
  <1>10. ASSUME SwitchAccount PROVE FeedSound'
    BY <1>10, SwitchAccountSound
  <1> QED
    BY <1>1, <1>2, <1>3, <1>4, <1>5, <1>6, <1>7, <1>8, <1>9, <1>10
    DEF FeedNext, FeedStep, GatewayStep, PollStep, Resting

\* The feed is sound in every state.
THEOREM FeedAlwaysSound == FeedSpec => []FeedSound
  <1> QED
    BY FeedSoundInit, FeedSoundStep, PTL DEF FeedSpec

\* What is stored of the polls is consistent, and no valid quote of a provider stands
\* behind one that is newer: RowsKept, for any number of providers, polls and batches.
THEOREM RowsAlwaysKept == FeedSpec => []RowsKept
  <1> QED
    BY FeedAlwaysSound, FeedSoundSays, PTL

\* A health row is earned by polls, and its status was announced: HealthEarned, for any
\* thresholds.
THEOREM HealthAlwaysEarned == FeedSpec => []HealthEarned
  <1> QED
    BY FeedAlwaysSound, FeedSoundSays, PTL

\* A poll that PASSED saw no fill, order or ledger entry committed between its two reads of
\* the book, whichever transaction made it, and the accounts as it had found them:
\* PassedMeansUntouched, for any number of providers and any traffic of the book.
THEOREM PassedPollsUntouched == FeedSpec => []PassedMeansUntouched
  <1> QED
    BY FeedAlwaysSound, FeedSoundSays, PTL

----------------------------------------------------------------------------
(* What a step of the feed may never do.                                   *)

\* The first quote a selection can find among rows of one time.
PriorityFirst(rows) ==
    CHOOSE r \in rows : \A o \in rows : Priority[r.provider] <= Priority[o.provider]

\* The choice by priority exists among finitely many rows.
LEMMA PriorityChooses ==
    ASSUME NEW rows, IsFiniteSet(rows), rows \subseteq QuoteSnapshot, rows # {}
    PROVE  PriorityFirst(rows) \in rows
  <1> DEFINE ranks == {0 - Priority[r.provider] : r \in rows}
  <1>1. \A r \in rows : Priority[r.provider] \in Int
    BY FeedAssumption DEF QuoteSnapshot
  <1>2. IsFiniteSet(ranks)
    <2> DEFINE rank == [r \in rows |-> 0 - Priority[r.provider]]
    <2>1. ranks = {rank[r] : r \in rows}
      OBVIOUS
    <2> HIDE DEF rank, ranks
    <2>2. IsFiniteSet({rank[r] : r \in rows})
      BY ImageFinite
    <2> QED BY <2>1, <2>2
  <1>3. ranks \subseteq Int /\ ranks # {}
    BY <1>1
  <1>4. Max(ranks) \in ranks /\ \A y \in ranks : Max(ranks) >= y
    <2> HIDE DEF ranks
    <2> QED BY <1>2, <1>3, MaxIn
  <1>5. PICK r \in rows : Max(ranks) = 0 - Priority[r.provider]
    BY <1>4
  <1>6. \A o \in rows : Priority[r.provider] <= Priority[o.provider]
    <2> SUFFICES ASSUME NEW o \in rows PROVE Priority[r.provider] <= Priority[o.provider]
      OBVIOUS
    <2>1. 0 - Priority[o.provider] \in ranks
      OBVIOUS
    <2>2. 0 - Priority[r.provider] >= 0 - Priority[o.provider]
      BY <1>4, <1>5, <2>1
    <2> QED BY <1>1, <2>2
  <1> QED BY <1>6 DEF PriorityFirst

\* A selection is a fresh valid quote of the day, and none of those is newer.
SelectionRight ==
    \A s : select_for_matching(s).time > 0 =>
        /\ select_for_matching(s) \in Fresh(s, now)
        /\ \A o \in Fresh(s, now) : o.time <= select_for_matching(s).time
        /\ Fresh(s, now) \subseteq QuoteSnapshot

\* That is so in every sound state.
LEMMA SelectionIsLatest == FeedSound => SelectionRight
  <1> SUFFICES ASSUME FeedSound, NEW s, select_for_matching(s).time > 0
               PROVE  /\ select_for_matching(s) \in Fresh(s, now)
                      /\ \A o \in Fresh(s, now) : o.time <= select_for_matching(s).time
                      /\ Fresh(s, now) \subseteq QuoteSnapshot
    BY DEF SelectionRight
  <1> DEFINE fresh == Fresh(s, now)
             rows == Latest(fresh)
  <1>1. quotes \in Seq(QuoteSnapshot)
    BY DEF FeedSound, FeedTyped
  <1>2. IsFiniteSet(ToSet(quotes)) /\ ToSet(quotes) \subseteq QuoteSnapshot
    <2>1. IsFiniteSet(1..Len(quotes)) /\ DOMAIN quotes = 1..Len(quotes)
      BY <1>1, FS_Interval
    <2>2. ToSet(quotes) = {quotes[i] : i \in 1..Len(quotes)}
      BY <2>1 DEF ToSet
    <2>3. IsFiniteSet(ToSet(quotes))
      BY <2>1, <2>2, ImageFinite
    <2> QED BY <1>1, <2>2, <2>3
  <1>3. fresh \subseteq ToSet(quotes)
    BY DEF Fresh, latest_valid_quotes
  <1>4. rows \subseteq fresh
    BY DEF Latest
  <1>5. IsFiniteSet(rows) /\ rows \subseteq QuoteSnapshot
    <2> HIDE DEF rows, fresh
    <2> QED BY <1>2, <1>3, <1>4, FS_Subset
  <1>6. rows # {} /\ select_for_matching(s) = PriorityFirst(rows)
    <2>1. NoQuote.time = 0
      BY DEF NoQuote
    <2> QED BY <2>1 DEF select_for_matching, PriorityFirst
  <1>7. select_for_matching(s) \in rows
    <2> HIDE DEF rows
    <2> QED BY <1>5, <1>6, PriorityChooses
  <1> QED BY <1>2, <1>3, <1>4, <1>7 DEF Latest

\* And in the state a step leads to.
LEMMA SelectionIsLatestNext == FeedSound' => SelectionRight'
  <1> QED BY SelectionIsLatest, PTL

\* A selection of a later state is no older: the rows selected from only grow, and
\* what is no longer fresh is older than what is.
LEMMA SelectionStep ==
    ASSUME FeedSound, FeedSound', Extends(quotes'), now' = now \/ now' = now + 1, NEW s,
           select_for_matching(s).time > 0, select_for_matching(s)'.time > 0
    PROVE  select_for_matching(s).time <= select_for_matching(s)'.time
  <1> DEFINE old == select_for_matching(s)
             new == select_for_matching(s)'
  <1>1. /\ old \in Fresh(s, now) /\ Fresh(s, now) \subseteq QuoteSnapshot
        /\ new \in Fresh(s, now)' /\ Fresh(s, now)' \subseteq QuoteSnapshot
        /\ \A o \in Fresh(s, now)' : o.time <= new.time
    <2>1. SelectionRight /\ SelectionRight'
      BY SelectionIsLatest, SelectionIsLatestNext
    <2> QED BY <2>1 DEF SelectionRight
  <1> HIDE DEF old, new
  <1>2. old.time \in Instants /\ new.time \in Instants /\ now \in Instants /\ now' \in Instants
    BY <1>1 DEF QuoteSnapshot, FeedSound, FeedTyped
  <1>3. old.time \in Nat /\ new.time \in Nat /\ now \in Nat /\ now' \in Nat /\ MaxAge \in Nat
    BY <1>2, InstantsAreNumbers, FeedAssumption
  <1>4. /\ old \in ToSet(quotes) /\ old.symbol = s /\ old.quality = "VALID"
        /\ DayOf[old.time] = DayOf[now] /\ old.time <= now
    BY <1>1 DEF Fresh, latest_valid_quotes
  <1>5. DayOf[new.time] = DayOf[now'] /\ new.time <= now' /\ now' - new.time <= MaxAge
    BY <1>1 DEF Fresh, latest_valid_quotes
  <1>6. old \in ToSet(quotes')
    <2>1. quotes \in Seq(QuoteSnapshot) /\ quotes' \in Seq(QuoteSnapshot)
      BY DEF FeedSound, FeedTyped
    <2>2. PICK i \in 1..Len(quotes) : quotes[i] = old
      BY <1>4, <2>1 DEF ToSet
    <2>3. i \in DOMAIN quotes' /\ quotes'[i] = old
      BY <2>1, <2>2 DEF Extends
    <2> QED BY <2>3 DEF ToSet
  <1>7. now <= now' /\ old.time <= now'
    BY <1>3, <1>4
  <1>8. old.time <= new.time
    <2>1. CASE DayOf[old.time] = DayOf[now'] /\ now' - old.time <= MaxAge
      <3>1. old \in Fresh(s, now)'
        BY <1>4, <1>6, <1>7, <2>1 DEF Fresh, latest_valid_quotes
      <3> QED BY <1>1, <3>1
    <2>2. CASE ~(now' - old.time <= MaxAge)
      BY <1>3, <1>5, <2>2
    <2>3. CASE DayOf[old.time] # DayOf[now']
      <3>1. ASSUME new.time < old.time PROVE FALSE
        <4>1. new.time <= old.time
          BY <1>3, <3>1
        <4>2. DayOf[new.time] <= DayOf[old.time] /\ DayOf[old.time] <= DayOf[now']
          BY <1>2, <1>7, <4>1, FeedAssumption
        <4>3. \A t \in Instants : DayOf[t] \in Nat
          BY FeedAssumption DEF Instants
        <4>4. DayOf[new.time] \in Nat /\ DayOf[old.time] \in Nat
          BY <1>2, <4>3
        <4> QED BY <1>5, <2>3, <4>2, <4>4
      <3> QED BY <1>3, <3>1
    <2> QED BY <2>1, <2>2, <2>3
  <1> QED BY <1>8 DEF old, new

\* A step keeps the stored quotes and adds in order, and the clock takes no more than one
\* tick.
LEMMA QuotesGrow ==
    ASSUME FeedSound, [FeedNext]_feedVars
    PROVE  Extends(quotes') /\ (now' = now \/ now' = now + 1)
  <1>1. Extends(quotes)
    <2>1. quotes \in Seq(QuoteSnapshot) /\ InOrder(quotes)
      BY DEF FeedSound, FeedTyped
    <2>2. Len(quotes) \in Nat
      BY <2>1
    <2> QED BY <2>1, <2>2 DEF Extends
  <1>2. ASSUME quotes' = quotes PROVE Extends(quotes')
    BY <1>1, <1>2 DEF Extends, InOrder
  <1>3. ASSUME NEW p \in Providers, BeginPoll(p) \/ Retry(p) \/ FetchFails(p)
                                    \/ StoreBatch(p) \/ SchemaEscapes(p) \/ RecordingClashes(p)
        PROVE  quotes' = quotes /\ now' = now
    BY <1>3 DEF BeginPoll, Retry, FetchFails, StoreBatch, SchemaEscapes, RecordingClashes
  <1>4. ASSUME NEW p \in Providers, CommitPoll(p)
        PROVE  Extends(quotes') /\ now' = now
    BY <1>4, CommitSound
  <1>5. Tick => quotes' = quotes /\ now' = now + 1
    BY DEF Tick
  <1>6. BookMoves \/ SwitchAccount \/ UNCHANGED feedVars => quotes' = quotes /\ now' = now
    BY DEF BookMoves, SwitchAccount, feedVars
  <1> QED
    BY <1>2, <1>3, <1>4, <1>5, <1>6
    DEF FeedNext, FeedStep, GatewayStep, PollStep, Resting

\* The quote a monitor matches with never goes back in time, for any number of providers,
\* any priorities and any delays: the stored quotes only grow, and one that is no longer
\* fresh is older than every one that is.
THEOREM SelectionStaysForward == FeedSpec => SelectionNeverGoesBack
  <1>1. FeedSound /\ FeedSound' /\ [FeedNext]_feedVars =>
          [\A s \in Symbols :
             LET old == select_for_matching(s)
                 new == select_for_matching(s)'
             IN  old.time > 0 /\ new.time > 0 => old.time <= new.time]_feedVars
    <2> SUFFICES ASSUME FeedSound, FeedSound', [FeedNext]_feedVars, NEW s \in Symbols,
                        select_for_matching(s).time > 0, select_for_matching(s)'.time > 0
                 PROVE  select_for_matching(s).time <= select_for_matching(s)'.time
      OBVIOUS
    <2>1. Extends(quotes') /\ (now' = now \/ now' = now + 1)
      BY QuotesGrow
    <2> QED BY <2>1, SelectionStep
  <1> QED
    BY <1>1, FeedAlwaysSound, PTL DEF FeedSpec, SelectionNeverGoesBack

----------------------------------------------------------------------------
(* The admission runs over the feed.                                       *)

\* A step of the admission is one of the feed, or leaves the feed alone.
LEMMA AdmissionStepsFeed == [AdmissionNext]_admissionVars => [FeedNext]_feedVars
  <1> SUFFICES ASSUME [AdmissionNext]_admissionVars PROVE [FeedNext]_feedVars
    OBVIOUS
  <1>1. ASSUME FeedRuns PROVE FeedNext
    BY <1>1 DEF FeedRuns, FeedNext, FeedStep, GatewayStep
  <1>2. ASSUME NEW p \in Providers, Escape(p) PROVE FeedNext
    BY <1>2 DEF Escape, FeedNext, FeedStep, GatewayStep
  <1>3. CheckPolls => FeedNext
    BY AdmissionAssumption DEF CheckPolls, FeedNext, FeedStep
  <1>4. ReportOnly \/ Evaluate \/ Degrade \/ BeginCheck \/ EndCheck => UNCHANGED feedVars
    BY DEF ReportOnly, Evaluate, Degrade, BeginCheck, EndCheck
  <1>5. UNCHANGED admissionVars => UNCHANGED feedVars
    BY DEF admissionVars
  <1> QED BY <1>1, <1>2, <1>3, <1>4, <1>5 DEF AdmissionNext

\* Whatever the admission does, the feed under it is the feed: the commands of the
\* operator, the reports and the evaluations never write what the gateways do.
THEOREM AdmissionRunsFeed == AdmissionSpec => FeedSpec
  <1>1. AdmissionInit => FeedInit
    BY DEF AdmissionInit
  <1> QED
    BY <1>1, AdmissionStepsFeed, PTL DEF AdmissionSpec, FeedSpec

\* The runs of the polls only grow, by runs that are stored now.
LEMMA RunsGrow ==
    ASSUME FeedSound, [FeedNext]_feedVars
    PROVE  /\ runs \subseteq runs' /\ \A r \in runs' \ runs : r.stored = now
           /\ now \in Nat /\ now <= now'
  <1>1. now \in Nat
    BY InstantsAreNumbers DEF FeedSound, FeedTyped
  <1>2. now <= now'
    BY <1>1, QuotesGrow
  <1>3. ASSUME NEW p \in Providers, BeginPoll(p) \/ Retry(p) \/ FetchFails(p) \/ StoreBatch(p)
                                    \/ SchemaEscapes(p) \/ RecordingClashes(p)
        PROVE  runs' = runs
    BY <1>3 DEF BeginPoll, Retry, FetchFails, StoreBatch, SchemaEscapes, RecordingClashes
  <1>4. ASSUME NEW p \in Providers, CommitPoll(p)
        PROVE  runs \subseteq runs' /\ \A r \in runs' \ runs : r.stored = now
    BY <1>4, CommitSound
  <1>5. Tick \/ BookMoves \/ SwitchAccount \/ UNCHANGED feedVars => runs' = runs
    BY DEF Tick, BookMoves, SwitchAccount, feedVars
  <1> QED
    BY <1>1, <1>2, <1>3, <1>4, <1>5
    DEF FeedNext, FeedStep, GatewayStep, PollStep, Resting

\* The runs bear out that day d was complete when its report was made.
Judged(d, at) ==
    /\ \A half \in {"AM", "PM"} :
           \E r \in RunsOf(d) : r.result = "PASSED" /\ Half[r.at] = half
    /\ \A r \in RunsOf(d) : r.stored < at => r.result = "PASSED"

\* A report is no better than its runs.
ReportSound(d) ==
    /\ reports[d].status \in {"COMPLETE", "INCOMPLETE"}
    /\ reports[d].valid <= reports[d].received
    /\ reports[d].at \in Instants /\ reports[d].at <= now
    /\ d <= DayOf[reports[d].at]
    /\ reports[d].status = "COMPLETE" => Judged(d, reports[d].at)

\* The book has not gone back since the check read it, nor had it when the poll under
\* the check read it; if that poll was touched, the check can tell.
CheckSound ==
    /\ check \in [on : BOOLEAN, began : BOOLEAN, book : Book]
    /\ check.began => check.on
    /\ check.on => check.book.moves <= book.moves
    /\ check.began /\ gw[Provider].phase = "fetch" =>
           check.book.moves <= gw[Provider].book.moves
    /\ check.began /\ gw[Provider].phase = "commit" =>
           (gw[Provider].run.touched => check.book.moves < book.moves)
    /\ check.began /\ gw[Provider].phase = "idle" =>
           \A r \in CheckRun : r.touched => check.book.moves < book.moves

AdmissionSound ==
    /\ IsFiniteSet(DOMAIN reports) /\ \A d \in DOMAIN reports : ReportSound(d)
    /\ admissions \in Seq(AdmissionStatus)
    /\ \A e \in degraded : e.status \in DegradeStatuses
    /\ CheckSound

\* The last completed trading day is one, and not one to come.
LEMMA LatestDay ==
    ASSUME FeedSound, latest_completed_trading_day # 0
    PROVE  /\ latest_completed_trading_day \in TradingDays
           /\ latest_completed_trading_day <= DayOf[now]
  <1> DEFINE today == DayOf[now]
             done == {d \in TradingDays :
                         d < today \/ (d = today /\ Half[now] = "CLOSED")}
             last == CHOOSE d \in done : \A e \in done : e <= d
  <1>1. done # {} /\ latest_completed_trading_day = last
    BY DEF latest_completed_trading_day
  <1>2. IsFiniteSet(done) /\ done \subseteq Int
    <2>1. done \subseteq TradingDays
      OBVIOUS
    <2>2. IsFiniteSet(TradingDays) /\ TradingDays \subseteq Int
      BY AdmissionAssumption
    <2> HIDE DEF done
    <2>3. IsFiniteSet(done)
      BY <2>1, <2>2, FS_Subset
    <2> QED BY <2>1, <2>2, <2>3
  <1>3. \A d \in done : d \in TradingDays /\ d <= today
    <2>1. now \in Instants
      BY DEF FeedSound, FeedTyped
    <2>2. today \in Nat
      BY <2>1, FeedAssumption DEF Instants
    <2> QED BY <2>2, AdmissionAssumption
  <1> HIDE DEF done, today
  <1>4. Max(done) \in done /\ \A e \in done : e <= Max(done)
    <2>1. Max(done) \in done /\ \A e \in done : Max(done) >= e
      BY <1>1, <1>2, MaxIn
    <2> QED BY <1>2, <2>1
  <1>5. last \in done
    BY <1>4
  <1> HIDE DEF last
  <1> QED BY <1>1, <1>3, <1>5 DEF today

\* What the policy of a complete day has seen in its runs.
LEMMA CompleteDay ==
    ASSUME NEW day, NEW rs, DayStatus(day, rs) = "COMPLETE"
    PROVE  /\ session_complete(rs, "AM") /\ session_complete(rs, "PM")
           /\ \A r \in rs : r.result = "PASSED"
  <1>1. DayFailures(day, rs) = {}
    BY DEF DayStatus
  <1>2. /\ Unless(session_complete(rs, "AM"), "morning session incomplete") = {}
        /\ Unless(session_complete(rs, "PM"), "afternoon session incomplete") = {}
        /\ Unless(\A r \in rs : r.result = "PASSED", "shadow runs failed") = {}
    BY <1>1 DEF DayFailures
  <1> QED BY <1>2 DEF Unless

\* The report made now of the last completed day is sound.
LEMMA ReportMade ==
    ASSUME FeedSound, NEW day, day = latest_completed_trading_day, day # 0
    PROVE  /\ DayReport(day).status \in {"COMPLETE", "INCOMPLETE"}
           /\ DayReport(day).valid <= DayReport(day).received
           /\ DayReport(day).at = now /\ day <= DayOf[now]
           /\ DayReport(day).status = "COMPLETE" => Judged(day, now)
  <1> DEFINE rs == RunsOf(day)
             rep == DayReport(day)
             valid == [r \in rs |-> r.valid]
             received == [r \in rs |-> r.received]
  <1>1. IsFiniteSet(rs) /\ rs \subseteq runs
    BY FS_Subset DEF FeedSound, FeedTyped, RunsOf
  <1>2. \A r \in rs : r.valid \in Int /\ r.received \in Int /\ r.valid <= r.received
    <2> SUFFICES ASSUME NEW r \in rs
                 PROVE  r.valid \in Int /\ r.received \in Int /\ r.valid <= r.received
      OBVIOUS
    <2>1. r \in Run /\ r.valid + r.stale + r.schema <= r.received
      BY <1>1 DEF FeedSound, FeedTyped, RunSound, CountsAddUp
    <2>2. r.valid \in Nat /\ r.stale \in Nat /\ r.schema \in Nat /\ r.received \in Nat
      BY <2>1 DEF Run
    <2> QED BY <2>1, <2>2
  <1>3. SumFunctionOnSet(valid, rs) <= SumFunctionOnSet(received, rs)
    <2>1. \A r \in rs : valid[r] = r.valid /\ received[r] = r.received
      OBVIOUS
    <2> HIDE DEF valid, received, rs
    <2> QED BY <1>1, <1>2, <2>1, SumMonotone
  <1>4. DOMAIN valid = rs /\ DOMAIN received = rs
    OBVIOUS
  <1>5. /\ rep.valid = SumFunction(valid) /\ rep.received = SumFunction(received)
        /\ rep.status = DayStatus(day, rs) /\ rep.at = now
    BY DEF DayReport
  <1>6. rep.valid <= rep.received
    <2> HIDE DEF rep, valid, received, rs
    <2> QED BY <1>3, <1>4, <1>5 DEF SumFunction
  <1>7. rep.status = "COMPLETE" => Judged(day, now)
    <2> HIDE DEF rep
    <2> SUFFICES ASSUME rep.status = "COMPLETE" PROVE Judged(day, now)
      OBVIOUS
    <2>1. /\ session_complete(rs, "AM") /\ session_complete(rs, "PM")
          /\ \A r \in rs : r.result = "PASSED"
      BY <1>5, CompleteDay
    <2> QED BY <2>1 DEF Judged, session_complete
  <1>8. rep.status \in {"COMPLETE", "INCOMPLETE"}
    BY <1>5 DEF DayStatus
  <1>9. day <= DayOf[now]
    BY LatestDay
  <1> QED BY <1>5, <1>6, <1>7, <1>8, <1>9

\* A report stays sound while the polls go on: the runs it was made of are still there,
\* and a run that is stored later does not count.
LEMMA ReportStays ==
    ASSUME FeedSound, [FeedNext]_feedVars, NEW d \in DOMAIN reports, ReportSound(d),
           d \in DOMAIN reports', reports'[d] = reports[d]
    PROVE  ReportSound(d)'
  <1> DEFINE at == reports[d].at
  <1>1. at \in Nat /\ at <= now
    BY InstantsAreNumbers DEF ReportSound
  <1>2. /\ runs \subseteq runs' /\ \A r \in runs' \ runs : r.stored = now
        /\ now \in Nat /\ now <= now'
    BY RunsGrow
  <1>3. now' \in Nat
    BY <1>2, QuotesGrow
  <1>4. at <= now'
    BY <1>1, <1>2, <1>3
  <1>5. Judged(d, at) => Judged(d, at)'
    <2> SUFFICES ASSUME Judged(d, at) PROVE Judged(d, at)'
      OBVIOUS
    <2>1. \A half \in {"AM", "PM"} :
              \E r \in RunsOf(d)' : r.result = "PASSED" /\ Half[r.at] = half
      BY <1>2 DEF Judged, RunsOf
    <2>2. ASSUME NEW r \in RunsOf(d)', r.stored < at PROVE r.result = "PASSED"
      <3>1. CASE r \in runs
        BY <2>2, <3>1 DEF Judged, RunsOf
      <3>2. CASE r \notin runs
        <4>1. r.stored = now
          BY <1>2, <3>2 DEF RunsOf
        <4> QED BY <1>1, <1>2, <2>2, <4>1
      <3> QED BY <3>1, <3>2
    <2> QED BY <2>1, <2>2 DEF Judged
  <1> QED BY <1>4, <1>5 DEF ReportSound

\* What the check has seen of the book stays in order while the feed moves under it.
LEMMA CheckStays ==
    ASSUME FeedSound, CheckSound, FeedRuns \/ \E p \in Providers : Escape(p)
    PROVE  CheckSound'
  <1> DEFINE P == Provider
  <1>0. /\ P \in Providers /\ UNCHANGED check
        /\ book.moves \in Nat /\ check.book.moves \in Nat
        /\ gw[P].book.moves \in Nat /\ gw[P].asOf \in Nat
    <2>1. P \in Providers
      BY AdmissionAssumption
    <2> QED BY <2>1, OfProvider DEF FeedRuns, Escape, admVars, CheckSound, Book
  <1>1. ASSUME NEW p \in Providers, gw[p].phase # "idle", gw'[p].phase = "idle",
               gw'[p].asOf = gw[p].asOf, \A q \in Providers \ {p} : gw'[q] = gw[q],
               UNCHANGED book, runs \subseteq runs',
               \A r \in runs' \ runs : /\ r.provider = p
                                      /\ gw[p].phase = "commit" /\ r.touched = gw[p].run.touched
        PROVE  CheckSound'
    <2>1. ASSUME NEW r \in CheckRun', check.began, gw'[P].phase = "idle", r.touched
          PROVE  check.book.moves < book.moves
      <3>1. r \in runs' /\ r.provider = P /\ r.at = gw[P].asOf
        BY <1>0, <1>1 DEF CheckRun
      <3>2. CASE p = P
        <4>1. r \notin runs
          <5>1. r \in runs => r.at < gw[P].asOf
            BY <1>1, <3>1, <3>2 DEF FeedSound, RunSound
          <5> QED BY <1>0, <3>1, <5>1
        <4> QED BY <1>1, <2>1, <3>1, <3>2, <4>1 DEF CheckSound
      <3>3. CASE p # P
        <4>1. gw'[P] = gw[P] /\ r \in runs
          BY <1>0, <1>1, <3>1, <3>3
        <4>2. r \in CheckRun
          BY <3>1, <4>1 DEF CheckRun
        <4> QED BY <2>1, <4>1, <4>2 DEF CheckSound
      <3> QED BY <3>2, <3>3
    <2>2. gw'[P].phase # "idle" => gw'[P] = gw[P]
      BY <1>0, <1>1
    <2> QED BY <1>0, <1>1, <2>1, <2>2 DEF CheckSound
  <1>2. ASSUME NEW p \in Providers, Retry(p) PROVE CheckSound'
    <2>1. /\ runs' = runs /\ gw'[P].phase = gw[P].phase /\ gw'[P].asOf = gw[P].asOf
          /\ gw'[P].book = gw[P].book /\ gw'[P].run = gw[P].run
      BY <1>0, <1>2, RetrySound
    <2>2. book' = book
      BY <1>2 DEF Retry
    <2> QED BY <1>0, <2>1, <2>2 DEF CheckSound, CheckRun
  <1>3. ASSUME NEW p \in Providers, FetchOver(p) PROVE CheckSound'
    <2>1. CASE p = P
      <3>1. gw[P].touched => gw[P].book.moves < book.moves
        BY <1>0 DEF FeedSound, GatewaySound
      <3>2. check.began /\ gw[P].touched => check.book.moves < book.moves
        BY <1>0, <1>3, <2>1, <3>1 DEF FetchOver, CheckSound
      <3> QED BY <1>0, <1>3, <2>1, <3>2 DEF FetchOver, CheckSound
    <2>2. CASE p # P
      <3>1. gw'[P] = gw[P] /\ UNCHANGED <<runs, book>>
        BY <1>0, <1>3, <2>2 DEF FetchOver
      <3> QED BY <1>0, <3>1 DEF CheckSound, CheckRun
    <2> QED BY <2>1, <2>2
  <1>4. ASSUME NEW p \in Providers, CommitPoll(p) PROVE CheckSound'
    <2>1. /\ runs \subseteq runs'
          /\ \A r \in runs' \ runs : r.provider = p /\ r.touched = gw[p].run.touched
          /\ gw[p].phase = "commit" /\ gw'[p].phase = "idle" /\ gw'[p].asOf = gw[p].asOf
          /\ \A q \in Providers \ {p} : gw'[q] = gw[q]
          /\ UNCHANGED book
      BY <1>4, CommitSound
    <2> QED BY <1>1, <2>1
  <1>5. ASSUME NEW p \in Providers, SchemaEscapes(p) \/ RecordingClashes(p) PROVE CheckSound'
    <2>1. /\ gw' = Done(p) /\ gw[p].phase = "fetch" /\ UNCHANGED <<now, book>> /\ runs' = runs
          /\ gw \in [Providers -> Gateway]
      BY <1>5 DEF SchemaEscapes, RecordingClashes, FeedSound, FeedTyped
    <2>2. gw'[p] = [Idle EXCEPT !.asOf = gw[p].asOf] /\ \A q \in Providers \ {p} : gw'[q] = gw[q]
      BY <2>1 DEF Done
    <2>3. gw'[p].phase = "idle" /\ gw'[p].asOf = gw[p].asOf
      BY <2>2, IdleType DEF Gateway
    <2> QED BY <1>1, <2>1, <2>2, <2>3
  <1>6. ASSUME NEW p \in Providers, ~check.on, BeginPoll(p) PROVE CheckSound'
    BY <1>0, <1>6 DEF CheckSound
  <1>7. ASSUME Tick PROVE CheckSound'
    <2>1. UNCHANGED <<gw, runs, book>>
      BY <1>7 DEF Tick
    <2> QED BY <1>0, <2>1 DEF CheckSound, CheckRun
  <1>8. ASSUME BookMoves PROVE CheckSound'
    <2>1. /\ runs' = runs /\ book'.moves = book.moves + 1
          /\ gw'[P].phase = gw[P].phase /\ gw'[P].asOf = gw[P].asOf
          /\ gw'[P].book = gw[P].book /\ gw'[P].run = gw[P].run
      BY <1>0, <1>8, BookMovesSound
    <2>2. check.on => check.book.moves < book'.moves /\ check.book.moves <= book'.moves
      BY <1>0, <2>1 DEF CheckSound
    <2>3. check' = check /\ CheckSound
      BY <1>0
    <2> QED BY <2>1, <2>2, <2>3 DEF CheckSound
  <1>9. ASSUME SwitchAccount PROVE CheckSound'
    <2>1. UNCHANGED <<runs, gw>> /\ book'.moves = book.moves
      BY <1>9, SwitchAccountSound
    <2> QED BY <1>0, <2>1 DEF CheckSound, CheckRun
  <1>10. ASSUME NEW p \in Providers, FetchFails(p) \/ StoreBatch(p) PROVE FetchOver(p)
    BY <1>10, FetchFailsSound, StoreBatchSound
  <1> QED
    BY <1>2, <1>3, <1>4, <1>5, <1>6, <1>7, <1>8, <1>9, <1>10 DEF FeedRuns, Escape, PollStep

\* The statuses of an evaluation.
LEMMA EvaluationType ==
    /\ \A configured \in BOOLEAN : SummaryStatus(configured) \in AdmissionStatus
    /\ StatusFromRuns \subseteq AdmissionStatus
    /\ ProviderConfigured \in BOOLEAN
  <1>1. \A configured \in BOOLEAN : SummaryStatus(configured) \in AdmissionStatus
    BY DEF SummaryStatus, AdmissionStatus
  <1>2. StatusFromRuns \subseteq AdmissionStatus
    BY DEF StatusFromRuns, AdmissionStatus
  <1>3. ProviderConfigured \in BOOLEAN
    BY DEF ProviderConfigured
  <1> QED BY <1>1, <1>2, <1>3

\* The admission begins sound.
LEMMA AdmissionSoundInit == AdmissionInit => AdmissionSound
  <1> SUFFICES ASSUME AdmissionInit PROVE AdmissionSound
    OBVIOUS
  <1>1. DOMAIN reports = {}
    BY DEF AdmissionInit
  <1>2. IsFiniteSet(DOMAIN reports) /\ \A d \in DOMAIN reports : ReportSound(d)
    BY <1>1, FS_EmptySet
  <1>3. CheckSound
    BY DEF AdmissionInit, NoCheck, NoBook, CheckSound, Book
  <1> QED BY <1>2, <1>3 DEF AdmissionInit, AdmissionSound

\* Every step of the admission keeps it sound.
LEMMA AdmissionSoundStep ==
    FeedSound /\ AdmissionSound /\ [AdmissionNext]_admissionVars => AdmissionSound'
  <1> SUFFICES ASSUME FeedSound, AdmissionSound, [AdmissionNext]_admissionVars
               PROVE  AdmissionSound'
    OBVIOUS
  <1>1. [FeedNext]_feedVars
    BY AdmissionStepsFeed
  <1>2. ASSUME UNCHANGED reports
        PROVE  IsFiniteSet(DOMAIN reports') /\ \A d \in DOMAIN reports' : ReportSound(d)'
    BY <1>1, <1>2, ReportStays DEF AdmissionSound
  <1>3. ASSUME UNCHANGED <<feedVars, check>> PROVE CheckSound'
    <2>1. UNCHANGED <<gw, runs, book, check>>
      BY <1>3 DEF feedVars
    <2> QED BY <2>1 DEF AdmissionSound, CheckSound, CheckRun
  <1>4. ASSUME FeedRuns \/ \E p \in Providers : Escape(p) PROVE AdmissionSound'
    <2>1. UNCHANGED <<reports, admissions, degraded>>
      BY <1>4 DEF FeedRuns, Escape, admVars
    <2>2. CheckSound'
      BY <1>4, CheckStays DEF AdmissionSound
    <2> QED BY <1>2, <2>1, <2>2 DEF AdmissionSound
  <1>5. ASSUME ReportOnly PROVE AdmissionSound'
    <2>0. PICK day : day = latest_completed_trading_day
      OBVIOUS
    <2> DEFINE made == DayReport(day)
    <2>1. /\ day # 0 /\ UNCHANGED <<feedVars, admissions, degraded, check>>
          /\ reports' = [d \in DOMAIN reports \cup {day} |->
                            IF d = day THEN made ELSE reports[d]]
      BY <1>5, <2>0 DEF ReportOnly
    <2>2. /\ made.status \in {"COMPLETE", "INCOMPLETE"} /\ made.valid <= made.received
          /\ made.at = now /\ day <= DayOf[now]
          /\ made.status = "COMPLETE" => Judged(day, now)
      BY <2>0, <2>1, ReportMade
    <2> HIDE DEF made
    <2>3. DOMAIN reports' = DOMAIN reports \cup {day} /\ reports'[day] = made
      BY <2>1
    <2>4. IsFiniteSet(DOMAIN reports')
      BY <2>3, FS_AddElement DEF AdmissionSound
    <2>5. now' = now /\ runs' = runs /\ now \in Instants /\ now \in Nat
      BY <2>1, InstantsAreNumbers DEF feedVars, FeedSound, FeedTyped
    <2>6. ReportSound(day)'
      <3>1. Judged(day, now) => Judged(day, now)'
        BY <2>5 DEF Judged, RunsOf
      <3>2. reports'[day].at = now'
        BY <2>2, <2>3, <2>5
      <3> QED BY <2>2, <2>3, <2>5, <3>1, <3>2 DEF ReportSound
    <2>7. ASSUME NEW d \in DOMAIN reports', d # day PROVE ReportSound(d)'
      <3>1. d \in DOMAIN reports /\ reports'[d] = reports[d] /\ ReportSound(d)
        BY <2>1, <2>3, <2>7 DEF AdmissionSound
      <3> QED BY <1>1, <2>7, <3>1, ReportStays
    <2>8. CheckSound'
      BY <1>3, <2>1
    <2>9. \A d \in DOMAIN reports' : ReportSound(d)'
      BY <2>6, <2>7
    <2> QED BY <2>1, <2>4, <2>8, <2>9 DEF AdmissionSound
  <1>6. ASSUME Evaluate PROVE AdmissionSound'
    <2>1. UNCHANGED <<feedVars, reports, degraded, check>>
      BY <1>6 DEF Evaluate
    <2>2. \E status \in AdmissionStatus : admissions' = Append(admissions, status)
      BY <1>6, EvaluationType DEF Evaluate
    <2>3. admissions' \in Seq(AdmissionStatus)
      BY <2>2 DEF AdmissionSound
    <2> QED BY <1>2, <1>3, <2>1, <2>3 DEF AdmissionSound
  <1>7. ASSUME Degrade PROVE AdmissionSound'
    <2>1. UNCHANGED <<feedVars, reports, admissions, check>>
      BY <1>7 DEF Degrade
    <2>2. \A e \in degraded' : e.status \in DegradeStatuses
      BY <1>7 DEF Degrade, AdmissionSound
    <2> QED BY <1>2, <1>3, <2>1, <2>2 DEF AdmissionSound
  <1>8. ASSUME BeginCheck PROVE AdmissionSound'
    <2>1. UNCHANGED <<feedVars, reports, admissions, degraded>>
      BY <1>8 DEF BeginCheck
    <2>2. UNCHANGED <<gw, runs, book>>
      BY <2>1 DEF feedVars
    <2>3. book \in Book /\ book.moves \in Nat
      BY DEF FeedSound, FeedTyped, Book
    <2>4. CheckSound'
      <3>1. CASE Configured
        <4>1. check' = [on |-> TRUE, began |-> FALSE, book |-> book]
          BY <1>8, <3>1 DEF BeginCheck, NoCheck
        <4> QED BY <2>2, <2>3, <4>1 DEF CheckSound
      <3>2. CASE ~Configured
        <4>1. check' = check
          BY <1>8, <3>2 DEF BeginCheck
        <4> QED BY <1>3, <2>1, <4>1
      <3> QED BY <3>1, <3>2
    <2> QED BY <1>2, <2>1, <2>4 DEF AdmissionSound
  <1>9. ASSUME CheckPolls PROVE AdmissionSound'
    <2>1. UNCHANGED <<reports, admissions, degraded>>
      BY <1>9 DEF CheckPolls
    <2>2. Provider \in Providers /\ check.on /\ BeginPoll(Provider)
          /\ check' = [check EXCEPT !.began = TRUE]
      BY <1>9, AdmissionAssumption DEF CheckPolls
    <2>3. gw'[Provider].phase = "fetch" /\ gw'[Provider].book = book /\ book' = book
      BY <2>2, BeginPollSound DEF BeginPoll
    <2>4. check \in [on : BOOLEAN, began : BOOLEAN, book : Book] /\ CheckSound
      BY DEF AdmissionSound, CheckSound
    <2>5. check' = [on |-> check.on, began |-> TRUE, book |-> check.book]
      BY <2>2, <2>4
    <2>6. CheckSound'
      BY <2>2, <2>3, <2>4, <2>5 DEF CheckSound
    <2> QED BY <1>2, <2>1, <2>6 DEF AdmissionSound
  <1>10. ASSUME EndCheck PROVE AdmissionSound'
    <2>1. UNCHANGED <<feedVars, reports, admissions, degraded>> /\ check' = NoCheck
      BY <1>10 DEF EndCheck
    <2>2. CheckSound'
      BY <2>1 DEF CheckSound, NoCheck, NoBook, Book
    <2> QED BY <1>2, <2>1, <2>2 DEF AdmissionSound
  <1>11. ASSUME UNCHANGED admissionVars PROVE AdmissionSound'
    <2>1. UNCHANGED <<feedVars, reports, admissions, degraded, check>>
      BY <1>11 DEF admissionVars, admVars
    <2> QED BY <1>2, <1>3, <2>1 DEF AdmissionSound
  <1> QED
    BY <1>4, <1>5, <1>6, <1>7, <1>8, <1>9, <1>10, <1>11 DEF AdmissionNext

\* The admission is sound in every state, over a sound feed.
THEOREM AdmissionAlwaysSound == AdmissionSpec => [](FeedSound /\ AdmissionSound)
  <1>1. AdmissionSpec => []FeedSound
    BY AdmissionRunsFeed, FeedAlwaysSound, PTL
  <1> QED
    BY <1>1, AdmissionSoundInit, AdmissionSoundStep, PTL DEF AdmissionSpec

\* A provider shown eligible has the complete days that are asked for, and the polls
\* themselves bear each of them out: AdmissionEarned, for any calendar and thresholds.
THEOREM EligibilityIsEarned == AdmissionSpec => []AdmissionEarned
  <1>1. AdmissionSound => AdmissionEarned
    <2> SUFFICES ASSUME AdmissionSound PROVE AdmissionEarned
      OBVIOUS
    <2>1. AdmissionTypeOK
      <3>1. \A d \in DOMAIN reports : DayOf[reports[d].at] >= d
        BY DEF AdmissionSound, ReportSound
      <3>2. \A i \in DOMAIN admissions : admissions[i] \in AdmissionStatus
        BY DEF AdmissionSound
      <3> QED BY <3>1, <3>2 DEF AdmissionTypeOK, AdmissionSound, ReportSound, CheckSound
    <2>2. EligibleEarned
      <3> DEFINE earned == {d \in DOMAIN reports :
                    /\ \A half \in {"AM", "PM"} : \E r \in RunsOf(d) :
                           r.result = "PASSED" /\ Half[r.at] = half
                    /\ \A r \in RunsOf(d) :
                           r.stored < reports[d].at => r.result = "PASSED"}
      <3> SUFFICES ASSUME NEW configured \in BOOLEAN,
                          SummaryStatus(configured) = "ELIGIBLE_FOR_REVIEW"
                   PROVE  MinDays <= Cardinality(earned)
        BY EvaluationType, AdmissionAssumption DEF EligibleEarned
      <3>1. ~(Cardinality(CompleteDays) < MinDays)
        BY DEF SummaryStatus
      <3>2. CompleteDays \subseteq earned
        BY DEF CompleteDays, AdmissionSound, ReportSound, Judged
      <3>3. earned \subseteq DOMAIN reports /\ IsFiniteSet(DOMAIN reports)
        BY DEF AdmissionSound
      <3> HIDE DEF earned
      <3>4. IsFiniteSet(earned)
        BY <3>3, FS_Subset
      <3>5. IsFiniteSet(CompleteDays) /\ Cardinality(CompleteDays) <= Cardinality(earned)
        BY <3>2, <3>4, FS_Subset
      <3>6. Cardinality(CompleteDays) \in Nat /\ Cardinality(earned) \in Nat /\ MinDays \in Nat
        BY <3>4, <3>5, FS_CardinalityType, AdmissionAssumption
      <3> QED BY <3>1, <3>5, <3>6
    <2> QED BY <2>1, <2>2 DEF AdmissionEarned
  <1> QED
    BY <1>1, AdmissionAlwaysSound, PTL

\* A check that reports PASSED wrapped a poll that stored its batch and between whose reads
\* no fill, order or ledger entry was committed, whatever else changed the book before,
\* between and after the reads of the two: CheckImpliesRun, for any traffic of the book.
THEOREM PassedChecksMatchRuns == AdmissionSpec => CheckImpliesRun
  <1>1. FeedSound /\ AdmissionSound /\ [AdmissionNext]_admissionVars =>
          [checks' = {"PASSED"} /\ checks = {} =>
             \E r \in CheckRun :
                 /\ ~r.touched /\ r.fills = 0
                 /\ r.result \in {"PASSED", "ACCOUNT_MUTATION_DETECTED"}]_admissionVars
    <2> SUFFICES ASSUME FeedSound, AdmissionSound, AdmissionNext,
                        checks' = {"PASSED"}, checks = {}
                 PROVE  \E r \in CheckRun :
                            /\ ~r.touched /\ r.fills = 0
                            /\ r.result \in {"PASSED", "ACCOUNT_MUTATION_DETECTED"}
      OBVIOUS
    <2>1. checks' # checks
      OBVIOUS
    <2>2. ~FeedRuns /\ ~(\E p \in Providers : Escape(p)) /\ ~ReportOnly /\ ~Evaluate
          /\ ~Degrade /\ ~CheckPolls
      BY <2>1 DEF FeedRuns, admVars, Escape, ReportOnly, Evaluate, Degrade, CheckPolls
    <2>3. ~BeginCheck
      BY <2>1 DEF BeginCheck
    <2>4. EndCheck
      BY <2>2, <2>3 DEF AdmissionNext
    <2>5. CheckStatus(\E r \in CheckRun : r.network = 0, check.book) = "PASSED"
      BY <2>4 DEF EndCheck
    <2>6. PICK r \in CheckRun : r.network = 0
      BY <2>5 DEF CheckStatus
    <2>7. Checksum(check.book) = Checksum(book)
      BY <2>5 DEF CheckStatus
    <2>8. check.book.moves = book.moves /\ book.moves \in Nat
      BY <2>7 DEF Checksum, FeedSound, FeedTyped, Book
    <2>9. ~r.touched
      BY <2>4, <2>6, <2>8 DEF EndCheck, AdmissionSound, CheckSound
    <2>10. Verdict(r)
      BY <2>6 DEF CheckRun, FeedSound, RunSound
    <2> QED BY <2>6, <2>9, <2>10 DEF Verdict
  <1> QED
    BY <1>1, AdmissionAlwaysSound, PTL DEF AdmissionSpec, CheckImpliesRun
=============================================================================
