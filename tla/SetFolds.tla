------------------------------ MODULE SetFolds ------------------------------
EXTENDS Integers, FiniteSetsExt, FiniteSetTheorems, WellFoundedInduction, TLAPS

\* Induction over the subsets of a finite set, as a fact about the set T of
\* those that have a property.
LEMMA SubsetInduction ==
    ASSUME NEW S, IsFiniteSet(S), NEW T,
           \A s \in SUBSET S : (\A x \in s : s \ {x} \in T) => s \in T
    PROVE  \A s \in SUBSET S : s \in T
  <1> DEFINE bad == {s \in SUBSET S : s \notin T}
             less == StrictSubsetOrdering(S)
  <1> SUFFICES ASSUME bad # {} PROVE FALSE
    OBVIOUS
  <1>1. IsWellFoundedOn(less, SUBSET S)
    <2>1. FiniteSubsetsOf(S) = SUBSET S
      BY FS_FiniteSubsetsOfFinite
    <2>2. IsWellFoundedOn(StrictSubsetOrdering(S), FiniteSubsetsOf(S))
      BY FS_StrictSubsetOrderingWellFounded
    <2> QED BY <2>1, <2>2
  <1>2. PICK s \in bad : \A u \in bad : <<u, s>> \notin less
    <2> HIDE DEF less
    <2>1. bad \subseteq SUBSET S
      OBVIOUS
    <2> HIDE DEF bad
    <2> QED BY <1>1, <2>1, WFMin
  <1>3. PICK x \in s : s \ {x} \notin T
    BY <1>2
  <1>4. s \ {x} \in bad
    BY <1>3
  <1>5. <<s \ {x}, s>> \in less
    BY <1>3, <1>4 DEF StrictSubsetOrdering
  <1> QED
    BY <1>2, <1>4, <1>5

\* The recursion of a fold over the subsets of S: pick[s] is the element taken
\* next, op[<<x, v>>] the value with x after the value v of the rest.
Picks(pick, S) == \A s \in SUBSET S : s # {} => pick[s] \in s
Folds(g, S, base, pick, op) ==
    \A s \in SUBSET S :
        g[s] = IF s = {} THEN base ELSE op[<<pick[s], g[s \ {pick[s]}]>>]

\* Two functions that satisfy the same recursion are equal.
LEMMA FoldUnique ==
    ASSUME NEW S, IsFiniteSet(S), NEW base, NEW pick, NEW op, NEW g, NEW h,
           Picks(pick, S), Folds(g, S, base, pick, op), Folds(h, S, base, pick, op)
    PROVE  \A s \in SUBSET S : g[s] = h[s]
  <1> USE DEF Picks, Folds
  <1> DEFINE T == {s \in SUBSET S : g[s] = h[s]}
  <1>1. ASSUME NEW s \in SUBSET S, \A x \in s : s \ {x} \in T
        PROVE  s \in T
    <2>1. CASE s = {}
      BY <2>1
    <2>2. CASE s # {}
      <3>1. pick[s] \in s
        BY <2>2
      <3>2. g[s \ {pick[s]}] = h[s \ {pick[s]}]
        BY <3>1, <1>1
      <3> QED BY <2>2, <3>2
    <2> QED BY <2>1, <2>2
  <1>2. \A s \in SUBSET S : s \in T
    <2> HIDE DEF T
    <2> QED BY <1>1, SubsetInduction
  <1> QED BY <1>2

\* The recursion that a fold over a finite set follows has a solution.
LEMMA FoldExists ==
    ASSUME NEW S, IsFiniteSet(S), NEW V, NEW base \in V, NEW pick,
           NEW op \in [S \X V -> V],
           Picks(pick, S)
    PROVE  \E g \in [SUBSET S -> V] : Folds(g, S, base, pick, op)
  <1> USE DEF Picks
  <1> DEFINE Step(g, s) ==
               IF s = {} THEN base ELSE op[<<pick[s], g[s \ {pick[s]}]>>]
             Solves(g, u) == g \in [SUBSET u -> V]
                               /\ Folds(g, u, base, pick, op)
             T == {u \in SUBSET S : \E g : Solves(g, u)}
  <1> USE DEF Folds
  <1>1. ASSUME NEW u \in SUBSET S, \A x \in u : u \ {x} \in T
        PROVE  u \in T
    <2>1. CASE u = {}
      <3> DEFINE g == [s \in SUBSET u |-> base]
      <3>1. Solves(g, u)
        BY <2>1
      <3> QED BY <3>1
    <2>2. CASE u # {}
      <3> DEFINE of(x) == CHOOSE g : Solves(g, u \ {x})
      <3>1. \A x \in u : Solves(of(x), u \ {x})
        BY <1>1
      <3>2. \A x, y \in u : \A s \in SUBSET ((u \ {x}) \cap (u \ {y})) :
               of(x)[s] = of(y)[s]
        <4> SUFFICES ASSUME NEW x \in u, NEW y \in u
                     PROVE  \A s \in SUBSET ((u \ {x}) \cap (u \ {y})) :
                               of(x)[s] = of(y)[s]
          OBVIOUS
        <4> DEFINE W == (u \ {x}) \cap (u \ {y})
                   a == of(x)
                   b == of(y)
        <4>1. IsFiniteSet(W)
          BY FS_Subset
        <4>2. Picks(pick, W)
          OBVIOUS
        <4>3. Folds(a, W, base, pick, op)
          BY <3>1
        <4>5. Folds(b, W, base, pick, op)
          BY <3>1
        <4> HIDE DEF W, a, b, of, Solves, Folds, Picks
        <4>4. \A s \in SUBSET W : a[s] = b[s]
          BY <4>1, <4>2, <4>3, <4>5, FoldUnique
        <4> QED BY <4>4 DEF W, a, b
      <3> DEFINE part(s) == CHOOSE x \in u : x \notin s
                 below(s) == of(part(s))[s]
                 g == [s \in SUBSET u |->
                         IF s # u THEN below(s)
                         ELSE op[<<pick[u], of(pick[u])[u \ {pick[u]}]>>]]
      <3>3. pick[u] \in u /\ pick[u] \in S
        BY <2>2
      <3>4. \A s \in SUBSET u : s # u => part(s) \in u /\ part(s) \notin s
        OBVIOUS
      <3>5. \A x \in u : \A s \in SUBSET (u \ {x}) : of(x)[s] \in V
        BY <3>1
      <3>10. \A x \in u : \A s \in SUBSET (u \ {x}) : of(x)[s] = Step(of(x), s)
        BY <3>1
      <3> HIDE DEF of, part
      <3>6. \A s \in SUBSET u : \A x \in u : x \notin s => g[s] = of(x)[s]
        <4> SUFFICES ASSUME NEW s \in SUBSET u, NEW x \in u, x \notin s
                     PROVE  g[s] = of(x)[s]
          OBVIOUS
        <4>1. g[s] = of(part(s))[s] /\ part(s) \in u /\ part(s) \notin s
          BY <3>4
        <4> QED BY <4>1, <3>2
      <3>7. g \in [SUBSET u -> V]
        <4> SUFFICES ASSUME NEW s \in SUBSET u PROVE g[s] \in V
          OBVIOUS
        <4>1. CASE s # u
          <5>1. part(s) \in u /\ part(s) \notin s
            BY <4>1, <3>4
          <5>2. s \in SUBSET (u \ {part(s)})
            BY <5>1
          <5> QED BY <4>1, <5>1, <5>2, <3>5
        <4>2. CASE s = u
          <5>1. of(pick[u])[u \ {pick[u]}] \in V
            BY <3>3, <3>5
          <5> QED BY <4>2, <5>1, <3>3
        <4> QED BY <4>1, <4>2
      <3>8. ASSUME NEW s \in SUBSET u PROVE g[s] = Step(g, s)
        <4>1. CASE s = u
          <5>1. g[u \ {pick[u]}] = of(pick[u])[u \ {pick[u]}]
            BY <3>3, <3>6
          <5> QED BY <4>1, <5>1, <2>2
        <4>2. CASE s # u
          <5> DEFINE x == part(s)
          <5>1. x \in u /\ x \notin s
            BY <4>2, <3>4
          <5> HIDE DEF x
          <5>2. g[s] = of(x)[s]
            BY <5>1, <3>6
          <5>3. of(x)[s] = Step(of(x), s)
            BY <5>1, <3>10
          <5>4. CASE s = {}
            BY <5>2, <5>3, <5>4
          <5>5. CASE s # {}
            <6>1. g[s \ {pick[s]}] = of(x)[s \ {pick[s]}]
              BY <5>1, <3>6
            <6> HIDE DEF g
            <6> QED BY <5>2, <5>3, <5>5, <6>1
          <5> QED BY <5>4, <5>5
        <4> QED BY <4>1, <4>2
      <3>9. Solves(g, u)
        <4> HIDE DEF g
        <4> QED BY <3>7, <3>8
      <3> QED BY <3>9
    <2> QED BY <2>1, <2>2
  <1>2. S \in T
    <2> HIDE DEF T
    <2> QED BY <1>1, SubsetInduction
  <1> QED BY <1>2

----------------------------------------------------------------------------
(* Sums.                                                                   *)

\* The recursion behind SumFunctionOnSet, over the subsets of S.
SumIter(f, S) ==
    CHOOSE iter : iter = [s \in SUBSET S |->
        IF s = {} THEN 0
        ELSE f[CHOOSE x \in s : TRUE] + iter[s \ {CHOOSE x \in s : TRUE}]]

\* A sum is the value at S of the recursion SumIter chooses.
LEMMA SumIsIter ==
    ASSUME NEW f, NEW S
    PROVE  SumFunctionOnSet(f, S) = SumIter(f, S)[S]
  BY DEF SumFunctionOnSet, FoldFunctionOnSet, MapThenFoldSet, SumIter

\* That recursion exists: it is a fold over the subsets of S.
LEMMA SumIterDef ==
    ASSUME NEW S, IsFiniteSet(S), NEW f, \A x \in S : f[x] \in Int
    PROVE  /\ SumIter(f, S) \in [SUBSET S -> Int]
           /\ \A s \in SUBSET S : SumIter(f, S)[s] =
                IF s = {} THEN 0
                ELSE f[CHOOSE x \in s : TRUE]
                       + SumIter(f, S)[s \ {CHOOSE x \in s : TRUE}]
  <1> DEFINE pick == [s \in SUBSET S |-> CHOOSE x \in s : TRUE]
             op == [p \in S \X Int |-> f[p[1]] + p[2]]
             step(iter) == [s \in SUBSET S |->
               IF s = {} THEN 0
               ELSE f[CHOOSE x \in s : TRUE] + iter[s \ {CHOOSE x \in s : TRUE}]]
  <1>1. Picks(pick, S)
    BY DEF Picks
  <1>2. op \in [S \X Int -> Int]
    OBVIOUS
  <1>3. PICK g \in [SUBSET S -> Int] : Folds(g, S, 0, pick, op)
    <2>1. 0 \in Int
      OBVIOUS
    <2> DEFINE V == Int
               zero == 0
    <2> HIDE DEF pick, op, V, zero
    <2>2. op \in [S \X V -> V] /\ zero \in V
      BY <1>2 DEF V, zero
    <2>3. \E g \in [SUBSET S -> V] : Folds(g, S, zero, pick, op)
      BY <1>1, <2>2, FoldExists
    <2> QED BY <2>3 DEF V, zero
  <1>4. ASSUME NEW s \in SUBSET S
        PROVE  g[s] = IF s = {} THEN 0
               ELSE f[CHOOSE x \in s : TRUE] + g[s \ {CHOOSE x \in s : TRUE}]
    <2>1. CASE s = {}
      BY <2>1, <1>3 DEF Folds
    <2>2. CASE s # {}
      <3>1. g[s] = op[<<pick[s], g[s \ {pick[s]}]>>]
        BY <2>2, <1>3 DEF Folds
      <3>2. pick[s] = CHOOSE x \in s : TRUE
        OBVIOUS
      <3>3. pick[s] \in S
        BY <2>2, <1>1 DEF Picks
      <3>4. g[s \ {pick[s]}] \in Int
        BY <1>3
      <3>5. op[<<pick[s], g[s \ {pick[s]}]>>] = f[pick[s]] + g[s \ {pick[s]}]
        <4> DEFINE x == pick[s]
                   v == g[s \ {pick[s]}]
        <4> HIDE DEF x, v, pick
        <4>1. <<x, v>> \in S \X Int
          BY <3>3, <3>4 DEF x, v
        <4>2. op[<<x, v>>] = f[x] + v
          BY <4>1
        <4> QED BY <4>2 DEF x, v
      <3> QED BY <2>2, <3>1, <3>2, <3>5
    <2> QED BY <2>1, <2>2
  <1>5. g = step(g)
    BY <1>4
  <1>6. SumIter(f, S) = step(SumIter(f, S))
    BY <1>5 DEF SumIter
  <1>7. \A s \in SUBSET S : SumIter(f, S)[s] = step(SumIter(f, S))[s]
    BY <1>6
  <1>8. \A s \in SUBSET S : SumIter(f, S)[s] =
                IF s = {} THEN 0
                ELSE f[CHOOSE x \in s : TRUE]
                       + SumIter(f, S)[s \ {CHOOSE x \in s : TRUE}]
    BY <1>7
  <1> DEFINE I == SumIter(f, S)
             T == {s \in SUBSET S : I[s] \in Int}
  <1>9. ASSUME NEW s \in SUBSET S, \A x \in s : s \ {x} \in T
        PROVE  s \in T
    <2>1. CASE s = {}
      <3>1. I[s] = 0
        BY <2>1, <1>8
      <3> QED BY <3>1
    <2>2. CASE s # {}
      <3> DEFINE x == CHOOSE x \in s : TRUE
      <3>1. x \in s /\ I[s] = f[x] + I[s \ {x}]
        BY <2>2, <1>8
      <3>2. I[s \ {x}] \in Int
        BY <3>1, <1>9
      <3>3. f[x] \in Int
        BY <3>1
      <3> HIDE DEF x, I
      <3> QED BY <3>1, <3>2, <3>3
    <2> QED BY <2>1, <2>2
  <1>10. \A s \in SUBSET S : s \in T
    <2> HIDE DEF T
    <2> QED BY <1>9, SubsetInduction
  <1>11. SumIter(f, S) \in [SUBSET S -> Int]
    <2>1. SumIter(f, S) = [s \in SUBSET S |-> SumIter(f, S)[s]]
      BY <1>6
    <2> QED BY <2>1, <1>10
  <1> QED BY <1>8, <1>11

\* It stays within the integers.
LEMMA SumIterType ==
    ASSUME NEW S, IsFiniteSet(S), NEW f, \A x \in S : f[x] \in Int
    PROVE  \A s \in SUBSET S : SumIter(f, S)[s] \in Int
  <1>1. SumIter(f, S) \in [SUBSET S -> Int]
    BY SumIterDef
  <1> QED BY <1>1

\* Sums over a smaller set follow the same recursion.
LEMMA SumIterRestrict ==
    ASSUME NEW S, IsFiniteSet(S), NEW f, \A x \in S : f[x] \in Int,
           NEW R \in SUBSET S
    PROVE  SumIter(f, R)[R] = SumIter(f, S)[R]
  <1>1. IsFiniteSet(R)
    BY FS_Subset
  <1> DEFINE T == {s \in SUBSET R : SumIter(f, R)[s] = SumIter(f, S)[s]}
  <1>2. ASSUME NEW s \in SUBSET R, \A x \in s : s \ {x} \in T
        PROVE  s \in T
    <2> DEFINE x == CHOOSE x \in s : TRUE
    <2>1. SumIter(f, S)[s] = IF s = {} THEN 0 ELSE f[x] + SumIter(f, S)[s \ {x}]
      BY SumIterDef
    <2>2. SumIter(f, R)[s] = IF s = {} THEN 0 ELSE f[x] + SumIter(f, R)[s \ {x}]
      BY <1>1, SumIterDef
    <2>3. s # {} => x \in s
      OBVIOUS
    <2> HIDE DEF x
    <2> QED BY <2>1, <2>2, <2>3, <1>2
  <1>3. \A s \in SUBSET R : s \in T
    <2> HIDE DEF T
    <2> QED BY <1>1, <1>2, SubsetInduction
  <1> QED BY <1>3

\* Any element may be taken out first.
LEMMA SumIterRemove ==
    ASSUME NEW S, IsFiniteSet(S), NEW f, \A x \in S : f[x] \in Int
    PROVE  \A s \in SUBSET S : \A x \in s :
             SumIter(f, S)[s] = f[x] + SumIter(f, S)[s \ {x}]
  <1> DEFINE I == SumIter(f, S)
             T == {s \in SUBSET S : \A x \in s : I[s] = f[x] + I[s \ {x}]}
  <1>1. \A s \in SUBSET S : I[s] \in Int
    BY SumIterType
  <1>2. ASSUME NEW s \in SUBSET S, \A x \in s : s \ {x} \in T
        PROVE  s \in T
    <2> SUFFICES ASSUME NEW x \in s PROVE I[s] = f[x] + I[s \ {x}]
      OBVIOUS
    <2> DEFINE y == CHOOSE y \in s : TRUE
    <2>1. y \in s /\ I[s] = f[y] + I[s \ {y}]
      BY SumIterDef
    <2> HIDE DEF y
    <2>2. CASE x = y
      BY <2>1, <2>2
    <2>3. CASE x # y
      <3>1. I[s \ {y}] = f[x] + I[(s \ {y}) \ {x}]
        BY <2>1, <2>3, <1>2
      <3>2. I[s \ {x}] = f[y] + I[(s \ {x}) \ {y}]
        BY <2>1, <2>3, <1>2
      <3>3. (s \ {y}) \ {x} = (s \ {x}) \ {y}
        OBVIOUS
      <3>4. f[x] \in Int /\ f[y] \in Int /\ I[(s \ {x}) \ {y}] \in Int
        BY <2>1, <1>1
      <3> DEFINE w == I[(s \ {x}) \ {y}]
                 v == I[s \ {y}]
                 u == I[s \ {x}]
                 t == I[s]
      <3>5. v = f[x] + w /\ u = f[y] + w /\ t = f[y] + v /\ w \in Int
        BY <2>1, <3>1, <3>2, <3>3, <3>4
      <3> HIDE DEF I, w, v, u, t
      <3>6. t = f[x] + u
        BY <3>4, <3>5
      <3> QED BY <3>6 DEF t, u
    <2> QED BY <2>2, <2>3
  <1>3. \A s \in SUBSET S : s \in T
    <2> HIDE DEF T
    <2> QED BY <1>2, SubsetInduction
  <1> QED BY <1>3

\* The sum over no elements is zero.
LEMMA SumEmpty == ASSUME NEW f PROVE SumFunctionOnSet(f, {}) = 0
  BY SumIsIter, SumIterDef, FS_EmptySet

\* A finite sum of integers is one.
LEMMA SumType ==
    ASSUME NEW S, IsFiniteSet(S), NEW f, \A x \in S : f[x] \in Int
    PROVE  SumFunctionOnSet(f, S) \in Int
  <1>1. SumIter(f, S)[S] \in Int
    BY SumIterType
  <1> QED BY <1>1, SumIsIter

\* One more element adds its value.
LEMMA SumAdd ==
    ASSUME NEW S, IsFiniteSet(S), NEW x, x \notin S, NEW f,
           \A y \in S \cup {x} : f[y] \in Int
    PROVE  SumFunctionOnSet(f, S \cup {x}) = SumFunctionOnSet(f, S) + f[x]
  <1> DEFINE U == S \cup {x}
  <1>1. IsFiniteSet(U) /\ S \in SUBSET U /\ U \ {x} = S /\ x \in U
    BY FS_AddElement
  <1>2. \A y \in U : f[y] \in Int
    OBVIOUS
  <1> HIDE DEF U
  <1>3. SumIter(f, U)[U] = f[x] + SumIter(f, U)[U \ {x}]
    BY <1>1, <1>2, SumIterRemove
  <1>4. SumIter(f, S)[S] = SumIter(f, U)[S]
    BY <1>1, <1>2, SumIterRestrict
  <1>5. SumIter(f, U)[S] \in Int
    BY <1>1, <1>2, SumIterType
  <1>6. f[x] \in Int
    OBVIOUS
  <1>7. SumFunctionOnSet(f, U) = SumFunctionOnSet(f, S) + f[x]
    <2>1. SumFunctionOnSet(f, U) = SumIter(f, U)[U]
      BY SumIsIter
    <2>2. SumFunctionOnSet(f, S) = SumIter(f, S)[S]
      BY SumIsIter
    <2> DEFINE a == SumFunctionOnSet(f, U)
               b == SumFunctionOnSet(f, S)
               c == f[x]
    <2>3. a = c + b /\ b \in Int /\ c \in Int
      BY <1>1, <1>3, <1>4, <1>5, <1>6, <2>1, <2>2
    <2> HIDE DEF a, b, c
    <2>4. a = b + c
      BY <2>3
    <2> QED BY <2>4 DEF a, b, c
  <1> QED BY <1>7 DEF U

\* Functions that agree on the elements have the same sum.
LEMMA SumSame ==
    ASSUME NEW S, IsFiniteSet(S), NEW f, NEW g,
           \A x \in S : f[x] \in Int /\ f[x] = g[x]
    PROVE  SumFunctionOnSet(f, S) = SumFunctionOnSet(g, S)
  <1> DEFINE T == {s \in SUBSET S : SumIter(f, S)[s] = SumIter(g, S)[s]}
  <1>1. ASSUME NEW s \in SUBSET S, \A x \in s : s \ {x} \in T
        PROVE  s \in T
    <2> DEFINE x == CHOOSE x \in s : TRUE
    <2>1. SumIter(f, S)[s] = IF s = {} THEN 0 ELSE f[x] + SumIter(f, S)[s \ {x}]
      BY SumIterDef
    <2>2. SumIter(g, S)[s] = IF s = {} THEN 0 ELSE g[x] + SumIter(g, S)[s \ {x}]
      BY SumIterDef
    <2>3. s # {} => x \in s
      OBVIOUS
    <2> HIDE DEF x
    <2> QED BY <2>1, <2>2, <2>3, <1>1
  <1>2. \A s \in SUBSET S : s \in T
    <2> HIDE DEF T
    <2> QED BY <1>1, SubsetInduction
  <1> QED BY <1>2, SumIsIter

\* A function nowhere above another has no greater sum.
LEMMA SumMonotone ==
    ASSUME NEW S, IsFiniteSet(S), NEW f, NEW g,
           \A x \in S : f[x] \in Int /\ g[x] \in Int /\ f[x] <= g[x]
    PROVE  SumFunctionOnSet(f, S) <= SumFunctionOnSet(g, S)
  <1> DEFINE F == SumIter(f, S)
             G == SumIter(g, S)
             T == {s \in SUBSET S : F[s] <= G[s]}
  <1>1. \A s \in SUBSET S : F[s] \in Int /\ G[s] \in Int
    BY SumIterType
  <1>2. \A s \in SUBSET S : F[s] =
            IF s = {} THEN 0
            ELSE f[CHOOSE x \in s : TRUE] + F[s \ {CHOOSE x \in s : TRUE}]
    BY SumIterDef
  <1>3. \A s \in SUBSET S : G[s] =
            IF s = {} THEN 0
            ELSE g[CHOOSE x \in s : TRUE] + G[s \ {CHOOSE x \in s : TRUE}]
    BY SumIterDef
  <1>4. F[S] = SumFunctionOnSet(f, S) /\ G[S] = SumFunctionOnSet(g, S)
    BY SumIsIter
  <1> HIDE DEF F, G
  <1>5. ASSUME NEW s \in SUBSET S, \A x \in s : s \ {x} \in T
        PROVE  s \in T
    <2> DEFINE x == CHOOSE x \in s : TRUE
               less == s \ {x}
    <2>1. CASE s = {}
      <3>1. F[s] = 0 /\ G[s] = 0
        BY <1>2, <1>3, <2>1
      <3> QED BY <3>1
    <2>2. CASE s # {}
      <3>1. x \in s
        BY <2>2
      <3>2. F[s] = f[x] + F[less] /\ G[s] = g[x] + G[less]
        BY <1>2, <1>3, <2>2
      <3>3. less \in SUBSET S /\ F[less] <= G[less]
        BY <1>5, <3>1
      <3> HIDE DEF x, less
      <3>4. f[x] \in Int /\ g[x] \in Int /\ f[x] <= g[x]
        BY <3>1
      <3>5. F[less] \in Int /\ G[less] \in Int
        BY <1>1, <3>3
      <3>6. F[s] <= G[s]
        BY <3>2, <3>3, <3>4, <3>5
      <3> QED BY <3>6
    <2> QED BY <2>1, <2>2
  <1>6. \A s \in SUBSET S : s \in T
    <2> HIDE DEF T
    <2> QED BY <1>5, SubsetInduction
  <1> QED BY <1>4, <1>6

----------------------------------------------------------------------------
(* Sequences are folded from their end, taking the greatest index first.   *)

\* The image of a finite set under a function is finite.
LEMMA ImageFinite ==
    ASSUME NEW S, IsFiniteSet(S), NEW f
    PROVE  IsFiniteSet({f[x] : x \in S})
  <1> DEFINE T == {f[x] : x \in S}
             g == [x \in S |-> f[x]]
  <1>1. g \in [S -> T] /\ \A t \in T : \E x \in S : g[x] = t
    OBVIOUS
  <1>2. g \in Surjection(S, T)
    <2> HIDE DEF g, T
    <2> QED BY <1>1 DEF Surjection
  <1> HIDE DEF g, T
  <1>3. IsFiniteSet(T)
    BY <1>2, FS_Surjection
  <1> QED BY <1>3 DEF T

\* A finite set of integers has a greatest element, and Max is one.
LEMMA MaxIn ==
    ASSUME NEW S, IsFiniteSet(S), S \subseteq Int, S # {}
    PROVE  Max(S) \in S /\ \A y \in S : Max(S) >= y
  <1> DEFINE T == {s \in SUBSET S : s # {} => \E x \in s : \A y \in s : x >= y}
  <1>1. ASSUME NEW s \in SUBSET S, \A x \in s : s \ {x} \in T
        PROVE  s \in T
    <2> SUFFICES ASSUME s # {} PROVE \E x \in s : \A y \in s : x >= y
      OBVIOUS
    <2>1. PICK x \in s : TRUE
      OBVIOUS
    <2>2. CASE s \ {x} = {}
      <3>1. \A y \in s : x >= y
        BY <2>2, <2>1
      <3> QED BY <2>1, <3>1
    <2>3. CASE s \ {x} # {}
      <3>1. PICK z \in s \ {x} : \A y \in s \ {x} : z >= y
        BY <2>1, <2>3, <1>1
      <3>2. z \in Int /\ x \in Int /\ s \subseteq Int
        BY <2>1, <3>1
      <3>3. CASE z >= x
        <4>1. \A y \in s : z >= y
          BY <3>1, <3>2, <3>3
        <4> QED BY <3>1, <4>1
      <3>4. CASE ~(z >= x)
        <4>1. \A y \in s : x >= y
          BY <3>1, <3>2, <3>4
        <4> QED BY <2>1, <4>1
      <3> QED BY <3>3, <3>4
    <2> QED BY <2>2, <2>3
  <1>2. \A s \in SUBSET S : s \in T
    <2> HIDE DEF T
    <2> QED BY <1>1, SubsetInduction
  <1>3. \E x \in S : \A y \in S : x >= y
    <2>1. S \in T
      <3> HIDE DEF T
      <3> QED BY <1>2
    <2> QED BY <2>1
  <1> QED BY <1>3 DEF Max

\* What holds for the empty set, and for each finite set of integers that holds
\* it without its greatest element, holds for all of them.
LEMMA MaxInduction ==
    ASSUME NEW S, IsFiniteSet(S), S \subseteq Int, NEW T, {} \in T,
           \A t \in SUBSET S : Max(t) \in t /\ t \ {Max(t)} \in T => t \in T
    PROVE  S \in T
  <1>1. ASSUME NEW t \in SUBSET S, \A x \in t : t \ {x} \in T
        PROVE  t \in T
    <2>1. CASE t = {}
      BY <2>1
    <2>2. CASE t # {}
      <3>1. IsFiniteSet(t) /\ t \subseteq Int
        BY FS_Subset
      <3>2. Max(t) \in t
        BY <2>2, <3>1, MaxIn
      <3> QED BY <1>1, <3>2
    <2> QED BY <2>1, <2>2
  <1>2. \A t \in SUBSET S : t \in T
    BY <1>1, SubsetInduction
  <1> QED BY <1>2

\* The choice that FoldLeft makes takes elements of the set.
LEMMA MaxPicks ==
    ASSUME NEW n \in Nat
    PROVE  /\ IsFiniteSet(1..n)
           /\ Picks([s \in SUBSET (1..n) |-> Max(s)], 1..n)
  <1>1. IsFiniteSet(1..n)
    BY FS_Interval
  <1>2. ASSUME NEW s \in SUBSET (1..n), s # {} PROVE Max(s) \in s
    <2> DEFINE N == 1..n
    <2>1. s \subseteq Int
      OBVIOUS
    <2>2. IsFiniteSet(s)
      <3> HIDE DEF N
      <3> QED BY <1>1, FS_Subset DEF N
    <2> QED BY <1>2, <2>1, <2>2, MaxIn
  <1> QED BY <1>1, <1>2 DEF Picks

----------------------------------------------------------------------------
(* Folds over sequences take the greatest index next: they go over prefixes. *)

\* The greatest index of a prefix is its length; without it a shorter prefix is left.
LEMMA MaxPrefix ==
    ASSUME NEW i \in Nat \ {0}
    PROVE  Max(1..i) = i /\ (1..i) \ {i} = 1..(i - 1)
  <1>0. IsFiniteSet(1..i)
    BY FS_Interval
  <1>1. IsFiniteSet(1..i) /\ 1..i \subseteq Int /\ 1..i # {} /\ i \in 1..i
    BY <1>0
  <1> DEFINE m == Max(1..i)
  <1>2. m \in 1..i /\ \A y \in 1..i : m >= y
    BY <1>1, MaxIn
  <1> HIDE DEF m
  <1>3. m = i
    BY <1>1, <1>2
  <1> QED BY <1>3 DEF m

\* What holds for the empty prefix, and for each that is longer by one, holds for
\* all of them.
LEMMA PrefixInduction ==
    ASSUME NEW n \in Nat, NEW T, 0 \in T, \A i \in 1..n : i - 1 \in T => i \in T
    PROVE  \A i \in 0..n : i \in T
  <1> DEFINE S == 1..n
             U == {s \in SUBSET S : \A i \in 0..n : s = 1..i => i \in T}
  <1>1. IsFiniteSet(S)
    BY FS_Interval
  <1>2. ASSUME NEW s \in SUBSET S, \A x \in s : s \ {x} \in U
        PROVE  s \in U
    <2> SUFFICES ASSUME NEW i \in 0..n, s = 1..i PROVE i \in T
      OBVIOUS
    <2>1. CASE i = 0
      BY <2>1
    <2>2. CASE i # 0
      <3>1. i \in Nat \ {0} /\ i \in 1..n /\ i - 1 \in 0..n
        BY <2>2
      <3>2. i \in s /\ s \ {i} = 1..(i - 1)
        BY <3>1, MaxPrefix
      <3>3. i - 1 \in T
        BY <3>1, <3>2, <1>2
      <3> QED BY <3>1, <3>3
    <2> QED BY <2>1, <2>2
  <1>3. \A s \in SUBSET S : s \in U
    <2> HIDE DEF U, S
    <2> QED BY <1>1, <1>2, SubsetInduction
  <1>4. ASSUME NEW i \in 0..n PROVE i \in T
    <2>1. 1..i \in SUBSET S
      OBVIOUS
    <2> QED BY <2>1, <1>3
  <1> QED BY <1>4

\* A finite sum of natural numbers is one.
LEMMA SumNat ==
    ASSUME NEW S, IsFiniteSet(S), NEW f, \A x \in S : f[x] \in Nat
    PROVE  SumFunctionOnSet(f, S) \in Nat
  <1> DEFINE F == SumIter(f, S)
             T == {s \in SUBSET S : F[s] \in Nat}
  <1>0. \A x \in S : f[x] \in Int
    OBVIOUS
  <1>1. \A s \in SUBSET S : F[s] =
            IF s = {} THEN 0
            ELSE f[CHOOSE x \in s : TRUE] + F[s \ {CHOOSE x \in s : TRUE}]
    BY <1>0, SumIterDef
  <1>2. F[S] = SumFunctionOnSet(f, S)
    BY SumIsIter
  <1> HIDE DEF F
  <1>3. ASSUME NEW s \in SUBSET S, \A x \in s : s \ {x} \in T
        PROVE  s \in T
    <2> DEFINE x == CHOOSE x \in s : TRUE
               less == s \ {x}
    <2>1. CASE s = {}
      <3>1. F[s] = 0
        BY <1>1, <2>1
      <3> QED BY <3>1
    <2>2. CASE s # {}
      <3>1. x \in s
        BY <2>2
      <3>2. F[s] = f[x] + F[less]
        BY <1>1, <2>2
      <3>3. F[less] \in Nat
        BY <1>3, <3>1
      <3> HIDE DEF x, less
      <3>4. f[x] \in Nat
        BY <3>1
      <3>5. F[s] \in Nat
        BY <3>2, <3>3, <3>4
      <3> QED BY <3>5
    <2> QED BY <2>1, <2>2
  <1>4. \A s \in SUBSET S : s \in T
    <2> HIDE DEF T
    <2> QED BY <1>3, SubsetInduction
  <1> QED BY <1>2, <1>4
=============================================================================
