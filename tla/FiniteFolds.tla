----------------------------- MODULE FiniteFolds -----------------------------
(***************************************************************************)
(* Facts about finite sets, and about the folds of the community modules   *)
(* on them (MapThenFoldSet, and with it MapThenSumSet and SumFunction),    *)
(* for the proofs about the choices and sums of the models.  An induction  *)
(* over finite sets is an argument by a smallest counterexample here:      *)
(* strict inclusion is well-founded on the subsets of a finite set.        *)
(***************************************************************************)
EXTENDS Integers, SequencesExt, FiniteSetTheorems, TLAPS

\* Among sets of subsets of a finite set there is always one that contains no other.
LEMMA SmallestSubset ==
  ASSUME NEW S, IsFiniteSet(S), NEW B \in SUBSET (SUBSET S), B # {}
  PROVE  \E T \in B : \A U \in SUBSET T : U \in B => U = T
<1>1. PICK T \in B : \A U \in B : <<U, T>> \notin StrictSubsetOrdering(S)
  BY FS_StrictSubsetOrderingWellFounded, FS_FiniteSubsetsOfFinite, WFMin
<1>2. ASSUME NEW U \in SUBSET T, U \in B PROVE U = T
  BY <1>1, <1>2 DEF StrictSubsetOrdering
<1> QED BY <1>2

\* The image of a finite set is finite.
LEMMA FiniteImage ==
  ASSUME NEW S, IsFiniteSet(S), NEW f
  PROVE  IsFiniteSet({f[x] : x \in S})
<1> DEFINE T == {f[x] : x \in S}
           g == [x \in S |-> f[x]]
<1>1. g \in Surjection(S, T)
  BY DEF Surjection
<1> HIDE DEF g, T
<1>2. IsFiniteSet(T)
  BY <1>1, FS_Surjection
<1> QED BY <1>2 DEF T

\* A finite set of integers that is not empty has a smallest element.
LEMMA LeastExists ==
  ASSUME NEW S, IsFiniteSet(S), S # {}, \A x \in S : x \in Int
  PROVE  \E x \in S : \A y \in S : x <= y
<1> DEFINE HasLeast(T) == \E x \in T : \A y \in T : x <= y
           B == {T \in SUBSET S : T # {} /\ ~HasLeast(T)}
<1>1. ASSUME B # {} PROVE FALSE
  <2>1. PICK T \in B : \A U \in SUBSET T : U \in B => U = T
    <3>1. B \in SUBSET (SUBSET S)
      OBVIOUS
    <3> HIDE DEF B
    <3> QED BY ONLY <1>1, <3>1, IsFiniteSet(S), SmallestSubset
  <2>2. T \in SUBSET S /\ T # {} /\ ~HasLeast(T)
    BY <2>1
  <2>3. PICK x \in T : TRUE
    BY <2>2
  <2> DEFINE rest == T \ {x}
  <2>4. rest \in SUBSET T /\ rest # T /\ rest \in SUBSET S /\ rest # {}
    BY <2>2, <2>3
  <2>5. HasLeast(rest)
    <3>1. rest \notin B
      <4> HIDE DEF B, rest
      <4> QED BY <2>1, <2>4
    <3> HIDE DEF HasLeast, rest
    <3> QED BY <2>4, <3>1
  <2>6. PICK y \in rest : \A z \in rest : y <= z
    BY <2>5
  <2>7. x \in Int /\ y \in Int
    BY <2>2, <2>3, <2>6
  <2>8. CASE x <= y
    <3>1. \A z \in rest : x <= z
      BY <2>2, <2>6, <2>7, <2>8
    <3> QED BY <2>2, <2>3, <2>7, <3>1
  <2>9. CASE y <= x
    BY <2>2, <2>3, <2>6, <2>9
  <2> QED BY <2>7, <2>8, <2>9
<1> QED BY <1>1

\* Min of a finite set of integers is its least element.
LEMMA MinIsElement ==
  ASSUME NEW R, IsFiniteSet(R), R # {}, \A x \in R : x \in Int
  PROVE  Min(R) \in R /\ \A y \in R : Min(R) <= y
<1>1. \E x \in R : \A y \in R : x <= y
  BY LeastExists
<1> QED BY <1>1, Zenon DEF Min

\* Max of a finite set of integers is its greatest element.
LEMMA MaxIsElement ==
  ASSUME NEW S, IsFiniteSet(S), S # {}, \A x \in S : x \in Int
  PROVE  Max(S) \in S /\ \A y \in S : Max(S) >= y
<1> DEFINE opposite == [x \in S |-> 0 - x]
           O == {opposite[x] : x \in S}
<1>1. IsFiniteSet(O)
  <2> HIDE DEF opposite
  <2> QED BY FiniteImage
<1>2. O # {} /\ \A y \in O : y \in Int
  OBVIOUS
<1>3. PICK y \in O : \A z \in O : y <= z
  <2> HIDE DEF O
  <2> QED BY <1>1, <1>2, LeastExists
<1>4. PICK x \in S : y = 0 - x
  BY <1>3
<1>5. \A z \in S : 0 - x <= 0 - z
  BY <1>3, <1>4
<1>6. \E m \in S : \A z \in S : m >= z
  BY <1>4, <1>5
<1> QED BY <1>6, Zenon DEF Max

(***************************************************************************)
(* The place of m in a strict order R of S: how many elements are below    *)
(* it.  The ranks of n elements are 0 .. n - 1, each of one of them.       *)
(***************************************************************************)
BelowIn(S, R, m) == {l \in S : <<l, m>> \in R}

StrictOrder(S, R) ==
    /\ \A m \in S : <<m, m>> \notin R
    /\ \A l, m, k \in S : <<l, m>> \in R /\ <<m, k>> \in R => <<l, k>> \in R
    /\ \A l, m \in S : l = m \/ <<l, m>> \in R \/ <<m, l>> \in R

\* Ranks grow with the elements, and every place is taken.
LEMMA RanksOf ==
  ASSUME NEW S, IsFiniteSet(S), NEW R, StrictOrder(S, R)
  PROVE  /\ Cardinality(S) \in Nat
         /\ \A m \in S : Cardinality(BelowIn(S, R, m)) \in 0 .. Cardinality(S) - 1
         /\ \A l, m \in S : <<l, m>> \in R => Cardinality(BelowIn(S, R, l)) < Cardinality(BelowIn(S, R, m))
         /\ \A i \in 0 .. Cardinality(S) - 1 : \E m \in S : Cardinality(BelowIn(S, R, m)) = i
<1>1. PICK n \in Nat : n = Cardinality(S)
  BY FS_CardinalityType
<1> DEFINE rank == [m \in S |-> Cardinality(BelowIn(S, R, m))]
           K == {rank[m] : m \in S}
<1>2. \A m \in S : IsFiniteSet(BelowIn(S, R, m)) /\ Cardinality(BelowIn(S, R, m)) \in Nat
  BY FS_Subset, FS_CardinalityType DEF BelowIn
<1>3. ASSUME NEW m \in S PROVE Cardinality(BelowIn(S, R, m)) < n
  <2>1. BelowIn(S, R, m) \subseteq S /\ BelowIn(S, R, m) # S
    BY DEF BelowIn, StrictOrder
  <2> QED BY <1>1, <1>2, <2>1, FS_Subset
<1>4. ASSUME NEW l \in S, NEW m \in S, <<l, m>> \in R
      PROVE  Cardinality(BelowIn(S, R, l)) < Cardinality(BelowIn(S, R, m))
  <2>1. BelowIn(S, R, l) \subseteq BelowIn(S, R, m) /\ BelowIn(S, R, l) # BelowIn(S, R, m)
    <3>1. l \in BelowIn(S, R, m) /\ l \notin BelowIn(S, R, l)
      BY <1>4 DEF BelowIn, StrictOrder
    <3>2. \A q \in S : <<q, l>> \in R => <<q, m>> \in R
      BY <1>4 DEF StrictOrder
    <3> QED BY <3>1, <3>2 DEF BelowIn
  <2>2. /\ Cardinality(BelowIn(S, R, l)) <= Cardinality(BelowIn(S, R, m))
        /\ Cardinality(BelowIn(S, R, l)) # Cardinality(BelowIn(S, R, m))
    BY <1>2, <2>1, FS_Subset
  <2> QED BY <1>2, <2>2
<1>5. rank \in Surjection(S, K) /\ rank \in Injection(S, K)
  <2>1. \A l, m \in S : rank[l] = rank[m] => l = m
    <3> SUFFICES ASSUME NEW l \in S, NEW m \in S, rank[l] = rank[m] PROVE l = m
      OBVIOUS
    <3>1. rank[l] \in Nat /\ rank[m] \in Nat
      BY <1>2
    <3>2. <<l, m>> \notin R /\ <<m, l>> \notin R
      BY <1>4, <3>1
    <3> QED BY <3>2 DEF StrictOrder
  <2>2. rank \in [S -> K] /\ \A r \in K : \E m \in S : rank[m] = r
    OBVIOUS
  <2> HIDE DEF rank, K
  <2> QED BY <2>1, <2>2 DEF Surjection, Injection, IsInjective
<1>6. IsFiniteSet(0 .. n - 1) /\ Cardinality(0 .. n - 1) = n
  <2>1. PICK p \in Int : p = n - 1
    BY <1>1
  <2>2. IsFiniteSet(0 .. p) /\ Cardinality(0 .. p) = IF 0 > p THEN 0 ELSE p - 0 + 1
    BY <2>1, FS_Interval
  <2> QED BY <1>1, <2>1, <2>2
<1>7. K \subseteq 0 .. n - 1
  BY <1>1, <1>2, <1>3
<1> HIDE DEF K
<1>8. Cardinality(K) = n
  BY <1>1, <1>5, FS_Surjection
<1>9. K = 0 .. n - 1
  BY <1>6, <1>7, <1>8, FS_Subset
<1>10. /\ \A m \in S : rank[m] \in 0 .. n - 1
       /\ \A i \in 0 .. n - 1 : \E m \in S : rank[m] = i
  BY <1>9 DEF K
<1> QED BY <1>1, <1>4, <1>10

\* f lists the elements of S by their ranks.
IsRanking(f, S, rank) ==
    f = [n \in 1 .. Cardinality(S) |-> CHOOSE m \in S : rank[m] = n - 1]

\* The element of each place lists every element once, in the order R.
LEMMA RankedIs ==
  ASSUME NEW S, IsFiniteSet(S), NEW R, StrictOrder(S, R),
         NEW rank, \A m \in S : rank[m] = Cardinality(BelowIn(S, R, m)),
         NEW f, IsRanking(f, S, rank)
  PROVE  /\ Cardinality(S) \in Nat
         /\ f \in [1 .. Cardinality(S) -> S]
         /\ \A n \in 1 .. Cardinality(S) : rank[f[n]] = n - 1
         /\ \A i, j \in 1 .. Cardinality(S) : <<f[i], f[j]>> \in R <=> i < j
         /\ \A m \in S : \E n \in 1 .. Cardinality(S) : f[n] = m
<1>1. PICK k \in Nat : k = Cardinality(S)
  BY FS_CardinalityType
<1>2. /\ \A m \in S : rank[m] \in 0 .. k - 1
      /\ \A l, m \in S : <<l, m>> \in R => rank[l] < rank[m]
      /\ \A i \in 0 .. k - 1 : \E m \in S : rank[m] = i
  BY <1>1, RanksOf
<1>3. \A n \in 1 .. k : f[n] = CHOOSE m \in S : rank[m] = n - 1
  BY <1>1 DEF IsRanking
<1>4. \A n \in 1 .. k : f[n] \in S /\ rank[f[n]] = n - 1
  <2> SUFFICES ASSUME NEW n \in 1 .. k PROVE f[n] \in S /\ rank[f[n]] = n - 1
    BY Zenon
  <2>1. n - 1 \in 0 .. k - 1
    BY <1>1
  <2>2. \E m \in S : rank[m] = n - 1
    BY <1>2, <2>1
  <2>3. f[n] = CHOOSE m \in S : rank[m] = n - 1
    BY <1>3
  <2> QED BY <2>2, <2>3
<1>5. \A l, m \in S : rank[l] = rank[m] => l = m
  <2> SUFFICES ASSUME NEW l \in S, NEW m \in S, rank[l] = rank[m] PROVE l = m
    OBVIOUS
  <2>1. <<l, m>> \notin R /\ <<m, l>> \notin R
    BY <1>2
  <2> QED BY <2>1 DEF StrictOrder
<1>6. f \in [1 .. k -> S]
  BY <1>1, <1>4 DEF IsRanking
<1>7. \A i, j \in 1 .. k : <<f[i], f[j]>> \in R <=> i < j
  <2> SUFFICES ASSUME NEW i \in 1 .. k, NEW j \in 1 .. k PROVE <<f[i], f[j]>> \in R <=> i < j
    OBVIOUS
  <2>1. f[i] = f[j] \/ <<f[i], f[j]>> \in R \/ <<f[j], f[i]>> \in R
    BY <1>4 DEF StrictOrder
  <2>2. f[i] = f[j] => <<f[i], f[j]>> \notin R
    BY <1>4 DEF StrictOrder
  <2>3. i \in Int /\ j \in Int
    BY <1>1
  <2>4. rank[f[i]] = i - 1 /\ rank[f[j]] = j - 1 /\ f[i] \in S /\ f[j] \in S
    BY <1>4
  <2>5. /\ <<f[i], f[j]>> \in R => rank[f[i]] < rank[f[j]]
        /\ <<f[j], f[i]>> \in R => rank[f[j]] < rank[f[i]]
    BY <1>2, <2>4
  <2>6. /\ <<f[i], f[j]>> \in R => i < j
        /\ <<f[j], f[i]>> \in R => j < i
    BY <2>3, <2>4, <2>5
  <2>7. f[i] = f[j] => i = j
    BY <2>3, <2>4
  <2> QED BY <2>1, <2>2, <2>3, <2>6, <2>7
<1>8. \A m \in S : \E n \in 1 .. k : f[n] = m
  <2> SUFFICES ASSUME NEW m \in S PROVE \E n \in 1 .. k : f[n] = m
    OBVIOUS
  <2>1. rank[m] \in 0 .. k - 1
    BY <1>2
  <2>2. PICK n \in 1 .. k : n - 1 = rank[m]
    <3> DEFINE q == rank[m] + 1
    <3>1. q \in 1 .. k /\ q - 1 = rank[m]
      BY <1>1, <2>1
    <3> HIDE DEF q
    <3> QED BY <3>1
  <2>3. rank[f[n]] = rank[m] /\ f[n] \in S
    BY <1>4, <2>2
  <2> QED BY <1>5, <2>3
<1>9. \A n \in 1 .. k : rank[f[n]] = n - 1
  BY <1>4
<1> QED BY <1>1, <1>6, <1>7, <1>8, <1>9

\* Integers are in order.
LEMMA IntegersInOrder ==
  ASSUME NEW S, \A m \in S : m \in Int
  PROVE  StrictOrder(S, {p \in S \X S : p[1] < p[2]})
BY DEF StrictOrder

LessThan(S, m) == {l \in S : l < m}

\* The ranks of integers.
LEMMA RanksAre ==
  ASSUME NEW S, IsFiniteSet(S), \A m \in S : m \in Int
  PROVE  /\ Cardinality(S) \in Nat
         /\ \A m \in S : Cardinality(LessThan(S, m)) \in 0 .. Cardinality(S) - 1
         /\ \A l, m \in S : l < m => Cardinality(LessThan(S, l)) < Cardinality(LessThan(S, m))
         /\ \A i \in 0 .. Cardinality(S) - 1 : \E m \in S : Cardinality(LessThan(S, m)) = i
<1> DEFINE R == {p \in S \X S : p[1] < p[2]}
<1>1. StrictOrder(S, R)
  BY IntegersInOrder
<1>2. \A l, m \in S : <<l, m>> \in R <=> l < m
  OBVIOUS
<1> HIDE DEF R
<1>3. \A m \in S : LessThan(S, m) = BelowIn(S, R, m)
  BY <1>2 DEF LessThan, BelowIn
<1>4. /\ Cardinality(S) \in Nat
      /\ \A m \in S : Cardinality(BelowIn(S, R, m)) \in 0 .. Cardinality(S) - 1
      /\ \A l, m \in S : <<l, m>> \in R => Cardinality(BelowIn(S, R, l)) < Cardinality(BelowIn(S, R, m))
      /\ \A i \in 0 .. Cardinality(S) - 1 : \E m \in S : Cardinality(BelowIn(S, R, m)) = i
  BY <1>1, RanksOf
<1> QED BY Zenon, <1>2, <1>3, <1>4

\* SetToSeq lists every element of a finite set once.
LEMMA SetToSeqLists ==
  ASSUME NEW S, IsFiniteSet(S)
  PROVE  /\ Cardinality(S) \in Nat
         /\ SetToSeq(S) \in [1 .. Cardinality(S) -> S]
         /\ \A i, j \in 1 .. Cardinality(S) : SetToSeq(S)[i] = SetToSeq(S)[j] => i = j
         /\ \A x \in S : \E i \in 1 .. Cardinality(S) : SetToSeq(S)[i] = x
<1> DEFINE n == Cardinality(S)
           f == SetToSeq(S)
<1>1. n \in Nat /\ ExistsBijection(1 .. n, S)
  BY FS_CardinalityType
<1>2. \E g \in [1 .. n -> S] : IsInjective(g)
  BY <1>1 DEF ExistsBijection, Bijection, Injection
<1>3. f \in [1 .. n -> S] /\ IsInjective(f)
  <2>1. f = CHOOSE g \in [1 .. n -> S] : IsInjective(g)
    BY DEF SetToSeq
  <2> HIDE DEF n, f
  <2> QED BY <1>2, <2>1, Zenon
<1> HIDE DEF f
<1> DEFINE T == {f[i] : i \in 1 .. n}
<1>4. T \in SUBSET S
  BY <1>3
<1>5. f \in Surjection(1 .. n, T) /\ f \in Injection(1 .. n, T)
  BY <1>3 DEF Surjection, Injection
<1>6. IsFiniteSet(1 .. n) /\ Cardinality(1 .. n) = n
  <2> HIDE DEF n
  <2> QED BY <1>1, FS_Interval
<1> HIDE DEF T
<1>7. T = S
  <2>1. Cardinality(T) = Cardinality(1 .. n)
    BY <1>5, <1>6, FS_Surjection
  <2> QED BY <1>4, <1>6, <2>1, FS_Subset
<1>8. \A i, j \in 1 .. n : f[i] = f[j] => i = j
  BY <1>3 DEF IsInjective
<1> QED BY <1>1, <1>3, <1>7, <1>8 DEF f, T

(***************************************************************************)
(* The function that MapThenFoldSet builds over the subsets of S: a step F *)
(* applied to an element that `choice` picks and to the fold of the rest.  *)
(***************************************************************************)
IsFold(g, S, base, F, choice) ==
    \A s \in SUBSET S :
        g[s] = IF s = {} THEN base ELSE F[<<choice[s], g[s \ {choice[s]}]>>]

\* What `choice` picks from a subset of S is in it.
Picks(choice, S) == \A s \in SUBSET S : s # {} => choice[s] \in s

\* Two folds agree on every set that both are defined on.
LEMMA FoldUnique ==
  ASSUME NEW S, IsFiniteSet(S), NEW base, NEW F, NEW choice, Picks(choice, S),
         NEW T \in SUBSET S, NEW U \in SUBSET S, NEW g, NEW h,
         IsFold(g, T, base, F, choice), IsFold(h, U, base, F, choice),
         NEW s \in SUBSET (T \intersect U)
  PROVE  g[s] = h[s]
<1> DEFINE B == {t \in SUBSET (T \intersect U) : g[t] # h[t]}
<1>1. B \in SUBSET (SUBSET S)
  OBVIOUS
<1>2. ASSUME B # {} PROVE FALSE
  <2>1. PICK t \in B : \A u \in SUBSET t : u \in B => u = t
    <3> HIDE DEF B
    <3> QED BY <1>1, <1>2, SmallestSubset
  <2>2. t \in SUBSET T /\ t \in SUBSET U /\ t \in SUBSET S /\ g[t] # h[t]
    OBVIOUS
  <2>3. t # {}
    BY <2>2 DEF IsFold
  <2> DEFINE rest == t \ {choice[t]}
  <2>4. rest \in SUBSET t /\ rest # t
    BY <2>2, <2>3 DEF Picks
  <2>5. rest \notin B /\ rest \in SUBSET (T \intersect U)
    BY <2>1, <2>2, <2>4
  <2>6. g[rest] = h[rest]
    BY <2>5
  <2> QED BY <2>2, <2>3, <2>6 DEF IsFold
<1> QED BY <1>2

\* The fold exists, and its values are of the type of its steps.
LEMMA FoldExists ==
  ASSUME NEW S, IsFiniteSet(S), NEW V, NEW base \in V, NEW F \in [S \X V -> V],
         NEW choice, Picks(choice, S)
  PROVE  \E g \in [SUBSET S -> V] : IsFold(g, S, base, F, choice)
<1> DEFINE Has(T) == \E g \in [SUBSET T -> V] : IsFold(g, T, base, F, choice)
           B == {T \in SUBSET S : ~Has(T)}
<1>1. ASSUME B # {} PROVE FALSE
  <2>1. PICK T \in B : \A U \in SUBSET T : U \in B => U = T
    <3>1. B \in SUBSET (SUBSET S)
      OBVIOUS
    <3> HIDE DEF B
    <3> QED BY <1>1, <3>1, SmallestSubset
  <2>2. T \in SUBSET S /\ ~Has(T) /\ \A U \in SUBSET T : U # T => Has(U)
    BY <2>1
  <2> DEFINE Smaller == (SUBSET T) \ {T}
             G == [U \in Smaller |->
                     CHOOSE g \in [SUBSET U -> V] : IsFold(g, U, base, F, choice)]
             rest(s) == s \ {choice[s]}
             h == [s \in SUBSET T |->
                     IF s # T THEN G[s][s]
                     ELSE IF T = {} THEN base ELSE F[<<choice[T], G[rest(T)][rest(T)]>>]]
  <2>3. \A U \in Smaller : /\ G[U] \in [SUBSET U -> V]
                           /\ IsFold(G[U], U, base, F, choice)
    <3> TAKE U \in Smaller
    <3> DEFINE gU == CHOOSE g \in [SUBSET U -> V] : IsFold(g, U, base, F, choice)
    <3>1. \E g \in [SUBSET U -> V] : IsFold(g, U, base, F, choice)
      BY <2>2
    <3>2. gU \in [SUBSET U -> V] /\ IsFold(gU, U, base, F, choice)
      BY <3>1, Zenon
    <3>3. G[U] = gU
      OBVIOUS
    <3> QED BY <3>2, <3>3
  <2> HIDE DEF G
  <2>4. \A s \in SUBSET T : s # {} => choice[s] \in s /\ choice[s] \in S /\ rest(s) \in Smaller
    BY <2>2 DEF Picks
  <2>5. \A s \in Smaller : h[s] = G[s][s] /\ h[s] \in V
    <3> TAKE s \in Smaller
    <3>1. G[s] \in [SUBSET s -> V] /\ s \in SUBSET s
      BY <2>3
    <3> HIDE DEF rest
    <3> QED BY <3>1
  <2>9. ASSUME NEW U \in Smaller, NEW W \in Smaller, NEW s \in SUBSET U, s \in SUBSET W
        PROVE  G[U][s] = G[W][s]
    <3>1. /\ U \in SUBSET S /\ W \in SUBSET S /\ s \in SUBSET (U \intersect W)
          /\ IsFold(G[U], U, base, F, choice) /\ IsFold(G[W], W, base, F, choice)
      BY <2>2, <2>3, <2>9
    <3> DEFINE gU == G[U]
               gW == G[W]
    <3> HIDE DEF gU, gW, Smaller, h
    <3>2. gU[s] = gW[s]
      <4>1. IsFold(gU, U, base, F, choice) /\ IsFold(gW, W, base, F, choice)
        BY <3>1 DEF gU, gW
      <4> QED BY <3>1, <4>1, FoldUnique
    <3> QED BY <3>2 DEF gU, gW
  <2>6. ASSUME NEW s \in SUBSET T
        PROVE  h[s] = IF s = {} THEN base ELSE F[<<choice[s], h[rest(s)]>>]
    <3>1. CASE s = {}
      BY <3>1, <2>3 DEF IsFold
    <3>2. CASE s # {} /\ s = T
      BY <3>2, <2>4, <2>5
    <3>3. CASE s # {} /\ s # T
      <4>1. s \in Smaller /\ rest(s) \in Smaller /\ rest(s) \in SUBSET s
        BY <3>3, <2>4
      <4>2. h[s] = F[<<choice[s], G[s][rest(s)]>>]
        <5>1. IsFold(G[s], s, base, F, choice) /\ h[s] = G[s][s]
          BY <4>1, <2>3, <2>5
        <5> HIDE DEF h
        <5> QED BY <3>3, <5>1 DEF IsFold
      <4>3. G[s][rest(s)] = G[rest(s)][rest(s)]
        BY <4>1, <2>9
      <4> QED BY <3>3, <4>1, <4>2, <4>3, <2>5
    <3> QED BY <3>1, <3>2, <3>3
  <2>7. h \in [SUBSET T -> V]
    <3> SUFFICES ASSUME NEW s \in SUBSET T PROVE h[s] \in V
      OBVIOUS
    <3>1. CASE s # T
      BY <3>1, <2>5
    <3>2. CASE s = T /\ T = {}
      BY <3>2
    <3>3. CASE s = T /\ T # {}
      <4>1. h[T] = F[<<choice[T], h[rest(T)]>>] /\ h[rest(T)] \in V /\ choice[T] \in S
        BY <3>3, <2>4, <2>5, <2>6
      <4> QED BY <3>3, <4>1
    <3> QED BY <3>1, <3>2, <3>3
  <2>8. IsFold(h, T, base, F, choice)
    BY <2>6 DEF IsFold
  <2> QED BY <2>2, <2>7, <2>8
<1>2. Has(S)
  BY <1>1
<1> QED BY <1>2

-----------------------------------------------------------------------------
(* Sums: MapThenSumSet adds the weight of an element that CHOOSE picks to  *)
(* the sum of the others.                                                  *)

Chosen(s) == CHOOSE x \in s : TRUE

SumStep(g, w, s) == IF s = {} THEN 0 ELSE w[Chosen(s)] + g[s \ {Chosen(s)}]

\* g[s] is the sum of the weights w[x] of the elements x of s, for all s within S.
IsSum(g, S, w) ==
    /\ IsFiniteSet(S)
    /\ \A x \in S : w[x] \in Int
    /\ \A s \in SUBSET S : g[s] \in Int /\ g[s] = SumStep(g, w, s)

\* What CHOOSE picks from a set that is not empty is in it.
LEMMA ChosenIsElement ==
  ASSUME NEW s, s # {}
  PROVE  Chosen(s) \in s
BY DEF Chosen

\* The sums over the subsets of a finite set exist.
LEMMA SumExists ==
  ASSUME NEW S, IsFiniteSet(S), NEW w \in [S -> Int]
  PROVE  \E g \in [SUBSET S -> Int] : IsSum(g, S, w)
<1> DEFINE F == [p \in S \X Int |-> w[p[1]] + p[2]]
           choice == [s \in SUBSET S |-> Chosen(s)]
<1>1. F \in [S \X Int -> Int]
  OBVIOUS
<1>2. Picks(choice, S)
  BY ChosenIsElement DEF Picks
<1>3. PICK g \in [SUBSET S -> Int] : IsFold(g, S, 0, F, choice)
  <2> HIDE DEF F, choice
  <2>1. 0 \in Int
    OBVIOUS
  <2> QED BY <1>1, <1>2, <2>1, FoldExists
<1>4. ASSUME NEW s \in SUBSET S, s # {}
      PROVE  g[s] = w[Chosen(s)] + g[s \ {Chosen(s)}]
  <2>1. g[s] = F[<<choice[s], g[s \ {choice[s]}]>>]
    BY <1>3, <1>4 DEF IsFold
  <2>2. choice[s] = Chosen(s) /\ Chosen(s) \in S
    BY <1>4, ChosenIsElement
  <2>3. g[s \ {Chosen(s)}] \in Int
    OBVIOUS
  <2> QED BY <2>1, <2>2, <2>3
<1>5. g[{}] = 0
  BY <1>3 DEF IsFold
<1> QED BY <1>4, <1>5 DEF IsSum, SumStep

\* The sum over the empty set is 0.
LEMMA SumEmpty ==
  ASSUME NEW S, NEW w, NEW g, IsSum(g, S, w)
  PROVE  g[{}] = 0
BY DEF IsSum, SumStep

\* A sum takes off the element that CHOOSE picks.
LEMMA SumTakes ==
  ASSUME NEW S, NEW w, NEW g, IsSum(g, S, w), NEW s \in SUBSET S, s # {}
  PROVE  g[s] = w[Chosen(s)] + g[s \ {Chosen(s)}]
BY DEF IsSum, SumStep

\* A sum is one over every smaller set.
LEMMA SumWithin ==
  ASSUME NEW S, NEW w, NEW g, IsSum(g, S, w), NEW T \in SUBSET S
  PROVE  IsSum(g, T, w)
BY FS_Subset DEF IsSum

\* Any function that follows the steps of a sum is equal to it.
LEMMA SumUnique ==
  ASSUME NEW S, NEW w, NEW g, IsSum(g, S, w), NEW T \in SUBSET S, NEW h,
         \A s \in SUBSET T : h[s] = SumStep(h, w, s)
  PROVE  g[T] = h[T]
<1> DEFINE B == {t \in SUBSET T : g[t] # h[t]}
<1>1. B \in SUBSET (SUBSET S) /\ IsFiniteSet(S)
  BY DEF IsSum
<1>2. ASSUME B # {} PROVE FALSE
  <2>1. PICK t \in B : \A u \in SUBSET t : u \in B => u = t
    <3> HIDE DEF B
    <3> QED BY <1>1, <1>2, SmallestSubset
  <2>2. t \in SUBSET T /\ t \in SUBSET S /\ g[t] # h[t] /\ t # {}
    <3>1. t \in SUBSET T /\ t \in SUBSET S /\ g[t] # h[t]
      OBVIOUS
    <3> QED BY <3>1 DEF IsSum, SumStep
  <2> DEFINE rest == t \ {Chosen(t)}
  <2>3. rest \in SUBSET t /\ rest # t /\ rest \in SUBSET T
    BY <2>2, ChosenIsElement
  <2>4. g[rest] = h[rest]
    BY <2>1, <2>3
  <2> QED BY <2>2, <2>4 DEF IsSum, SumStep
<1> QED BY <1>2

\* One element more adds its weight to the sum.
AddsUp(g, S, w) ==
    \A t \in SUBSET S : \A x \in S \ t : g[t \union {x}] = g[t] + w[x]

\* A sum adds up, whichever element CHOOSE picks first.
LEMMA SumAdds ==
  ASSUME NEW S, NEW w, NEW g, IsSum(g, S, w)
  PROVE  AddsUp(g, S, w)
<1> DEFINE Adds(t) == \A y \in S \ t : g[t \union {y}] = g[t] + w[y]
           B == {t \in SUBSET S : ~Adds(t)}
<1>1. B \in SUBSET (SUBSET S) /\ IsFiniteSet(S)
  BY DEF IsSum
<1>2. ASSUME B # {} PROVE FALSE
  <2>1. PICK t \in B : \A u \in SUBSET t : u \in B => u = t
    <3> HIDE DEF B
    <3> QED BY <1>1, <1>2, SmallestSubset
  <2>2. t \in SUBSET S /\ ~Adds(t)
    OBVIOUS
  <2>3. PICK y \in S \ t : g[t \union {y}] # g[t] + w[y]
    BY <2>2
  <2> DEFINE all == t \union {y}
             c == Chosen(all)
  <2>4. all \in SUBSET S /\ all # {} /\ y \in S /\ y \notin t /\ all \ {y} = t
    BY <2>2
  <2>5. c \in all /\ g[all] = w[c] + g[all \ {c}]
    <3> HIDE DEF all
    <3> QED BY <2>4, SumTakes, ChosenIsElement
  <2>6. \A u \in SUBSET t : u # t => Adds(u)
    BY <2>1, <2>2
  <2>7. g[t] \in Int /\ w[y] \in Int /\ g[all] # g[t] + w[y]
    BY <2>2, <2>3 DEF IsSum
  <2> HIDE DEF c, all, B
  <2>8. CASE c = y
    <3>1. g[all] = w[y] + g[t]
      BY <2>4, <2>5, <2>8, Zenon
    <3> QED BY <2>7, <3>1
  <2>9. CASE c # y
    <3> DEFINE rest == t \ {c}
    <3>1. /\ c \in t /\ c \in S \ rest /\ y \in S \ rest
          /\ rest \in SUBSET t /\ rest # t /\ rest \in SUBSET S
      BY <2>2, <2>4, <2>5, <2>9 DEF all
    <3>2. Adds(rest)
      BY <2>6, <3>1
    <3>3. all \ {c} = rest \union {y} /\ t = rest \union {c}
      BY <2>9, <3>1 DEF all
    <3>4. g[rest \union {y}] = g[rest] + w[y] /\ g[rest \union {c}] = g[rest] + w[c]
      BY <3>1, <3>2
    <3>5. g[rest] \in Int /\ w[y] \in Int /\ w[c] \in Int
      BY <3>1 DEF IsSum
    <3> HIDE DEF rest
    <3>6. g[all] = w[c] + g[rest \union {y}] /\ g[t] = g[rest \union {c}]
      BY <2>5, <3>3, Zenon
    <3> QED BY <2>7, <3>4, <3>5, <3>6
  <2> QED BY <2>8, <2>9
<1>3. \A t \in SUBSET S : Adds(t)
  BY <1>2
<1> QED BY <1>3 DEF AddsUp

\* An element taken out of a set takes its weight out of the sum.
TakesOff(g, S, w) ==
    \A T \in SUBSET S : \A x \in T :
        /\ g[T] = g[T \ {x}] + w[x]
        /\ g[T] \in Int /\ g[T \ {x}] \in Int /\ w[x] \in Int

\* A sum takes off the weight of an element that is taken out of a set.
LEMMA SumRemoves ==
  ASSUME NEW S, NEW w, NEW g, IsSum(g, S, w)
  PROVE  TakesOff(g, S, w)
<1> SUFFICES ASSUME NEW T \in SUBSET S, NEW x \in T
             PROVE  /\ g[T] = g[T \ {x}] + w[x]
                    /\ g[T] \in Int /\ g[T \ {x}] \in Int /\ w[x] \in Int
  BY DEF TakesOff
<1> DEFINE rest == T \ {x}
<1>1. rest \in SUBSET S /\ x \in S \ rest /\ rest \union {x} = T
  OBVIOUS
<1>2. \A t \in SUBSET S : \A y \in S \ t : g[t \union {y}] = g[t] + w[y]
  <2>1. AddsUp(g, S, w)
    BY SumAdds
  <2> QED BY <2>1 DEF AddsUp
<1> HIDE DEF rest
<1>3. g[rest \union {x}] = g[rest] + w[x]
  BY <1>1, <1>2, Zenon
<1>4. g[T] = g[rest] + w[x]
  BY <1>1, <1>3, Zenon
<1>5. g[T] \in Int /\ g[rest] \in Int /\ w[x] \in Int
  BY <1>1 DEF IsSum
<1> QED BY <1>4, <1>5 DEF rest

(***************************************************************************)
(* Two sums compared element by element.  On the elements of T the weights *)
(* v are at most the weights w within S, and at most 0 outside of it.      *)
(***************************************************************************)
LEMMA SumCompare ==
  ASSUME NEW S, NEW w, NEW g, IsSum(g, S, w), NEW U, NEW v, NEW h, IsSum(h, U, v),
         NEW T \in SUBSET U,
         \A x \in T \intersect S : v[x] <= w[x], \A x \in T \ S : v[x] <= 0
  PROVE  h[T] <= g[T \intersect S]
<1> DEFINE B == {t \in SUBSET T : ~(h[t] <= g[t \intersect S])}
<1>1. B \in SUBSET (SUBSET U) /\ IsFiniteSet(U)
  BY DEF IsSum
<1>2. ASSUME B # {} PROVE FALSE
  <2>1. PICK t \in B : \A u \in SUBSET t : u \in B => u = t
    <3> HIDE DEF B
    <3> QED BY <1>1, <1>2, SmallestSubset
  <2>2. t \in SUBSET T /\ t \in SUBSET U /\ ~(h[t] <= g[t \intersect S])
    OBVIOUS
  <2>3. t # {}
    <3>1. h[{}] = 0 /\ g[{}] = 0 /\ {} \intersect S = {}
      BY SumEmpty
    <3>2. t = {} => h[t] = 0 /\ g[t \intersect S] = 0
      BY <3>1, Zenon
    <3> QED BY <2>2, <3>2
  <2>4. PICK x : x \in t
    BY <2>3
  <2> DEFINE rest == t \ {x}
             tS == t \intersect S
             restS == rest \intersect S
  <2>5. rest \in SUBSET t /\ rest # t
    BY <2>4
  <2>6. h[rest] <= g[restS]
    <3>1. rest \in SUBSET T /\ rest \notin B
      BY <2>1, <2>2, <2>5
    <3> HIDE DEF rest
    <3> QED BY <3>1, Zenon
  <2>7. h[t] = h[rest] + v[x] /\ h[rest] \in Int /\ v[x] \in Int
    <3>1. t \in SUBSET U /\ x \in t
      BY <2>2, <2>4
    <3>2. TakesOff(h, U, v)
      BY ONLY IsSum(h, U, v), SumRemoves
    <3> QED BY <3>1, <3>2, Zenon DEF TakesOff
  <2>8. CASE x \in S
    <3>1. tS \in SUBSET S /\ x \in tS /\ restS = tS \ {x}
      BY <2>4, <2>8
    <3>2. v[x] <= w[x]
      BY <2>2, <2>4, <2>8
    <3>3. ~(h[t] <= g[tS])
      BY <2>2
    <3> HIDE DEF tS, restS, rest, B
    <3>4. g[tS] = g[tS \ {x}] + w[x] /\ g[tS \ {x}] \in Int /\ w[x] \in Int
      <4>1. TakesOff(g, S, w)
        BY SumRemoves, Zenon
      <4> QED BY <3>1, <4>1, Zenon DEF TakesOff
    <3>5. g[tS] = g[restS] + w[x] /\ g[restS] \in Int
      BY <3>1, <3>4, Zenon
    <3> QED BY <2>6, <2>7, <3>2, <3>3, <3>4, <3>5
  <2>9. CASE x \notin S
    <3>1. tS \in SUBSET S /\ restS = tS
      BY <2>9
    <3>2. v[x] <= 0
      BY <2>2, <2>4, <2>9
    <3>3. ~(h[t] <= g[tS])
      BY <2>2
    <3> HIDE DEF tS, restS, rest, B
    <3>4. g[tS] \in Int
      BY <3>1 DEF IsSum
    <3>5. g[restS] = g[tS]
      BY <3>1, Zenon
    <3> QED BY <2>6, <2>7, <3>2, <3>3, <3>4, <3>5
  <2> QED BY <2>8, <2>9
<1>3. T \notin B
  BY <1>2
<1> QED BY <1>3

\* The same for weights that are equal within S, and 0 outside of it.
LEMMA SumRestricts ==
  ASSUME NEW S, NEW w, NEW g, IsSum(g, S, w), NEW U, NEW v, NEW h, IsSum(h, U, v),
         S \in SUBSET U, \A x \in U : v[x] = IF x \in S THEN w[x] ELSE 0
  PROVE  h[U] = g[S]
<1> DEFINE B == {t \in SUBSET U : h[t] # g[t \intersect S]}
<1>1. B \in SUBSET (SUBSET U) /\ IsFiniteSet(U)
  BY DEF IsSum
<1>2. ASSUME B # {} PROVE FALSE
  <2>1. PICK t \in B : \A u \in SUBSET t : u \in B => u = t
    <3> HIDE DEF B
    <3> QED BY <1>1, <1>2, SmallestSubset
  <2>2. t \in SUBSET U /\ h[t] # g[t \intersect S]
    OBVIOUS
  <2>3. t # {}
    <3>1. h[{}] = 0 /\ g[{}] = 0 /\ {} \intersect S = {}
      BY SumEmpty
    <3>2. t = {} => h[t] = 0 /\ g[t \intersect S] = 0
      BY <3>1, Zenon
    <3> QED BY <2>2, <3>2
  <2>4. PICK x : x \in t
    BY <2>3
  <2> DEFINE rest == t \ {x}
             tS == t \intersect S
             restS == rest \intersect S
  <2>5. rest \in SUBSET t /\ rest # t
    BY <2>4
  <2>6. h[rest] = g[restS]
    BY <2>1, <2>2, <2>5
  <2>7. h[t] = h[rest] + v[x] /\ h[rest] \in Int /\ v[x] \in Int
    <3>1. t \in SUBSET U /\ x \in t
      BY <2>2, <2>4
    <3>2. TakesOff(h, U, v)
      BY SumRemoves, Zenon
    <3> QED BY <3>1, <3>2, Zenon DEF TakesOff
  <2>8. CASE x \in S
    <3>1. tS \in SUBSET S /\ x \in tS /\ restS = tS \ {x}
      BY <2>4, <2>8
    <3>2. v[x] = w[x]
      BY <2>2, <2>4, <2>8
    <3>3. h[t] # g[tS]
      BY <2>2
    <3> HIDE DEF tS, restS, rest, B
    <3>4. g[tS] = g[tS \ {x}] + w[x]
      <4>1. TakesOff(g, S, w)
        BY SumRemoves, Zenon
      <4> QED BY <3>1, <4>1, Zenon DEF TakesOff
    <3>5. g[tS] = g[restS] + w[x]
      BY <3>1, <3>4, Zenon
    <3> QED BY <2>6, <2>7, <3>2, <3>3, <3>5
  <2>9. CASE x \notin S
    <3>1. restS = tS
      BY <2>9
    <3>2. v[x] = 0
      BY <2>2, <2>4, <2>9
    <3>3. h[t] # g[tS]
      BY <2>2
    <3> HIDE DEF tS, restS, rest, B
    <3>5. g[restS] = g[tS]
      BY <3>1, Zenon
    <3> QED BY <2>6, <2>7, <3>2, <3>3, <3>5
  <2> QED BY <2>8, <2>9
<1>3. h[U] = g[U \intersect S] /\ U \intersect S = S
  BY <1>2
<1> QED BY <1>3, Zenon

\* Elements that weigh nothing less than 0 never make a sum smaller.
LEMMA SumGrows ==
  ASSUME NEW S, NEW w, NEW g, IsSum(g, S, w),
         NEW U \in SUBSET S, NEW T \in SUBSET U, \A x \in U \ T : w[x] >= 0
  PROVE  g[T] <= g[U]
<1> DEFINE v == [x \in U |-> IF x \in T THEN w[x] ELSE 0]
<1>1. IsFiniteSet(U) /\ v \in [U -> Int]
  BY FS_Subset DEF IsSum
<1>2. /\ \A x \in U : v[x] = IF x \in T THEN w[x] ELSE 0
      /\ \A x \in U : v[x] <= w[x]
  BY DEF IsSum
<1> HIDE DEF v
<1>3. PICK h : IsSum(h, U, v)
  BY <1>1, SumExists
<1>4. IsSum(g, T, w) /\ IsSum(g, U, w)
  BY SumWithin
<1>5. h[U] = g[T]
  BY <1>2, <1>3, <1>4, SumRestricts
<1>6. h[U] <= g[U \intersect U]
  <2>1. U \in SUBSET U /\ \A x \in U : v[x] <= IF x \in U THEN w[x] ELSE 0
    BY <1>2
  <2> QED BY <1>3, <1>4, <2>1, SumCompare
<1>7. U \intersect U = U
  OBVIOUS
<1> QED BY <1>5, <1>6, <1>7, Zenon

\* A sum over naturals is a natural.
LEMMA SumOfNaturals ==
  ASSUME NEW S, NEW w, NEW g, IsSum(g, S, w), \A x \in S : w[x] >= 0
  PROVE  g[S] \in Nat
<1>1. g[{}] = 0 /\ g[S] \in Int
  BY SumEmpty DEF IsSum
<1>2. S \in SUBSET S /\ {} \in SUBSET S /\ \A x \in S \ {} : w[x] >= 0
  OBVIOUS
<1>3. g[{}] <= g[S]
  BY <1>2, SumGrows
<1> QED BY <1>1, <1>3

\* The sum of a function is the last of the sums over the subsets of its domain.
LEMMA SumFunctionIsSum ==
  ASSUME NEW S, IsFiniteSet(S), NEW w \in [S -> Int]
  PROVE  \E g \in [SUBSET S -> Int] : IsSum(g, S, w) /\ g[S] = SumFunction(w)
<1> DEFINE Step(f, t) == IF t = {} THEN 0
                         ELSE w[CHOOSE x \in t : TRUE] + f[t \ {CHOOSE x \in t : TRUE}]
           h == CHOOSE f : f = [t \in SUBSET S |-> Step(f, t)]
<1>1. SumFunction(w) = h[S]
  <2>1. DOMAIN w = S
    OBVIOUS
  <2> QED BY <2>1 DEF SumFunction, SumFunctionOnSet, FoldFunctionOnSet, MapThenFoldSet
<1>2. PICK g \in [SUBSET S -> Int] : IsSum(g, S, w)
  BY SumExists
<1>3. g = [t \in SUBSET S |-> Step(g, t)]
  BY <1>2 DEF IsSum, SumStep, Chosen
<1>4. h = [t \in SUBSET S |-> Step(h, t)]
  <2> HIDE DEF Step
  <2> QED BY <1>3, Zenon
<1> HIDE DEF h
<1>5. ASSUME NEW t \in SUBSET S PROVE h[t] = SumStep(h, w, t)
  BY <1>4 DEF SumStep, Chosen
<1>6. g[S] = h[S]
  <2> HIDE DEF Step
  <2> QED BY <1>2, <1>5, SumUnique
<1> QED BY <1>1, <1>2, <1>6

\* The sum of finitely many natural numbers is one, and no less than any of them.
LEMMA SumFunctionType ==
  ASSUME NEW S, IsFiniteSet(S), NEW w \in [S -> Nat]
  PROVE  SumFunction(w) \in Nat /\ \A x \in S : w[x] <= SumFunction(w)
<1>1. PICK g \in [SUBSET S -> Int] : IsSum(g, S, w) /\ g[S] = SumFunction(w)
  <2>1. w \in [S -> Int]
    OBVIOUS
  <2> QED BY ONLY <2>1, IsFiniteSet(S), SumFunctionIsSum
<1>2. g[S] \in Nat
  BY <1>1, SumOfNaturals
<1>3. ASSUME NEW x \in S PROVE w[x] <= g[S]
  <2>1. g[{x}] = w[x]
    <3>1. g[{} \union {x}] = g[{}] + w[x]
      BY <1>1, SumAdds DEF AddsUp
    <3>2. g[{}] = 0 /\ {} \union {x} = {x} /\ w[x] \in Int
      BY <1>1, SumEmpty
    <3> QED BY <3>1, <3>2
  <2>2. g[{x}] <= g[S]
    <3>1. \A y \in S \ {x} : w[y] >= 0
      OBVIOUS
    <3> QED BY <1>1, <3>1, SumGrows
  <2> QED BY <2>1, <2>2
<1> QED BY <1>1, <1>2, <1>3

\* An element more in the domain adds its value to the sum.
LEMMA SumFunctionAdds ==
  ASSUME NEW S, IsFiniteSet(S), NEW x, x \notin S, NEW w \in [S \union {x} -> Int],
         NEW v \in [S -> Int], \A y \in S : v[y] = w[y]
  PROVE  SumFunction(w) = SumFunction(v) + w[x] /\ SumFunction(v) \in Int
<1>1. PICK g : IsSum(g, S \union {x}, w) /\ g[S \union {x}] = SumFunction(w)
  <2>1. IsFiniteSet(S \union {x})
    BY FS_AddElement
  <2> QED BY <2>1, SumFunctionIsSum
<1>2. PICK h \in [SUBSET S -> Int] : IsSum(h, S, v) /\ h[S] = SumFunction(v)
  BY SumFunctionIsSum
<1>3. g[S \union {x}] = g[S] + w[x]
  <2>1. AddsUp(g, S \union {x}, w)
    BY <1>1, SumAdds
  <2>2. S \in SUBSET (S \union {x}) /\ x \in (S \union {x}) \ S
    OBVIOUS
  <2> QED BY <2>1, <2>2, Zenon DEF AddsUp
<1>4. g[S] = h[S]
  <2>1. ASSUME NEW t \in SUBSET S PROVE h[t] = SumStep(h, w, t)
    <3>1. h[t] = SumStep(h, v, t)
      BY <1>2 DEF IsSum
    <3>2. t # {} => Chosen(t) \in S /\ v[Chosen(t)] = w[Chosen(t)]
      BY ChosenIsElement
    <3> QED BY <3>1, <3>2 DEF SumStep
  <2> QED BY <1>1, <2>1, SumUnique
<1>5. h[S] \in Int
  OBVIOUS
<1> QED BY <1>1, <1>2, <1>3, <1>4, <1>5

\* k times w is everywhere the sum of m times u and n times v.
IsCombination(S, k, w, m, u, n, v) == \A x \in S : k * w[x] = m * u[x] + n * v[x]

\* A function that is everywhere the same combination of two others has the
\* combination of their sums as its sum.
LEMMA SumFunctionCombines ==
  ASSUME NEW S, IsFiniteSet(S), NEW u \in [S -> Int], NEW v \in [S -> Int], NEW w \in [S -> Int],
         NEW k \in Int, NEW m \in Int, NEW n \in Int,
         IsCombination(S, k, w, m, u, n, v)
  PROVE  /\ SumFunction(u) \in Int /\ SumFunction(v) \in Int /\ SumFunction(w) \in Int
         /\ k * SumFunction(w) = m * SumFunction(u) + n * SumFunction(v)
<1>1. PICK f \in [SUBSET S -> Int] : IsSum(f, S, u) /\ f[S] = SumFunction(u)
  BY SumFunctionIsSum
<1>2. PICK g \in [SUBSET S -> Int] : IsSum(g, S, v) /\ g[S] = SumFunction(v)
  BY SumFunctionIsSum
<1>3. PICK h \in [SUBSET S -> Int] : IsSum(h, S, w) /\ h[S] = SumFunction(w)
  BY SumFunctionIsSum
<1> DEFINE B == {t \in SUBSET S : k * h[t] # m * f[t] + n * g[t]}
<1>4. ASSUME B # {} PROVE FALSE
  <2>1. PICK t \in B : \A r \in SUBSET t : r \in B => r = t
    <3>1. B \in SUBSET (SUBSET S)
      OBVIOUS
    <3> HIDE DEF B
    <3> QED BY <1>4, <3>1, SmallestSubset
  <2>2. t \in SUBSET S /\ k * h[t] # m * f[t] + n * g[t]
    BY <2>1
  <2>3. t # {}
    <3>1. f[{}] = 0 /\ g[{}] = 0 /\ h[{}] = 0
      BY <1>1, <1>2, <1>3, SumEmpty
    <3>2. ASSUME t = {} PROVE k * h[t] = m * f[t] + n * g[t]
      <4>1. h[t] = 0 /\ f[t] = 0 /\ g[t] = 0
        BY <3>1, <3>2, Zenon
      <4> QED BY <4>1
    <3> QED BY <2>2, <3>2
  <2>4. PICK x : x \in t
    BY <2>3
  <2> DEFINE rest == t \ {x}
  <2>5. rest \in SUBSET S /\ rest \in SUBSET t /\ rest # t /\ x \in S
    BY <2>2, <2>4
  <2>6. k * h[rest] = m * f[rest] + n * g[rest]
    BY <2>1, <2>5
  <2>7. /\ f[t] = f[rest] + u[x] /\ g[t] = g[rest] + v[x] /\ h[t] = h[rest] + w[x]
        /\ f[rest] \in Int /\ g[rest] \in Int /\ h[rest] \in Int
    <3>1. TakesOff(f, S, u) /\ TakesOff(g, S, v) /\ TakesOff(h, S, w)
      BY <1>1, <1>2, <1>3, SumRemoves
    <3> QED BY <2>2, <2>4, <3>1 DEF TakesOff
  <2>8. k * w[x] = m * u[x] + n * v[x] /\ w[x] \in Int /\ u[x] \in Int /\ v[x] \in Int
    BY <2>5 DEF IsCombination
  <2> HIDE DEF rest, B
  <2>9. /\ k * (h[rest] + w[x]) = k * h[rest] + k * w[x]
        /\ m * (f[rest] + u[x]) = m * f[rest] + m * u[x]
        /\ n * (g[rest] + v[x]) = n * g[rest] + n * v[x]
    BY <2>7, <2>8
  <2>10. \A a, b, c, d, e, q \in Int : a = b + c /\ d = e + q => a + d = (b + e) + (c + q)
    OBVIOUS
  <2>11. k * h[rest] \in Int /\ k * w[x] \in Int /\ m * f[rest] \in Int /\ m * u[x] \in Int
         /\ n * g[rest] \in Int /\ n * v[x] \in Int
    BY <2>7, <2>8
  <2>12. k * h[rest] + k * w[x] = (m * f[rest] + m * u[x]) + (n * g[rest] + n * v[x])
    BY <2>6, <2>8, <2>10, <2>11
  <2> QED BY <2>2, <2>7, <2>9, <2>12
<1>5. S \notin B
  BY <1>4
<1>6. f[S] \in Int /\ g[S] \in Int /\ h[S] \in Int
  OBVIOUS
<1> QED BY <1>1, <1>2, <1>3, <1>5, <1>6

\* The sum over two sets without a common element is the sum of their sums.
Splits(g, S) ==
    \A P, Q \in SUBSET S : P \intersect Q = {} => g[P \union Q] = g[P] + g[Q]

\* Sums split, an element of Q after the other.
LEMMA SumSplits ==
  ASSUME NEW S, NEW w, NEW g, IsSum(g, S, w)
  PROVE  Splits(g, S)
<1> SUFFICES ASSUME NEW P \in SUBSET S, NEW Q \in SUBSET S, P \intersect Q = {}
             PROVE  g[P \union Q] = g[P] + g[Q]
  BY DEF Splits
<1> DEFINE B == {t \in SUBSET Q : g[P \union t] # g[P] + g[t]}
<1>1. B \in SUBSET (SUBSET S) /\ IsFiniteSet(S)
  BY DEF IsSum
<1>2. ASSUME B # {} PROVE FALSE
  <2>1. PICK t \in B : \A u \in SUBSET t : u \in B => u = t
    <3> HIDE DEF B
    <3> QED BY <1>1, <1>2, SmallestSubset
  <2>2. t \in SUBSET Q /\ t \in SUBSET S /\ g[P \union t] # g[P] + g[t]
    OBVIOUS
  <2>3. g[P] \in Int
    BY DEF IsSum
  <2>4. t # {}
    <3>1. g[{}] = 0 /\ P \union {} = P
      BY SumEmpty
    <3>2. t = {} => g[P \union t] = g[P] /\ g[t] = 0
      BY <3>1, Zenon
    <3> QED BY <2>2, <2>3, <3>2
  <2>5. PICK x : x \in t
    BY <2>4
  <2> DEFINE rest == t \ {x}
             all == P \union t
  <2>6. rest \in SUBSET t /\ rest # t /\ rest \in SUBSET Q
    BY <2>2, <2>5
  <2>7. g[P \union rest] = g[P] + g[rest]
    BY <2>1, <2>6
  <2>8. all \in SUBSET S /\ x \in all /\ all \ {x} = P \union rest
    BY <2>2, <2>5
  <2>9. TakesOff(g, S, w)
    BY SumRemoves, Zenon
  <2>10. g[t] = g[rest] + w[x] /\ g[rest] \in Int /\ w[x] \in Int
    BY <2>2, <2>5, <2>9, Zenon DEF TakesOff
  <2>11. g[all] # g[P] + g[t]
    BY <2>2
  <2> HIDE DEF all, rest, B
  <2>12. g[all] = g[all \ {x}] + w[x]
    BY <2>8, <2>9, Zenon DEF TakesOff
  <2>13. g[all] = g[P \union rest] + w[x]
    BY <2>8, <2>12, Zenon
  <2> QED BY <2>3, <2>7, <2>10, <2>11, <2>13
<1>3. Q \notin B
  BY <1>2
<1> QED BY <1>3

(***************************************************************************)
(* Two sums over different sets compared: what T has of S weighs no more,  *)
(* what T has besides weighs at most 0, what it lacks weighs at least 0.   *)
(***************************************************************************)
LEMMA SumOrder ==
  ASSUME NEW D, NEW w, NEW g, IsSum(g, D, w), NEW S \in SUBSET D,
         NEW E, NEW v, NEW h, IsSum(h, E, v), NEW T \in SUBSET E,
         \A x \in T \intersect S : v[x] <= w[x],
         \A x \in T \ S : v[x] <= 0,
         \A x \in S \ T : w[x] >= 0
  PROVE  h[T] <= g[S] /\ h[T] \in Int /\ g[S] \in Int
<1>1. IsSum(g, S, w)
  BY SumWithin
<1>2. h[T] <= g[T \intersect S]
  BY <1>1, SumCompare
<1> DEFINE both == T \intersect S
<1>3. both \in SUBSET S /\ S \in SUBSET S /\ \A x \in S \ both : w[x] >= 0
  OBVIOUS
<1>4. h[T] \in Int /\ g[S] \in Int /\ g[both] \in Int
  BY <1>1, <1>3 DEF IsSum
<1> HIDE DEF both
<1>5. g[both] <= g[S]
  BY <1>1, <1>3, SumGrows
<1>6. h[T] <= g[both]
  BY <1>2 DEF both
<1> QED BY <1>4, <1>5, <1>6
=============================================================================
