---------------------------- MODULE PricingProofs ----------------------------
(***************************************************************************)
(* What Pricing's run checks on books of two levels, proved for books of   *)
(* any length and for every fee, reserve, limit and rounding scale that    *)
(* PricingAssumption admits.                                               *)
(***************************************************************************)
EXTENDS Pricing, FiniteFolds

-----------------------------------------------------------------------------
(* The operators of pricing.rs.                                            *)

PriceLevels == [price : 1 .. One - 1, size : Nat \ {0}]
Ladders == Seq(PriceLevels)

\* Depths, totals and fees are natural numbers.
LEMMA TotalsType ==
  ASSUME NEW levels \in Ladders, NEW q \in Nat
  PROVE  /\ Depth(levels) \in Nat /\ Gross(levels, q) \in Nat /\ Fee(levels, q) \in Nat
         /\ \A i \in DOMAIN levels : DepthBefore(levels, i) \in Nat
                                     /\ DepthBefore(levels, i + 1) \in Nat
<1>1. /\ DOMAIN levels = 1 .. Len(levels) /\ Len(levels) \in Nat /\ IsFiniteSet(DOMAIN levels)
      /\ \A i \in DOMAIN levels : /\ levels[i].price \in 1 .. One - 1
                                  /\ levels[i].size \in Nat \ {0}
      /\ One \in Nat /\ FeeRate \in Nat
  <2>1. /\ DOMAIN levels = 1 .. Len(levels) /\ Len(levels) \in Nat
        /\ \A i \in DOMAIN levels : levels[i] \in PriceLevels
    BY DEF Ladders
  <2>2. IsFiniteSet(1 .. Len(levels))
    BY <2>1, FS_Interval
  <2> QED BY <2>1, <2>2, PricingAssumption DEF PriceLevels
<1>2. Depth(levels) \in Nat
  <2> DEFINE w == [i \in DOMAIN levels |-> levels[i].size]
  <2>1. w \in [DOMAIN levels -> Nat]
    BY <1>1
  <2> HIDE DEF w
  <2>2. SumFunction(w) \in Nat
    BY <1>1, <2>1, SumFunctionType
  <2> QED BY <2>2 DEF Depth, w
<1>3. \A n \in 0 .. Len(levels) : DepthBefore(levels, n + 1) \in Nat
  <2> SUFFICES ASSUME NEW n \in 0 .. Len(levels) PROVE DepthBefore(levels, n + 1) \in Nat
    OBVIOUS
  <2> DEFINE w == [j \in 1 .. n |-> levels[j].size]
  <2>0. \A j \in 1 .. n : j \in DOMAIN levels /\ levels[j].size \in Nat
    BY <1>1
  <2>1. w \in [1 .. n -> Nat] /\ IsFiniteSet(1 .. n)
    <3>1. w \in [1 .. n -> Nat]
      BY <2>0
    <3> QED BY <1>1, <3>1, FS_Interval
  <2>2. n + 1 - 1 = n
    BY <1>1
  <2>3. DepthBefore(levels, n + 1) = SumFunction(w)
    BY <2>2 DEF DepthBefore
  <2> HIDE DEF w
  <2> QED BY <2>1, <2>3, SumFunctionType
<1>4. \A i \in DOMAIN levels : DepthBefore(levels, i) \in Nat /\ DepthBefore(levels, i + 1) \in Nat
  <2> SUFFICES ASSUME NEW i \in DOMAIN levels
               PROVE  DepthBefore(levels, i) \in Nat /\ DepthBefore(levels, i + 1) \in Nat
    OBVIOUS
  <2>1. i \in 0 .. Len(levels) /\ i - 1 \in 0 .. Len(levels) /\ i - 1 + 1 = i
    BY <1>1
  <2>2. DepthBefore(levels, i - 1 + 1) \in Nat
    BY <1>3, <2>1
  <2> QED BY <1>3, <2>1, <2>2
<1>5. \A i \in DOMAIN levels : Filled(levels, i, q) \in Nat
  <2> SUFFICES ASSUME NEW i \in DOMAIN levels PROVE Filled(levels, i, q) \in Nat
    OBVIOUS
  <2> DEFINE left == q - DepthBefore(levels, i)
  <2>1. left \in Int /\ levels[i].size \in Nat
    BY <1>1, <1>4
  <2> HIDE DEF left
  <2>2. left > 0 => Min({left, levels[i].size}) \in Nat
    BY <2>1 DEF Min
  <2>3. Filled(levels, i, q) = IF left <= 0 THEN 0 ELSE Min({left, levels[i].size})
    BY DEF Filled, left
  <2> QED BY <2>1, <2>2, <2>3
<1>6. Gross(levels, q) \in Nat
  <2> DEFINE w == [i \in DOMAIN levels |-> Filled(levels, i, q) * levels[i].price]
  <2>1. w \in [DOMAIN levels -> Nat]
    BY <1>1, <1>5
  <2> HIDE DEF w
  <2>2. SumFunction(w) \in Nat
    BY <1>1, <2>1, SumFunctionType
  <2> QED BY <1>1, <2>2 DEF Gross, w
<1>7. Fee(levels, q) \in Nat
  <2> DEFINE w == [i \in DOMAIN levels |->
                     Filled(levels, i, q) * levels[i].price * (One - levels[i].price)]
  <2>1. w \in [DOMAIN levels -> Nat]
    <3> SUFFICES ASSUME NEW i \in DOMAIN levels
                 PROVE  Filled(levels, i, q) * levels[i].price * (One - levels[i].price) \in Nat
      OBVIOUS
    <3>1. /\ Filled(levels, i, q) \in Nat /\ levels[i].price \in Nat
          /\ One - levels[i].price \in Nat
      BY <1>1, <1>5
    <3>2. \A x, y, z \in Nat : x * y * z \in Nat
      OBVIOUS
    <3> QED BY <3>1, <3>2
  <2> HIDE DEF w
  <2>2. SumFunction(w) \in Nat
    BY <1>1, <2>1, SumFunctionType
  <2> QED BY <1>1, <2>2 DEF Fee, w
<1> QED BY <1>2, <1>4, <1>6, <1>7

\* ceil never rounds down, floor never up, and both by less than the rounding scale.
LEMMA CeilBounds ==
  ASSUME NEW n \in Int, NEW d \in Nat \ {0}
  PROVE  /\ CeilRatio(n, d) \in Int /\ d * CeilRatio(n, d) >= n
         /\ n >= 0 => CeilRatio(n, d) >= 0
         /\ d * CeilRatio(n, d) <= n + d * Grain
<1>1. Grain \in Nat /\ Grain > 0
  BY PricingAssumption
<1> DEFINE k == d * Grain
           x == (n + k - 1) \div k
<1>2. k \in Nat /\ k > 0
  BY <1>1
<1> HIDE DEF k
<1>3. x \in Int /\ k * x >= n /\ k * x <= n + k /\ (n >= 0 => x >= 0)
  BY <1>2
<1>4. CeilRatio(n, d) = Grain * x
  BY DEF CeilRatio, k
<1> HIDE DEF x
<1>5. d * (Grain * x) = k * x
  BY <1>1, <1>3 DEF k
<1> QED BY <1>1, <1>3, <1>4, <1>5 DEF k

\* Rounding down never rounds up.
LEMMA FloorBounds ==
  ASSUME NEW n \in Int
  PROVE  Floor(n) \in Int /\ Floor(n) <= n /\ n <= Floor(n) + Grain
<1>1. Grain \in Nat /\ Grain > 0
  BY PricingAssumption
<1> QED BY <1>1 DEF Floor

ExactOn(a, b, d, q) ==
    LET gross == Gross(a, q) + Gross(b, q)
        charges == (Fee(a, q) + Fee(b, q) + Latency + Orphan) * 10000 + gross * SlippageBps
    IN IF d = "buy_merge" THEN (Value(q) - gross) * 10000 - charges
       ELSE (gross - Value(q)) * 10000 - charges

\* evaluate promises no more profit than there is, whichever way the trade goes, and
\* its three roundings make it too small by as many rounding scales at most.
LEMMA EvaluatedIsClose ==
  ASSUME NEW a \in Ladders, NEW b \in Ladders, NEW d, NEW q \in Nat
  PROVE  /\ Evaluated(a, b, d, q).direction = d /\ Evaluated(a, b, d, q).quantity = q
         /\ DOMAIN Evaluated(a, b, d, q) = {"direction", "quantity", "gross", "capital", "profit"}
         /\ Evaluated(a, b, d, q).gross \in Nat /\ Evaluated(a, b, d, q).capital \in Nat
         /\ Evaluated(a, b, d, q).profit \in Int
         /\ Evaluated(a, b, d, q).profit * 10000 <= ExactOn(a, b, d, q)
         /\ ExactOn(a, b, d, q) <= (Evaluated(a, b, d, q).profit + 3 * Grain) * 10000
         /\ ExactOn(a, b, d, q) \in Int
<1> DEFINE gross == Gross(a, q) + Gross(b, q)
           fee == Fee(a, q) + Fee(b, q)
           slip == gross * SlippageBps
           fees == Ceil(fee)
           reserve == CeilRatio(slip + (Latency + Orphan) * 10000, 10000)
           cost == Ceil(gross + fees + reserve)
           proceeds == Floor(gross - fees - reserve)
           value == Value(q)
<1>1. gross \in Nat /\ fee \in Nat
  BY TotalsType
<1>2. slip \in Nat /\ value \in Nat /\ Latency \in Nat /\ Orphan \in Nat /\ Grain \in Nat
  <2>1. /\ SlippageBps \in Nat /\ One \in Nat /\ Latency \in Nat /\ Orphan \in Nat
        /\ Grain \in Nat
    BY PricingAssumption
  <2>2. \A x, y \in Nat : x * y \in Nat
    OBVIOUS
  <2> QED BY <1>1, <2>1, <2>2 DEF Value
<1> HIDE DEF gross, fee, slip, value
<1>3. fees \in Nat /\ fees >= fee /\ fees <= fee + Grain
  <2>1. /\ CeilRatio(fee, 1) \in Int /\ 1 * CeilRatio(fee, 1) >= fee /\ CeilRatio(fee, 1) >= 0
        /\ 1 * CeilRatio(fee, 1) <= fee + 1 * Grain
    BY <1>1, CeilBounds
  <2> QED BY <1>2, <2>1 DEF Ceil
<1>4. /\ reserve \in Nat /\ 10000 * reserve >= slip + (Latency + Orphan) * 10000
      /\ 10000 * reserve <= slip + (Latency + Orphan) * 10000 + 10000 * Grain
  <2> DEFINE n == slip + (Latency + Orphan) * 10000
  <2>1. n \in Int /\ n >= 0 /\ 10000 \in Nat \ {0}
    BY <1>2
  <2> HIDE DEF n
  <2>2. /\ CeilRatio(n, 10000) \in Int /\ 10000 * CeilRatio(n, 10000) >= n
        /\ CeilRatio(n, 10000) >= 0 /\ 10000 * CeilRatio(n, 10000) <= n + 10000 * Grain
    BY <2>1, CeilBounds
  <2> QED BY <2>2 DEF n
<1> HIDE DEF fees, reserve
<1>5. /\ cost \in Nat /\ cost >= gross + fees + reserve
      /\ cost <= gross + fees + reserve + Grain
  <2> DEFINE n == gross + fees + reserve
  <2>1. n \in Int /\ n >= 0
    BY <1>1, <1>3, <1>4
  <2> HIDE DEF n
  <2>2. /\ CeilRatio(n, 1) \in Int /\ 1 * CeilRatio(n, 1) >= n /\ CeilRatio(n, 1) >= 0
        /\ 1 * CeilRatio(n, 1) <= n + 1 * Grain
    BY <2>1, CeilBounds
  <2> QED BY <1>2, <2>2 DEF Ceil, n
<1>6. /\ proceeds \in Int /\ proceeds <= gross - fees - reserve
      /\ gross - fees - reserve <= proceeds + Grain
  <2> DEFINE n == gross - fees - reserve
  <2>1. n \in Int
    BY <1>1, <1>3, <1>4
  <2> HIDE DEF n
  <2>2. Floor(n) \in Int /\ Floor(n) <= n /\ n <= Floor(n) + Grain
    BY <2>1, FloorBounds
  <2> QED BY <2>2 DEF n
<1>7. Evaluated(a, b, d, q) =
        [direction |-> d, quantity |-> q, gross |-> gross,
         capital |-> IF d = "buy_merge" THEN cost ELSE value,
         profit |-> IF d = "buy_merge" THEN value - cost ELSE proceeds - value]
  BY DEF Evaluated, gross, fee, slip, fees, reserve, value
<1>8. ExactOn(a, b, d, q) =
        IF d = "buy_merge"
        THEN (value - gross) * 10000 - ((fee + Latency + Orphan) * 10000 + slip)
        ELSE (gross - value) * 10000 - ((fee + Latency + Orphan) * 10000 + slip)
  BY DEF ExactOn, gross, fee, slip, value
<1> HIDE DEF cost, proceeds
<1>9. /\ (value - cost) * 10000 <= (value - gross) * 10000 - ((fee + Latency + Orphan) * 10000 + slip)
      /\ (proceeds - value) * 10000 <=
            (gross - value) * 10000 - ((fee + Latency + Orphan) * 10000 + slip)
      /\ (value - gross) * 10000 - ((fee + Latency + Orphan) * 10000 + slip) <=
            (value - cost + 3 * Grain) * 10000
      /\ (gross - value) * 10000 - ((fee + Latency + Orphan) * 10000 + slip) <=
            (proceeds - value + 3 * Grain) * 10000
  BY <1>1, <1>2, <1>3, <1>4, <1>5, <1>6
<1> DEFINE o == Evaluated(a, b, d, q)
<1>10. /\ o.direction = d /\ o.quantity = q /\ o.gross = gross
       /\ DOMAIN o = {"direction", "quantity", "gross", "capital", "profit"}
       /\ o.capital = IF d = "buy_merge" THEN cost ELSE value
       /\ o.profit = IF d = "buy_merge" THEN value - cost ELSE proceeds - value
  BY <1>7
<1> HIDE DEF o
<1>11. CASE d = "buy_merge"
  <2>1. o.capital = cost /\ o.profit = value - cost
    BY <1>10, <1>11
  <2> QED BY <1>1, <1>2, <1>5, <1>8, <1>9, <1>10, <1>11, <2>1 DEF o
<1>12. CASE d # "buy_merge"
  <2>1. o.capital = value /\ o.profit = proceeds - value
    BY <1>10, <1>12
  <2> QED BY <1>1, <1>2, <1>6, <1>8, <1>9, <1>10, <1>12, <2>1 DEF o
<1> QED BY <1>11, <1>12

\* The quantities that are tried are finitely many, positive, and within the
\* participation cap of both legs.
LEMMA QuantitiesAreCapped ==
  ASSUME NEW a \in Ladders, NEW b \in Ladders
  PROVE  /\ IsFiniteSet(Quantities(a, b))
         /\ \A q \in Quantities(a, b) : /\ q \in Nat \ {0}
                                        /\ DepthDen * q <= DepthNum * Depth(a)
                                        /\ DepthDen * q <= DepthNum * Depth(b)
         /\ Cap(a, b) \in Nat
<1>1. /\ Depth(a) \in Nat /\ Depth(b) \in Nat
      /\ \A i \in DOMAIN a : DepthBefore(a, i + 1) \in Nat
      /\ \A i \in DOMAIN b : DepthBefore(b, i + 1) \in Nat
  <2>1. 0 \in Nat
    OBVIOUS
  <2> QED BY <2>1, TotalsType
<1>2. DepthDen \in Nat /\ DepthDen > 0 /\ DepthNum \in Nat
  BY PricingAssumption
<1> DEFINE least == Min({Depth(a), Depth(b)})
<1>3. least \in Nat /\ least <= Depth(a) /\ least <= Depth(b)
  BY <1>1 DEF Min
<1> HIDE DEF least
<1>4. Cap(a, b) \in Nat /\ DepthDen * Cap(a, b) <= least * DepthNum
  <2> DEFINE n == least * DepthNum
  <2>1. n \in Nat
    BY <1>2, <1>3
  <2>2. Cap(a, b) = n \div DepthDen
    BY DEF Cap, least
  <2> HIDE DEF n
  <2>3. n \div DepthDen \in Nat /\ DepthDen * (n \div DepthDen) <= n
    BY <1>2, <2>1
  <2> QED BY <2>2, <2>3 DEF n
<1>5. least * DepthNum <= DepthNum * Depth(a) /\ least * DepthNum <= DepthNum * Depth(b)
  BY <1>1, <1>2, <1>3
<1>6. ASSUME NEW q \in Quantities(a, b)
      PROVE  /\ q \in Nat \ {0}
             /\ DepthDen * q <= DepthNum * Depth(a)
             /\ DepthDen * q <= DepthNum * Depth(b)
  <2>1. q \in Nat /\ q > 0 /\ q <= Cap(a, b)
    BY <1>1, <1>4 DEF Quantities
  <2>2. DepthDen * q <= DepthDen * Cap(a, b)
    BY <1>2, <1>4, <2>1
  <2>3. DepthDen * q \in Int /\ DepthDen * Cap(a, b) \in Int /\ least * DepthNum \in Int
        /\ DepthNum * Depth(a) \in Int /\ DepthNum * Depth(b) \in Int
    BY <1>1, <1>2, <1>3, <1>4, <2>1
  <2> QED BY <1>4, <1>5, <2>1, <2>2, <2>3
<1>7. IsFiniteSet(Quantities(a, b))
  <2>1. Quantities(a, b) \subseteq 0 .. Cap(a, b)
    BY <1>1, <1>4 DEF Quantities
  <2>2. IsFiniteSet(0 .. Cap(a, b))
    BY <1>4, FS_Interval
  <2> QED BY <2>1, <2>2, FS_Subset
<1> QED BY <1>4, <1>6, <1>7

\* Among finitely many opportunities there is one that no other beats.
LEMMA BestExists ==
  ASSUME NEW S, IsFiniteSet(S), S # {}, \A o \in S : o.profit \in Int /\ o.capital \in Int
  PROVE  \E o \in S : \A p \in S : ~Beats(p, o)
<1> DEFINE HasBest(T) == \E o \in T : \A p \in T : ~Beats(p, o)
           B == {T \in SUBSET S : T # {} /\ ~HasBest(T)}
<1>1. ASSUME B # {} PROVE FALSE
  <2>1. PICK T \in B : \A U \in SUBSET T : U \in B => U = T
    <3>1. B \in SUBSET (SUBSET S)
      OBVIOUS
    <3> HIDE DEF B
    <3> QED BY <1>1, <3>1, SmallestSubset
  <2>2. T \in SUBSET S /\ T # {} /\ ~HasBest(T)
    BY <2>1
  <2>3. PICK x \in T : TRUE
    BY <2>2
  <2> DEFINE others == T \ {x}
  <2>4. ~Beats(x, x)
    BY <2>2 DEF Beats
  <2>5. others # {}
    BY <2>2, <2>3, <2>4
  <2>6. HasBest(others)
    <3>1. others \in SUBSET T /\ others # T /\ others \in SUBSET S
      BY <2>2, <2>3
    <3>2. others \notin B
      <4> HIDE DEF B, others
      <4> QED BY <2>1, <3>1
    <3> HIDE DEF HasBest, others
    <3> QED BY <2>5, <3>1, <3>2
  <2>7. PICK y \in others : \A p \in others : ~Beats(p, y)
    BY <2>6
  <2>8. CASE ~Beats(x, y)
    BY <2>2, <2>7, <2>8
  <2>9. CASE Beats(x, y)
    <3>1. \A p \in others : ~Beats(p, x)
      BY <2>2, <2>3, <2>7, <2>9 DEF Beats
    <3> QED BY <2>2, <2>3, <2>4, <3>1
  <2> QED BY <2>8, <2>9
<1> QED BY <1>1

\* The legs of a pair of books that occurs.
LEMMA LegsAreLadders ==
  ASSUME NEW pair \in [Legs -> Books], NEW d
  PROVE  Levels(pair[1], d) \in Ladders /\ Levels(pair[2], d) \in Ladders
<1>1. \A book \in Books : book.bids \in Ladders /\ book.asks \in Ladders
  BY PricingAssumption, Zenon DEF Ladders, PriceLevels
<1>2. pair[1] \in Books /\ pair[2] \in Books
  BY DEF Legs
<1> QED BY <1>1, <1>2 DEF Levels

\* best_for_direction returns one of the opportunities it tried that the limits
\* allow, and one that no other of them beats.
IsBest(o, candidates) == o \in candidates /\ \A p \in candidates : ~Beats(p, o)

\* What is tried can be filled within the depth, and its profit is not above the exact one.
LEMMA CandidatesAreReal ==
  ASSUME NEW pair \in [Legs -> Books], NEW d \in Directions
  PROVE  LET candidates == Candidates(Levels(pair[1], d), Levels(pair[2], d), d)
         IN /\ IsFiniteSet(candidates)
            /\ \A o \in candidates :
                 /\ o \in Opportunities /\ o.direction = d
                 /\ \A leg \in Legs : DepthDen * o.quantity <= DepthNum * Depth(Levels(pair[leg], d))
                 /\ o.profit * 10000 <= ExactProfit(pair, d, o.quantity)
<1> DEFINE a == Levels(pair[1], d)
           b == Levels(pair[2], d)
           E(q) == Evaluated(a, b, d, q)
           candidates == Candidates(a, b, d)
<1>1. a \in Ladders /\ b \in Ladders
  BY LegsAreLadders
<1> HIDE DEF a, b
<1>2. /\ IsFiniteSet(Quantities(a, b))
      /\ \A q \in Quantities(a, b) : /\ q \in Nat \ {0}
                                     /\ DepthDen * q <= DepthNum * Depth(a)
                                     /\ DepthDen * q <= DepthNum * Depth(b)
  BY <1>1, QuantitiesAreCapped
<1>3. candidates \subseteq {E(q) : q \in Quantities(a, b)}
      /\ \A o \in candidates : Acceptable(o)
  BY DEF Candidates
<1>4. IsFiniteSet({E(q) : q \in Quantities(a, b)})
  <2> DEFINE f == [q \in Quantities(a, b) |-> E(q)]
  <2>1. {E(q) : q \in Quantities(a, b)} = {f[q] : q \in Quantities(a, b)}
    OBVIOUS
  <2> HIDE DEF f
  <2>2. IsFiniteSet({f[q] : q \in Quantities(a, b)})
    BY <1>2, FiniteImage
  <2> QED BY <2>1, <2>2
<1>5. IsFiniteSet(candidates)
  <2> HIDE DEF candidates, E
  <2> QED BY <1>3, <1>4, FS_Subset
<1>6. ASSUME NEW o \in candidates
      PROVE  /\ o \in Opportunities /\ o.direction = d
             /\ \A leg \in Legs : DepthDen * o.quantity <= DepthNum * Depth(Levels(pair[leg], d))
             /\ o.profit * 10000 <= ExactProfit(pair, d, o.quantity)
  <2>1. PICK q \in Quantities(a, b) : o = E(q)
    BY <1>3
  <2>2. q \in Nat \ {0} /\ DepthDen * q <= DepthNum * Depth(a) /\ DepthDen * q <= DepthNum * Depth(b)
    BY <1>2
  <2>3. /\ o.direction = d /\ o.quantity = q
        /\ o.gross \in Nat /\ o.capital \in Nat /\ o.profit \in Int
        /\ o.profit * 10000 <= ExactOn(a, b, d, q)
    BY <1>1, <2>1, <2>2, EvaluatedIsClose
  <2>4. o.profit \in Nat \ {0}
    <3>1. o.profit >= MinProfit
      BY <1>3 DEF Acceptable
    <3>2. MinProfit \in Nat \ {0}
      BY PricingAssumption
    <3> QED BY <2>3, <3>1, <3>2
  <2>5. o = [direction |-> d, quantity |-> q, gross |-> o.gross, capital |-> o.capital,
             profit |-> o.profit]
    BY <2>1 DEF Evaluated
  <2>6. o \in Opportunities
    BY <2>2, <2>3, <2>4, <2>5 DEF Opportunities
  <2>7. ExactProfit(pair, d, q) = ExactOn(a, b, d, q)
    BY DEF ExactProfit, ExactOn, a, b
  <2>8. \A leg \in Legs : DepthDen * q <= DepthNum * Depth(Levels(pair[leg], d))
    BY <2>2 DEF Legs, a, b
  <2> QED BY <2>3, <2>6, <2>7, <2>8
<1> QED BY <1>5, <1>6 DEF a, b

\* What is returned was tried, and nothing tried beats it.
LEMMA BestIsReal ==
  ASSUME NEW pair \in [Legs -> Books], NEW d \in Directions
  PROVE  LET candidates == Candidates(Levels(pair[1], d), Levels(pair[2], d), d)
         IN IF candidates = {} THEN BestForDirection(pair, d) = None
            ELSE IsBest(BestForDirection(pair, d), candidates)
<1> DEFINE candidates == Candidates(Levels(pair[1], d), Levels(pair[2], d), d)
<1>1. /\ IsFiniteSet(candidates)
      /\ \A o \in candidates : o.profit \in Int /\ o.capital \in Int
  <2>1. IsFiniteSet(candidates) /\ \A o \in candidates : o \in Opportunities
    BY CandidatesAreReal
  <2> QED BY <2>1 DEF Opportunities
<1>2. BestForDirection(pair, d) =
        IF candidates = {} THEN None
        ELSE CHOOSE o \in candidates : \A p \in candidates : ~Beats(p, o)
  BY DEF BestForDirection
<1> HIDE DEF candidates
<1>3. ASSUME candidates # {} PROVE IsBest(BestForDirection(pair, d), candidates)
  <2>1. \E o \in candidates : \A p \in candidates : ~Beats(p, o)
    BY <1>1, <1>3, BestExists
  <2> QED BY <1>2, <1>3, <2>1, Zenon DEF IsBest
<1> QED BY <1>2, <1>3 DEF candidates

-----------------------------------------------------------------------------
(***************************************************************************)
(* Quantities between two breakpoints.  What a level fills is linear in    *)
(* the quantity between the depths at which it is touched first and used   *)
(* up, and so are totals, fees and the exact profit between two breakpoints*)
(* of the two books: an end of the interval earns no less than its middle. *)
(***************************************************************************)
\* No level of the ladder ends between lo and hi.
Unbroken(levels, lo, hi) ==
    \A i \in DOMAIN levels : DepthBefore(levels, i + 1) <= lo \/ DepthBefore(levels, i + 1) >= hi

\* k times the value at q is the combination of those at lo and hi.
Between(k, at, m, atLo, n, atHi) == k * at = m * atLo + n * atHi

\* Each level begins where the one before it ends.
LEMMA DepthsGrow ==
  ASSUME NEW levels \in Ladders
  PROVE  /\ IsFiniteSet(DOMAIN levels) /\ DOMAIN levels = 1 .. Len(levels) /\ Len(levels) \in Nat
         /\ \A i \in DOMAIN levels :
              /\ levels[i].size \in Nat /\ levels[i].price \in Nat /\ One - levels[i].price \in Nat
              /\ DepthBefore(levels, i) \in Nat
              /\ DepthBefore(levels, i + 1) = DepthBefore(levels, i) + levels[i].size
         /\ DepthBefore(levels, 1) = 0
         /\ levels = <<>> => Depth(levels) = 0
<1>1. /\ DOMAIN levels = 1 .. Len(levels) /\ Len(levels) \in Nat /\ IsFiniteSet(DOMAIN levels)
      /\ \A i \in DOMAIN levels : levels[i].price \in 1 .. One - 1 /\ levels[i].size \in Nat
      /\ One \in Nat
  <2>1. /\ DOMAIN levels = 1 .. Len(levels) /\ Len(levels) \in Nat
        /\ \A i \in DOMAIN levels : levels[i] \in PriceLevels
    BY DEF Ladders
  <2>2. IsFiniteSet(1 .. Len(levels))
    BY <2>1, FS_Interval
  <2> QED BY <2>1, <2>2, PricingAssumption DEF PriceLevels
<1>2. \A i \in DOMAIN levels : levels[i].price \in Nat /\ One - levels[i].price \in Nat
  BY <1>1
<1>3. \A i \in DOMAIN levels : DepthBefore(levels, i) \in Nat
  <2>1. 0 \in Nat
    OBVIOUS
  <2> QED BY <2>1, TotalsType
<1>4. ASSUME NEW i \in DOMAIN levels
      PROVE  DepthBefore(levels, i + 1) = DepthBefore(levels, i) + levels[i].size
  <2> DEFINE S == 1 .. i - 1
             v == [j \in S |-> levels[j].size]
             w == [j \in 1 .. i |-> levels[j].size]
  <2>1. i \in Nat /\ i \notin S /\ 1 .. i = S \union {i} /\ i + 1 - 1 = i /\ i - 1 \in Int
        /\ \A j \in 1 .. i : j \in DOMAIN levels
    BY <1>1
  <2>2. IsFiniteSet(S)
    BY <2>1, FS_Interval
  <2>3. w \in [S \union {i} -> Int] /\ v \in [S -> Int] /\ (\A j \in S : v[j] = w[j])
        /\ w[i] = levels[i].size
    BY <1>1, <2>1
  <2>4. DepthBefore(levels, i + 1) = SumFunction(w) /\ DepthBefore(levels, i) = SumFunction(v)
    BY <2>1 DEF DepthBefore
  <2> HIDE DEF v, w, S
  <2>5. SumFunction(w) = SumFunction(v) + w[i]
    BY <2>1, <2>2, <2>3, SumFunctionAdds
  <2> QED BY <2>3, <2>4, <2>5
<1>5. \A f : DOMAIN f = {} => SumFunction(f) = 0
  <2> SUFFICES ASSUME NEW f, DOMAIN f = {} PROVE SumFunction(f) = 0
    OBVIOUS
  <2> DEFINE Step(g, t) == IF t = {} THEN 0
                           ELSE f[CHOOSE x \in t : TRUE] + g[t \ {CHOOSE x \in t : TRUE}]
             h == CHOOSE g : g = [t \in SUBSET {} |-> Step(g, t)]
  <2>1. SumFunction(f) = h[{}]
    BY DEF SumFunction, SumFunctionOnSet, FoldFunctionOnSet, MapThenFoldSet
  <2>2. [t \in SUBSET {} |-> 0] = [t \in SUBSET {} |-> Step([r \in SUBSET {} |-> 0], t)]
    OBVIOUS
  <2>3. h = [t \in SUBSET {} |-> Step(h, t)]
    <3> HIDE DEF Step
    <3> QED BY <2>2, Zenon
  <2> HIDE DEF h
  <2> QED BY <2>1, <2>3
<1>6. DepthBefore(levels, 1) = 0
  <2> DEFINE v == [j \in 1 .. 1 - 1 |-> levels[j].size]
  <2>1. DOMAIN v = {}
    OBVIOUS
  <2>2. DepthBefore(levels, 1) = SumFunction(v)
    BY DEF DepthBefore
  <2> HIDE DEF v
  <2> QED BY <1>5, <2>1, <2>2
<1>7. ASSUME levels = <<>> PROVE Depth(levels) = 0
  <2> DEFINE v == [i \in DOMAIN levels |-> levels[i].size]
  <2>1. DOMAIN v = {}
    BY <1>7
  <2>2. Depth(levels) = SumFunction(v)
    BY DEF Depth
  <2> HIDE DEF v
  <2> QED BY <1>5, <2>1, <2>2
<1> QED BY <1>1, <1>2, <1>3, <1>4, <1>6, <1>7

\* A level takes nothing up to its beginning, all it has from its end on, and in
\* between what is left of the quantity.
LEMMA FilledIs ==
  ASSUME NEW levels \in Ladders, NEW i \in DOMAIN levels, NEW q \in Nat
  PROVE  LET s == DepthBefore(levels, i)
             e == DepthBefore(levels, i + 1)
         IN /\ Filled(levels, i, q) \in Nat
            /\ q <= s => Filled(levels, i, q) = 0
            /\ s <= q /\ q <= e => Filled(levels, i, q) = q - s
            /\ e <= q => Filled(levels, i, q) = e - s
            /\ s \in Nat /\ e \in Nat /\ s <= e
<1> DEFINE s == DepthBefore(levels, i)
           e == DepthBefore(levels, i + 1)
           z == levels[i].size
<1>1. s \in Nat /\ z \in Nat /\ e = s + z
  BY DepthsGrow
<1>2. Filled(levels, i, q) = IF q - s <= 0 THEN 0 ELSE Min({q - s, z})
  BY DEF Filled
<1> HIDE DEF s, e, z
<1>3. q - s > 0 => Min({q - s, z}) = IF q - s <= z THEN q - s ELSE z
  BY <1>1 DEF Min
<1> QED BY <1>1, <1>2, <1>3 DEF s, e

\* Between two breakpoints every level is filled linearly.
LEMMA FilledBetween ==
  ASSUME NEW levels \in Ladders, NEW i \in DOMAIN levels,
         NEW lo \in Nat, NEW q \in Nat, NEW hi \in Nat, lo <= q, q <= hi, Unbroken(levels, lo, hi)
  PROVE  Between(hi - lo, Filled(levels, i, q), hi - q, Filled(levels, i, lo),
                 q - lo, Filled(levels, i, hi))
<1> DEFINE s == DepthBefore(levels, i)
           e == DepthBefore(levels, i + 1)
           F(x) == Filled(levels, i, x)
<1>1. /\ s \in Nat /\ e \in Nat /\ s <= e
      /\ \A x \in Nat : /\ x <= s => F(x) = 0
                        /\ s <= x /\ x <= e => F(x) = x - s
                        /\ e <= x => F(x) = e - s
  BY FilledIs
<1>2. e <= lo \/ e >= hi
  BY DEF Unbroken
<1>3. s <= lo \/ s >= hi
  <2>1. CASE i = 1
    BY <2>1, DepthsGrow
  <2>2. CASE i # 1
    <3>1. i - 1 \in DOMAIN levels /\ i - 1 + 1 = i
      BY <2>2, DepthsGrow
    <3> QED BY <3>1 DEF Unbroken
  <2> QED BY <2>1, <2>2
<1> HIDE DEF s, e, F
<1>4. CASE s >= hi
  <2>1. F(lo) = 0 /\ F(q) = 0 /\ F(hi) = 0
    BY <1>1, <1>4
  <2> QED BY <2>1 DEF Between, F
<1>5. CASE e <= lo
  <2>1. F(lo) = e - s /\ F(q) = e - s /\ F(hi) = e - s
    BY <1>1, <1>5
  <2>2. \A k, m, n, x \in Int : k = m + n => k * x = m * x + n * x
    OBVIOUS
  <2>3. (hi - lo) * (e - s) = (hi - q) * (e - s) + (q - lo) * (e - s)
    <3>1. hi - lo \in Int /\ hi - q \in Int /\ q - lo \in Int /\ e - s \in Int
          /\ hi - lo = (hi - q) + (q - lo)
      BY <1>1
    <3> QED BY <2>2, <3>1
  <2> QED BY <2>1, <2>3 DEF Between, F
<1>6. CASE s <= lo /\ hi <= e
  <2>1. F(lo) = lo - s /\ F(q) = q - s /\ F(hi) = hi - s
    BY <1>1, <1>6
  <2>2. \A a, b, c, d \in Int : (c - a) * (b - d) = (c - b) * (a - d) + (b - a) * (c - d)
    OBVIOUS
  <2>3. (hi - lo) * (q - s) = (hi - q) * (lo - s) + (q - lo) * (hi - s)
    BY <1>1, <2>2
  <2> QED BY <2>1, <2>3 DEF Between, F
<1> QED BY <1>2, <1>3, <1>4, <1>5, <1>6

\* A combination is one of multiples too.
LEMMA BetweenScaled ==
  ASSUME NEW k \in Int, NEW m \in Int, NEW n \in Int, NEW x \in Int, NEW y \in Int, NEW z \in Int,
         NEW c \in Int, Between(k, x, m, y, n, z)
  PROVE  Between(k, x * c, m, y * c, n, z * c) /\ Between(k, c * x, m, c * y, n, c * z)
<1>1. k * x = m * y + n * z
  BY DEF Between
<1>2. (k * x) * c = (m * y) * c + (n * z) * c
  <2>1. k * x \in Int /\ m * y \in Int /\ n * z \in Int
    OBVIOUS
  <2>2. \A a, b, d \in Int : a = b + d => a * c = b * c + d * c
    OBVIOUS
  <2> QED BY <1>1, <2>1, <2>2
<1>3. \A a, b \in Int : (a * b) * c = a * (b * c) /\ b * c = c * b
  OBVIOUS
<1>4. k * (x * c) = m * (y * c) + n * (z * c)
  BY <1>2, <1>3
<1> QED BY <1>3, <1>4 DEF Between

\* Sums of combinations are combinations of the sums.
LEMMA SumsBetween ==
  ASSUME NEW S, IsFiniteSet(S), NEW u \in [S -> Int], NEW v \in [S -> Int], NEW w \in [S -> Int],
         NEW k \in Int, NEW m \in Int, NEW n \in Int, NEW c \in Int,
         \A x \in S : Between(k, w[x], m, u[x], n, v[x])
  PROVE  Between(k, c * SumFunction(w), m, c * SumFunction(u), n, c * SumFunction(v))
<1>1. IsCombination(S, k, w, m, u, n, v)
  BY DEF Between, IsCombination
<1> DEFINE su == SumFunction(u)
           sv == SumFunction(v)
           sw == SumFunction(w)
<1>2. su \in Int /\ sv \in Int /\ sw \in Int /\ k * sw = m * su + n * sv
  BY <1>1, SumFunctionCombines
<1> HIDE DEF su, sv, sw
<1>3. Between(k, sw, m, su, n, sv)
  BY <1>2 DEF Between
<1>4. Between(k, c * sw, m, c * su, n, c * sv)
  BY <1>2, <1>3, BetweenScaled
<1> QED BY <1>4 DEF su, sv, sw

\* Between two breakpoints totals and fees are linear in the quantity.
LEMMA TotalsBetween ==
  ASSUME NEW levels \in Ladders,
         NEW lo \in Nat, NEW q \in Nat, NEW hi \in Nat, lo <= q, q <= hi, Unbroken(levels, lo, hi)
  PROVE  /\ Between(hi - lo, Gross(levels, q), hi - q, Gross(levels, lo), q - lo, Gross(levels, hi))
         /\ Between(hi - lo, Fee(levels, q), hi - q, Fee(levels, lo), q - lo, Fee(levels, hi))
<1> DEFINE D == DOMAIN levels
           W(x) == [i \in D |-> Filled(levels, i, x) * levels[i].price]
           V(x) == [i \in D |-> Filled(levels, i, x) * levels[i].price * (One - levels[i].price)]
<1>1. IsFiniteSet(D) /\ \A i \in D : levels[i].price \in Nat /\ One - levels[i].price \in Nat
  BY DepthsGrow
<1>2. \A x \in Nat : \A i \in D : Filled(levels, i, x) \in Nat
  BY FilledIs
<1>3. One * One \in Int /\ FeeRate \in Int
  BY PricingAssumption
<1>4. hi - lo \in Int /\ hi - q \in Int /\ q - lo \in Int
  OBVIOUS
<1>5. ASSUME NEW i \in D
      PROVE  /\ Between(hi - lo, W(q)[i], hi - q, W(lo)[i], q - lo, W(hi)[i])
             /\ Between(hi - lo, V(q)[i], hi - q, V(lo)[i], q - lo, V(hi)[i])
  <2> DEFINE p == levels[i].price
             r == One - p
             F(x) == Filled(levels, i, x)
  <2>1. F(q) \in Int /\ F(lo) \in Int /\ F(hi) \in Int /\ p \in Int /\ r \in Int
    BY <1>1, <1>2
  <2>2. Between(hi - lo, F(q), hi - q, F(lo), q - lo, F(hi))
    BY FilledBetween
  <2>3. \A x : W(x)[i] = F(x) * p /\ V(x)[i] = F(x) * p * r
    OBVIOUS
  <2> HIDE DEF F, p, r, W, V
  <2>4. Between(hi - lo, F(q) * p, hi - q, F(lo) * p, q - lo, F(hi) * p)
    BY <1>4, <2>1, <2>2, BetweenScaled
  <2>5. F(q) * p \in Int /\ F(lo) * p \in Int /\ F(hi) * p \in Int
    BY <2>1
  <2>6. Between(hi - lo, F(q) * p * r, hi - q, F(lo) * p * r, q - lo, F(hi) * p * r)
    BY <1>4, <2>1, <2>4, <2>5, BetweenScaled
  <2> QED BY <2>3, <2>4, <2>6
<1>6. \A x \in Nat : W(x) \in [D -> Int] /\ V(x) \in [D -> Int]
  <2>1. \A a, b, c \in Nat : a * b \in Int /\ a * b * c \in Int
    OBVIOUS
  <2> QED BY <1>1, <1>2, <2>1
<1> DEFINE wq == W(q)
           wlo == W(lo)
           whi == W(hi)
           vq == V(q)
           vlo == V(lo)
           vhi == V(hi)
<1>7. /\ Gross(levels, q) = One * One * SumFunction(wq)
      /\ Gross(levels, lo) = One * One * SumFunction(wlo)
      /\ Gross(levels, hi) = One * One * SumFunction(whi)
      /\ Fee(levels, q) = FeeRate * SumFunction(vq)
      /\ Fee(levels, lo) = FeeRate * SumFunction(vlo)
      /\ Fee(levels, hi) = FeeRate * SumFunction(vhi)
  BY DEF Gross, Fee
<1> HIDE DEF W, V, D
<1>8. /\ wq \in [D -> Int] /\ wlo \in [D -> Int] /\ whi \in [D -> Int]
      /\ vq \in [D -> Int] /\ vlo \in [D -> Int] /\ vhi \in [D -> Int]
      /\ \A i \in D : /\ Between(hi - lo, wq[i], hi - q, wlo[i], q - lo, whi[i])
                      /\ Between(hi - lo, vq[i], hi - q, vlo[i], q - lo, vhi[i])
  BY <1>5, <1>6
<1> HIDE DEF wq, wlo, whi, vq, vlo, vhi
<1> DEFINE unit == One * One
<1>9. unit \in Int
  BY <1>3
<1> HIDE DEF unit
<1>10. Between(hi - lo, unit * SumFunction(wq), hi - q, unit * SumFunction(wlo),
               q - lo, unit * SumFunction(whi))
  BY <1>1, <1>4, <1>8, <1>9, SumsBetween
<1>11. Between(hi - lo, FeeRate * SumFunction(vq), hi - q, FeeRate * SumFunction(vlo),
               q - lo, FeeRate * SumFunction(vhi))
  BY <1>1, <1>3, <1>4, <1>8, SumsBetween
<1> QED BY <1>7, <1>10, <1>11 DEF unit

\* A quantity of 0 takes nothing from any level.
LEMMA NothingIsFree ==
  ASSUME NEW levels \in Ladders
  PROVE  Gross(levels, 0) = 0 /\ Fee(levels, 0) = 0
<1> DEFINE D == DOMAIN levels
           W == [i \in D |-> Filled(levels, i, 0) * levels[i].price]
           V == [i \in D |-> Filled(levels, i, 0) * levels[i].price * (One - levels[i].price)]
<1>1. IsFiniteSet(D) /\ \A i \in D : levels[i].price \in Nat /\ One - levels[i].price \in Nat
  BY DepthsGrow
<1>2. \A i \in D : Filled(levels, i, 0) = 0
  BY FilledIs
<1>3. \A i \in D : W[i] = 0 /\ V[i] = 0
  BY <1>1, <1>2
<1>4. W \in [D -> Int] /\ V \in [D -> Int]
  BY <1>3
<1>5. Gross(levels, 0) = One * One * SumFunction(W) /\ Fee(levels, 0) = FeeRate * SumFunction(V)
  BY DEF Gross, Fee
<1> HIDE DEF W, V, D
<1>6. IsCombination(D, 1, W, 0, W, 0, W) /\ IsCombination(D, 1, V, 0, V, 0, V)
  BY <1>3 DEF IsCombination
<1>7. SumFunction(W) \in Int /\ 1 * SumFunction(W) = 0 * SumFunction(W) + 0 * SumFunction(W)
  BY <1>1, <1>4, <1>6, SumFunctionCombines
<1>8. SumFunction(V) \in Int /\ 1 * SumFunction(V) = 0 * SumFunction(V) + 0 * SumFunction(V)
  BY <1>1, <1>4, <1>6, SumFunctionCombines
<1>9. SumFunction(W) = 0 /\ SumFunction(V) = 0
  BY <1>7, <1>8
<1> QED BY <1>5, <1>9, PricingAssumption

\* Combinations add up.
LEMMA BetweenAdds ==
  ASSUME NEW k \in Int, NEW m \in Int, NEW n \in Int, NEW x \in Int, NEW y \in Int, NEW z \in Int,
         NEW u \in Int, NEW v \in Int, NEW w \in Int,
         Between(k, x, m, y, n, z), Between(k, u, m, v, n, w)
  PROVE  Between(k, x + u, m, y + v, n, z + w)
<1>1. k * x = m * y + n * z /\ k * u = m * v + n * w
  BY DEF Between
<1>2. \A a, b, c \in Int : a * (b + c) = a * b + a * c
  OBVIOUS
<1>3. k * (x + u) = k * x + k * u /\ m * (y + v) = m * y + m * v /\ n * (z + w) = n * z + n * w
  BY <1>2
<1>4. /\ k * x \in Int /\ m * y \in Int /\ n * z \in Int
      /\ k * u \in Int /\ m * v \in Int /\ n * w \in Int
  OBVIOUS
<1>5. \A a, b, c, d, e, f \in Int : a = b + c /\ d = e + f => a + d = (b + e) + (c + f)
  OBVIOUS
<1>6. k * x + k * u = (m * y + m * v) + (n * z + n * w)
  BY <1>1, <1>4, <1>5
<1> QED BY <1>3, <1>6 DEF Between

\* Between two breakpoints the exact profit is linear in the quantity.
LEMMA ExactBetween ==
  ASSUME NEW a \in Ladders, NEW b \in Ladders, NEW d,
         NEW lo \in Nat, NEW q \in Nat, NEW hi \in Nat, lo <= q, q <= hi,
         Unbroken(a, lo, hi), Unbroken(b, lo, hi)
  PROVE  Between(hi - lo, ExactOn(a, b, d, q), hi - q, ExactOn(a, b, d, lo),
                 q - lo, ExactOn(a, b, d, hi))
<1> DEFINE k == hi - lo
           m == hi - q
           n == q - lo
           G(x) == Gross(a, x) + Gross(b, x)
           F(x) == Fee(a, x) + Fee(b, x)
           other == (Latency + Orphan) * 10000
           sign == IF d = "buy_merge" THEN 1 ELSE -1
           perGross == 0 - sign * 10000 - SlippageBps
           perValue == sign * 10000
           Terms(x) == (Value(x) * perValue + G(x) * perGross) + (F(x) * (-10000) + (0 - other))
<1>1. k \in Int /\ m \in Int /\ n \in Int /\ k = m + n
  OBVIOUS
<1>2. /\ other \in Int /\ sign \in Int /\ perGross \in Int /\ perValue \in Int
      /\ One \in Int /\ SlippageBps \in Int /\ Latency \in Int /\ Orphan \in Int
  <2>1. One \in Int /\ SlippageBps \in Int /\ Latency \in Int /\ Orphan \in Int
    BY PricingAssumption
  <2>2. sign \in Int
    OBVIOUS
  <2> HIDE DEF sign
  <2> QED BY <2>1, <2>2
<1>3. ASSUME NEW x \in Nat
      PROVE  /\ Gross(a, x) \in Int /\ Gross(b, x) \in Int /\ Fee(a, x) \in Int /\ Fee(b, x) \in Int
             /\ G(x) \in Int /\ F(x) \in Int /\ Value(x) \in Int
  <2>1. Gross(a, x) \in Int /\ Gross(b, x) \in Int /\ Fee(a, x) \in Int /\ Fee(b, x) \in Int
    BY TotalsType
  <2>2. \A y, z \in Int : y * z \in Int
    OBVIOUS
  <2> QED BY <1>2, <2>1, <2>2 DEF Value
<1>4. ASSUME NEW x \in Nat PROVE ExactOn(a, b, d, x) = Terms(x)
  <2> DEFINE g == G(x)
             f == F(x)
             v == Value(x)
             slip == g * SlippageBps
  <2>1. ExactOn(a, b, d, x) =
          IF d = "buy_merge" THEN (v - g) * 10000 - ((f + Latency + Orphan) * 10000 + slip)
          ELSE (g - v) * 10000 - ((f + Latency + Orphan) * 10000 + slip)
    BY DEF ExactOn
  <2>2. g \in Int /\ f \in Int /\ v \in Int /\ slip \in Int
    <3>1. g \in Int /\ f \in Int /\ v \in Int
      BY <1>3
    <3> QED BY <1>2, <3>1
  <2>3. g * perGross = g * (0 - sign * 10000) - slip
    <3> HIDE DEF g, sign
    <3> QED BY <1>2, <2>2
  <2> HIDE DEF g, f, v, slip, perGross
  <2>4. CASE d = "buy_merge"
    <3>1. sign = 1
      BY <2>4
    <3> HIDE DEF sign
    <3>2. g * (0 - sign * 10000) = 0 - g * 10000 /\ v * perValue = v * 10000
      BY <2>2, <3>1
    <3>3. (v - g) * 10000 - ((f + Latency + Orphan) * 10000 + slip)
            = (v * perValue + g * perGross) + (f * (-10000) + (0 - other))
      BY <1>2, <2>2, <2>3, <3>2
    <3> QED BY <2>1, <2>4, <3>3 DEF g, f, v
  <2>5. CASE d # "buy_merge"
    <3>1. sign = -1
      BY <2>5
    <3> HIDE DEF sign
    <3>2. g * (0 - sign * 10000) = g * 10000 /\ v * perValue = 0 - v * 10000
      BY <2>2, <3>1
    <3>3. (g - v) * 10000 - ((f + Latency + Orphan) * 10000 + slip)
            = (v * perValue + g * perGross) + (f * (-10000) + (0 - other))
      BY <1>2, <2>2, <2>3, <3>2
    <3> QED BY <2>1, <2>5, <3>3 DEF g, f, v
  <2> QED BY <2>4, <2>5
<1>5. Between(k, Value(q), m, Value(lo), n, Value(hi))
  <2>1. \A x, y, z \in Int : (z - x) * y = (z - y) * x + (y - x) * z
    OBVIOUS
  <2>2. Between(k, q, m, lo, n, hi)
    BY <2>1 DEF Between
  <2> DEFINE cube == One * One * One
  <2>3. cube \in Int
    BY <1>2
  <2>4. \A x \in Int : Value(x) = x * cube
    <3>1. \A x, y \in Int : x * y * y * y = x * (y * y * y)
      OBVIOUS
    <3> QED BY <1>2, <3>1 DEF Value
  <2>5. q \in Int /\ lo \in Int /\ hi \in Int /\ k \in Int /\ m \in Int /\ n \in Int
    OBVIOUS
  <2> HIDE DEF k, m, n, cube
  <2>6. Between(k, q * cube, m, lo * cube, n, hi * cube)
    BY <2>2, <2>3, <2>5, BetweenScaled
  <2> QED BY <2>4, <2>5, <2>6
<1>6. Between(k, G(q), m, G(lo), n, G(hi)) /\ Between(k, F(q), m, F(lo), n, F(hi))
  <2>1. /\ Between(k, Gross(a, q), m, Gross(a, lo), n, Gross(a, hi))
        /\ Between(k, Fee(a, q), m, Fee(a, lo), n, Fee(a, hi))
        /\ Between(k, Gross(b, q), m, Gross(b, lo), n, Gross(b, hi))
        /\ Between(k, Fee(b, q), m, Fee(b, lo), n, Fee(b, hi))
    BY TotalsBetween
  <2> HIDE DEF k, m, n
  <2> QED BY <1>1, <1>3, <2>1, BetweenAdds
<1>7. Between(k, 0 - other, m, 0 - other, n, 0 - other)
  <2>1. \A x, y, z \in Int : (x + y) * z = x * z + y * z
    OBVIOUS
  <2>2. 0 - other \in Int
    BY <1>2
  <2> HIDE DEF k, m, n, other
  <2>3. (m + n) * (0 - other) = m * (0 - other) + n * (0 - other)
    BY <1>1, <2>1, <2>2
  <2> QED BY <1>1, <2>3 DEF Between
<1> DEFINE T1(x) == Value(x) * perValue
           T2(x) == G(x) * perGross
           T3(x) == F(x) * (-10000)
           T4 == 0 - other
<1>8. /\ T4 \in Int
      /\ \A x \in Nat : T1(x) \in Int /\ T2(x) \in Int /\ T3(x) \in Int
                        /\ T1(x) + T2(x) \in Int /\ T3(x) + T4 \in Int
                        /\ Terms(x) = (T1(x) + T2(x)) + (T3(x) + T4)
  <2> HIDE DEF G, F, perGross, perValue, other
  <2> QED BY <1>2, <1>3
<1> HIDE DEF k, m, n, G, F, perGross, perValue, other, Terms
<1>9. /\ Between(k, T1(q), m, T1(lo), n, T1(hi))
      /\ Between(k, T2(q), m, T2(lo), n, T2(hi))
      /\ Between(k, T3(q), m, T3(lo), n, T3(hi))
  <2>1. Between(k, T1(q), m, T1(lo), n, T1(hi))
    BY <1>1, <1>2, <1>3, <1>5, BetweenScaled
  <2>2. Between(k, T2(q), m, T2(lo), n, T2(hi))
    BY <1>1, <1>2, <1>3, <1>6, BetweenScaled
  <2>3. -10000 \in Int
    OBVIOUS
  <2>4. Between(k, T3(q), m, T3(lo), n, T3(hi))
    <3> DEFINE c == -10000
    <3> HIDE DEF c
    <3>1. c \in Int
      BY <2>3 DEF c
    <3>2. Between(k, F(q) * c, m, F(lo) * c, n, F(hi) * c)
      BY <1>1, <1>3, <1>6, <3>1, BetweenScaled
    <3> QED BY <3>2 DEF c
  <2> QED BY <2>1, <2>2, <2>4
<1>10. Between(k, T4, m, T4, n, T4)
  BY <1>7
<1> HIDE DEF T1, T2, T3, T4
<1>11. Between(k, T1(q) + T2(q), m, T1(lo) + T2(lo), n, T1(hi) + T2(hi))
  BY <1>1, <1>8, <1>9, BetweenAdds
<1>12. Between(k, T3(q) + T4, m, T3(lo) + T4, n, T3(hi) + T4)
  BY <1>1, <1>8, <1>9, <1>10, BetweenAdds
<1>13. Between(k, (T1(q) + T2(q)) + (T3(q) + T4), m, (T1(lo) + T2(lo)) + (T3(lo) + T4),
               n, (T1(hi) + T2(hi)) + (T3(hi) + T4))
  BY <1>1, <1>8, <1>11, <1>12, BetweenAdds
<1> QED BY <1>4, <1>8, <1>13 DEF k, m, n

\* Of a linear profit an end is as high as any point between.
LEMMA AnEndIsAsHigh ==
  ASSUME NEW k \in Nat, NEW m \in Nat, NEW n \in Nat, k = m + n, k > 0,
         NEW x \in Int, NEW y \in Int, NEW z \in Int, Between(k, x, m, y, n, z)
  PROVE  x <= y \/ x <= z
<1> SUFFICES ASSUME y < x, z < x PROVE FALSE
  OBVIOUS
<1>1. k * x = m * y + n * z
  BY DEF Between
<1>2. m * y <= m * x /\ n * z <= n * x
  <2>1. \A c \in Nat : \A s, t \in Int : s < t => c * s <= c * t
    OBVIOUS
  <2> QED BY <2>1
<1>3. m > 0 => m * y < m * x
  <2>1. \A c \in Nat : \A s, t \in Int : c > 0 /\ s < t => c * s < c * t
    OBVIOUS
  <2> QED BY <2>1
<1>4. n > 0 => n * z < n * x
  <2>1. \A c \in Nat : \A s, t \in Int : c > 0 /\ s < t => c * s < c * t
    OBVIOUS
  <2> QED BY <2>1
<1>5. k * x = m * x + n * x
  <2>1. \A c, s, t \in Int : (c + s) * t = c * t + s * t
    OBVIOUS
  <2> QED BY <2>1
<1>6. m * x \in Int /\ n * x \in Int /\ m * y \in Int /\ n * z \in Int
  OBVIOUS
<1> QED BY <1>1, <1>2, <1>3, <1>4, <1>5, <1>6

\* No level of either leg ends between the quantity tried before q and the next one.
LEMMA NeighboursAreEnds ==
  ASSUME NEW a \in Ladders, NEW b \in Ladders, NEW q \in 1 .. Cap(a, b)
  PROVE  \E lo \in Nat : \E hi \in NextTo(a, b, q) :
           /\ lo < q /\ q <= hi /\ Unbroken(a, lo, hi) /\ Unbroken(b, lo, hi)
           /\ lo > 0 /\ q < hi => lo \in NextTo(a, b, q)
<1> DEFINE Q == Quantities(a, b)
           below == {r \in Q \union {0} : r < q}
           above == {r \in Q : q <= r}
           lo == Max(below)
           hi == Min(above)
<1>1. Cap(a, b) \in Nat /\ IsFiniteSet(Q) /\ q \in Nat /\ q > 0 /\ q <= Cap(a, b)
      /\ \A r \in Q : r \in Nat /\ r > 0
  BY QuantitiesAreCapped
<1>2. Cap(a, b) \in Q /\ \A r \in Q : r <= Cap(a, b)
  BY <1>1 DEF Quantities
<1>3. /\ \A i \in DOMAIN a : DepthBefore(a, i + 1) \in Nat
      /\ \A i \in DOMAIN b : DepthBefore(b, i + 1) \in Nat
  <2>1. 0 \in Nat
    OBVIOUS
  <2> QED BY <2>1, TotalsType
<1>4. \A e \in Nat :
        0 < e /\ e <= Cap(a, b) /\ (\/ \E i \in DOMAIN a : e = DepthBefore(a, i + 1)
                                    \/ \E i \in DOMAIN b : e = DepthBefore(b, i + 1))
        => e \in Q
  BY DEF Quantities
<1> HIDE DEF Q
<1>5. lo \in below /\ \A r \in below : lo >= r
  <2>1. IsFiniteSet(Q \union {0})
    BY <1>1, FS_AddElement
  <2>2. IsFiniteSet(below)
    BY <2>1, FS_Subset
  <2>3. below # {} /\ \A r \in below : r \in Int
    BY <1>1
  <2> HIDE DEF below
  <2> QED BY <2>2, <2>3, MaxIsElement
<1>6. hi \in above /\ \A r \in above : hi <= r
  <2>1. IsFiniteSet(above)
    BY <1>1, FS_Subset
  <2>2. above # {} /\ \A r \in above : r \in Int
    BY <1>1, <1>2
  <2> HIDE DEF above
  <2> QED BY <2>1, <2>2, MinIsElement
<1> HIDE DEF lo, hi
<1>7. lo \in Nat /\ hi \in Nat /\ lo < q /\ q <= hi /\ hi \in Q /\ (lo > 0 => lo \in Q)
      /\ hi <= Cap(a, b)
  BY <1>1, <1>2, <1>5, <1>6
<1>8. \A r \in Q : r <= lo \/ hi <= r
  BY <1>1, <1>5, <1>6
<1>9. Unbroken(a, lo, hi) /\ Unbroken(b, lo, hi)
  <2>1. ASSUME NEW e \in Nat, \/ \E i \in DOMAIN a : e = DepthBefore(a, i + 1)
                              \/ \E i \in DOMAIN b : e = DepthBefore(b, i + 1)
        PROVE  e <= lo \/ e >= hi
    <3>1. CASE e \in Q
      BY <1>7, <1>8, <3>1
    <3>2. CASE e = 0
      BY <1>7, <3>2
    <3>3. CASE e \notin Q /\ e # 0
      <4>1. 0 < e
        BY <3>3
      <4>2. ~(e <= Cap(a, b))
        <5> SUFFICES ASSUME e <= Cap(a, b) PROVE FALSE
          OBVIOUS
        <5>1. \/ \E i \in DOMAIN a : e = DepthBefore(a, i + 1)
              \/ \E i \in DOMAIN b : e = DepthBefore(b, i + 1)
          BY <2>1
        <5> HIDE DEF below, above
        <5>2. e \in Q
          BY <1>4, <4>1, <5>1, Zenon
        <5> QED BY <3>3, <5>2
      <4> QED BY <1>1, <1>7, <4>2
    <3> QED BY <3>1, <3>2, <3>3
  <2> QED BY <1>3, <2>1 DEF Unbroken
<1>10. hi \in NextTo(a, b, q) /\ (lo > 0 /\ q < hi => lo \in NextTo(a, b, q))
  <2>1. NextTo(a, b, q) = {p \in Q : \A r \in Q : ~(p < r /\ r <= q) /\ ~(q <= r /\ r < p)}
    BY DEF NextTo, Q
  <2>2. \A r \in Q : r \in Int /\ (r <= lo \/ hi <= r)
    BY <1>1, <1>8
  <2>3. \A r \in Q : ~(hi < r /\ r <= q) /\ ~(q <= r /\ r < hi)
    BY <1>1, <1>7, <2>2
  <2>4. \A r \in Q : q < hi => ~(lo < r /\ r <= q) /\ ~(q <= r /\ r < lo)
    BY <1>1, <1>7, <2>2
  <2> QED BY <1>7, <2>1, <2>3, <2>4
<1> QED BY <1>7, <1>9, <1>10

\* A quantity that earns something earns no more, but for the roundings of evaluate,
\* than one of the quantities tried next to it.
LEMMA NeighbourEarnsAsMuch ==
  ASSUME NEW a \in Ladders, NEW b \in Ladders, NEW d, NEW q \in 1 .. Cap(a, b),
         Evaluated(a, b, d, q).profit > 0
  PROVE  \E p \in NextTo(a, b, q) :
           Evaluated(a, b, d, q).profit <= Evaluated(a, b, d, p).profit + 3 * Grain
<1> DEFINE E(x) == ExactOn(a, b, d, x)
           P(x) == Evaluated(a, b, d, x).profit
<1>1. PICK lo \in Nat, hi \in NextTo(a, b, q) :
           /\ lo < q /\ q <= hi /\ Unbroken(a, lo, hi) /\ Unbroken(b, lo, hi)
           /\ lo > 0 /\ q < hi => lo \in NextTo(a, b, q)
  BY NeighboursAreEnds
<1>2. /\ q \in Nat /\ lo \in Nat /\ hi \in Nat
      /\ \A p \in NextTo(a, b, q) : p \in Nat
  <2>1. \A r \in Quantities(a, b) : r \in Nat
    BY QuantitiesAreCapped
  <2>2. Cap(a, b) \in Nat
    BY QuantitiesAreCapped
  <2> QED BY <1>1, <2>1, <2>2 DEF NextTo
<1>3. /\ \A x \in Nat : /\ E(x) \in Int /\ P(x) \in Int /\ P(x) * 10000 <= E(x)
                         /\ E(x) <= (P(x) + 3 * Grain) * 10000
      /\ Grain \in Nat
  <2>1. Grain \in Nat
    BY PricingAssumption
  <2>2. ASSUME NEW x \in Nat
        PROVE  /\ E(x) \in Int /\ P(x) \in Int /\ P(x) * 10000 <= E(x)
               /\ E(x) <= (P(x) + 3 * Grain) * 10000
    BY EvaluatedIsClose
  <2> HIDE DEF E, P
  <2> QED BY <2>1, <2>2
<1>4. Between(hi - lo, E(q), hi - q, E(lo), q - lo, E(hi))
  BY <1>1, <1>2, ExactBetween
<1>5. E(0) <= 0
  <2>1. /\ Gross(a, 0) = 0 /\ Gross(b, 0) = 0 /\ Fee(a, 0) = 0 /\ Fee(b, 0) = 0
    BY NothingIsFree
  <2>2. Latency \in Nat /\ Orphan \in Nat /\ SlippageBps \in Nat /\ One \in Nat
    BY PricingAssumption
  <2>3. Value(0) = 0
    BY <2>2 DEF Value
  <2> QED BY <2>1, <2>2, <2>3 DEF ExactOn
<1>6. P(q) > 0
  OBVIOUS
<1> HIDE DEF E, P
<1>7. E(q) <= E(lo) \/ E(q) <= E(hi)
  <2> DEFINE k == hi - lo
             m == hi - q
             n == q - lo
  <2>1. k \in Nat /\ m \in Nat /\ n \in Nat /\ k = m + n /\ k > 0
    BY <1>1, <1>2
  <2> HIDE DEF k, m, n
  <2>2. E(q) \in Int /\ E(lo) \in Int /\ E(hi) \in Int
    BY <1>2, <1>3
  <2>3. Between(k, E(q), m, E(lo), n, E(hi))
    BY <1>4 DEF k, m, n
  <2> QED BY <2>1, <2>2, <2>3, AnEndIsAsHigh
<1>8. E(q) > 0
  BY <1>2, <1>3, <1>6
<1>9. PICK p \in NextTo(a, b, q) : E(q) <= E(p)
  <2>1. CASE E(q) <= E(hi)
    BY <1>1, <2>1
  <2>2. CASE E(q) <= E(lo)
    <3>1. lo # 0
      BY <1>2, <1>3, <1>5, <1>8, <2>2
    <3>2. CASE q = hi
      BY <1>1, <1>2, <1>3, <3>2
    <3>3. CASE q # hi
      BY <1>1, <1>2, <2>2, <3>1, <3>3
    <3> QED BY <3>2, <3>3
  <2> QED BY <1>7, <2>1, <2>2
<1>10. P(q) <= P(p) + 3 * Grain
  <2>1. /\ P(q) \in Int /\ P(p) \in Int /\ E(q) \in Int /\ E(p) \in Int /\ Grain \in Int
        /\ P(q) * 10000 <= E(q) /\ E(p) <= (P(p) + 3 * Grain) * 10000
    BY <1>2, <1>3
  <2> QED BY <1>9, <2>1
<1> QED BY <1>10 DEF P

-----------------------------------------------------------------------------
(***************************************************************************)
(* The inductive invariant: what is found is the best of what the books    *)
(* of its moment offer.                                                    *)
(***************************************************************************)
CandidatesOn(pair, d) == Candidates(Levels(pair[1], d), Levels(pair[2], d), d)

\* Of the quantities tried on the WebSocket books, in either direction, none that the
\* limits allow earns more than what is found.
NoneTriedIsBetter ==
    stage = "preliminary" \/ outcome = "no_opportunity" =>
        \A d \in Directions : \A p \in CandidatesOn(ws, d) :
            preliminary # None /\ p.profit <= preliminary.profit

\* What is confirmed is the best of the same direction on the REST books.
FinalIsBest ==
    outcome = "opportunity" =>
        /\ preliminary \in Opportunities
        /\ IsBest(final, CandidatesOn(rest, preliminary.direction))

InOrder ==
    /\ stage \in {"reading", "preliminary", "refreshed"} => outcome = "none"
    /\ stage \in {"preliminary", "refreshed"} => preliminary \in Opportunities

IInv == TypeOK /\ InOrder /\ NoneTriedIsBetter /\ FinalIsBest

\* At the start nothing is found yet.
LEMMA InitIInv == Init => IInv
BY DEF Init, IInv, TypeOK, InOrder, NoneTriedIsBetter, FinalIsBest

\* No opportunity is none.
LEMMA NoneIsNone == \A o \in Opportunities : o # None /\ o.direction \in Directions
<1> SUFFICES ASSUME NEW o \in Opportunities PROVE o # None /\ o.direction \in Directions
  OBVIOUS
<1>1. o.direction \in Directions /\ o.direction # "none"
  BY PricingAssumption DEF Opportunities
<1> QED BY <1>1 DEF None

\* select_best: the better of the two directions.
LEMMA FindKeeps ==
  ASSUME IInv, FindPreliminary
  PROVE  IInv'
<1> DEFINE found == {BestForDirection(ws, d) : d \in Directions} \ {None}
           best == {o \in found : \A p \in found : p.profit <= o.profit}
           IsLast(o) == o.direction = "split_sell" \/ \A p \in best : p.direction # "split_sell"
<1>1. /\ stage = "reading" /\ ws \in [Legs -> Books] /\ outcome = "none"
      /\ UNCHANGED <<ws, rest, final>>
      /\ final \in Opportunities \union {None}
  BY DEF IInv, TypeOK, InOrder, FindPreliminary
<1>2. \A d \in Directions : /\ CandidatesOn(ws, d) \subseteq Opportunities
                            /\ IF CandidatesOn(ws, d) = {} THEN BestForDirection(ws, d) = None
                               ELSE IsBest(BestForDirection(ws, d), CandidatesOn(ws, d))
  BY <1>1, CandidatesAreReal, BestIsReal DEF CandidatesOn
<1>3. found \subseteq Opportunities
  BY <1>2 DEF IsBest
<1>4. ASSUME NEW d \in Directions, NEW p \in CandidatesOn(ws, d)
      PROVE  \E o \in found : p.profit <= o.profit
  <2> DEFINE o == BestForDirection(ws, d)
  <2>1. IsBest(o, CandidatesOn(ws, d))
    BY <1>2, <1>4
  <2>2. o \in Opportunities /\ p \in Opportunities /\ ~Beats(p, o)
    BY <1>2, <1>4, <2>1 DEF IsBest
  <2>3. o \in found
    BY <2>2, NoneIsNone
  <2>4. p.profit \in Int /\ o.profit \in Int
    BY <2>2 DEF Opportunities
  <2> HIDE DEF o, found
  <2>5. p.profit <= o.profit
    BY <2>2, <2>4 DEF Beats
  <2> QED BY <2>3, <2>5
<1>5. CASE found = {}
  <2>1. stage' = "done" /\ outcome' = "no_opportunity" /\ UNCHANGED preliminary
    BY <1>5 DEF FindPreliminary
  <2>2. \A d \in Directions : CandidatesOn(ws, d)' = {}
    <3>1. \A d \in Directions : CandidatesOn(ws, d) = {}
      BY <1>4, <1>5
    <3> QED BY <1>1, <3>1 DEF CandidatesOn
  <2>3. TypeOK' /\ InOrder' /\ FinalIsBest'
    BY <1>1, <2>1 DEF IInv, TypeOK, InOrder, FinalIsBest
  <2>4. NoneTriedIsBetter'
    BY <1>1, <2>2 DEF NoneTriedIsBetter
  <2> QED BY <2>3, <2>4 DEF IInv
<1>6. CASE found # {}
  <2>1. stage' = "preliminary" /\ preliminary' = (CHOOSE o \in best : IsLast(o)) /\ UNCHANGED outcome
    BY <1>6 DEF FindPreliminary
  <2>2. IsFiniteSet(found)
    <3> DEFINE f == [d \in Directions |-> BestForDirection(ws, d)]
    <3>1. IsFiniteSet({"buy_merge", "split_sell"})
      <4>1. {"buy_merge", "split_sell"} = {"buy_merge"} \union {"split_sell"}
        OBVIOUS
      <4>2. IsFiniteSet({"buy_merge"})
        BY FS_Singleton
      <4>3. IsFiniteSet({"buy_merge"} \union {"split_sell"})
        BY <4>2, FS_AddElement
      <4> QED BY <4>1, <4>3
    <3>2. IsFiniteSet(Directions)
      BY <3>1, PricingAssumption, FS_Subset
    <3>3. {BestForDirection(ws, d) : d \in Directions} = {f[d] : d \in Directions}
      OBVIOUS
    <3> HIDE DEF f
    <3>4. IsFiniteSet({f[d] : d \in Directions})
      BY <3>2, FiniteImage
    <3>5. found \subseteq {f[d] : d \in Directions}
      BY <3>3
    <3> QED BY <3>4, <3>5, FS_Subset
  <2>3. best # {}
    <3>1. \A o \in found : o.profit \in Int /\ o.capital \in Int
      BY <1>3 DEF Opportunities
    <3> HIDE DEF found
    <3>2. PICK o \in found : \A p \in found : ~Beats(p, o)
      BY <1>6, <2>2, <3>1, BestExists
    <3>3. \A p \in found : p.profit <= o.profit
      BY <3>1, <3>2 DEF Beats
    <3> QED BY <3>3
  <2>4. \E o \in best : IsLast(o)
    <3> HIDE DEF best
    <3> QED BY <2>3
  <2>5. preliminary' \in best
    <3> HIDE DEF best, IsLast
    <3> QED BY <2>1, <2>4, Zenon
  <2>6. preliminary' \in Opportunities /\ preliminary' # None
        /\ \A p \in found : p.profit <= preliminary'.profit
    BY <1>3, <2>5, NoneIsNone
  <2>7. NoneTriedIsBetter'
    <3>1. ASSUME NEW d \in Directions, NEW p \in CandidatesOn(ws, d)
          PROVE  p.profit <= preliminary'.profit
      <4>1. PICK o \in found : p.profit <= o.profit
        BY <1>4, <3>1
      <4>2. o \in Opportunities /\ p \in Opportunities /\ o.profit <= preliminary'.profit
        BY <1>2, <1>3, <2>6, <3>1
      <4>3. p.profit \in Int /\ o.profit \in Int /\ preliminary'.profit \in Int
        BY <2>6, <4>2 DEF Opportunities
      <4> QED BY <4>1, <4>2, <4>3
    <3>2. \A d \in Directions : CandidatesOn(ws, d)' = CandidatesOn(ws, d)
      BY <1>1 DEF CandidatesOn
    <3> QED BY <2>6, <3>1, <3>2 DEF NoneTriedIsBetter
  <2>8. TypeOK' /\ InOrder' /\ FinalIsBest'
    BY <1>1, <2>1, <2>6 DEF IInv, TypeOK, InOrder, FinalIsBest
  <2> QED BY <2>7, <2>8 DEF IInv
<1> QED BY <1>5, <1>6

\* Every step keeps the invariant.
LEMMA NextIInv == IInv /\ [Next]_vars => IInv'
<1> SUFFICES ASSUME IInv, [Next]_vars PROVE IInv'
  OBVIOUS
<1>1. CASE UNCHANGED vars
  BY <1>1 DEF IInv, vars, TypeOK, InOrder, NoneTriedIsBetter, FinalIsBest, CandidatesOn
<1>2. CASE FindPreliminary
  BY <1>2, FindKeeps
<1>3. CASE Refresh
  BY <1>3 DEF IInv, Refresh, TypeOK, InOrder, NoneTriedIsBetter, FinalIsBest
<1>4. CASE Disagree
  BY <1>4 DEF IInv, Disagree, TypeOK, InOrder, NoneTriedIsBetter, FinalIsBest
<1>5. CASE Confirm
  <2> DEFINE d == preliminary.direction
             best == BestForDirection(rest, d)
  <2>1. /\ stage = "refreshed" /\ stage' = "done" /\ final' = best
        /\ outcome' = IF best = None THEN "disappeared" ELSE "opportunity"
        /\ UNCHANGED <<ws, rest, preliminary>>
    BY <1>5 DEF Confirm
  <2>2. preliminary \in Opportunities /\ rest \in [Legs -> Books] /\ d \in Directions
    BY <2>1, NoneIsNone DEF IInv, TypeOK, InOrder
  <2>3. /\ CandidatesOn(rest, d) \subseteq Opportunities
        /\ IF CandidatesOn(rest, d) = {} THEN best = None
           ELSE IsBest(best, CandidatesOn(rest, d))
    BY <2>2, CandidatesAreReal, BestIsReal DEF CandidatesOn
  <2>4. best \in Opportunities \union {None}
    BY <2>3 DEF IsBest
  <2>5. TypeOK'
    BY <2>1, <2>2, <2>4 DEF IInv, TypeOK
  <2>6. FinalIsBest'
    <3>1. outcome' = "opportunity" => IsBest(best, CandidatesOn(rest, d))
      BY <2>1, <2>3
    <3>2. CandidatesOn(rest, preliminary.direction)' = CandidatesOn(rest, d)
      BY <2>1 DEF CandidatesOn
    <3> HIDE DEF best
    <3>3. outcome' = "opportunity" => IsBest(final', CandidatesOn(rest, preliminary.direction)')
      BY <2>1, <3>1, <3>2
    <3> QED BY <2>1, <2>2, <3>3 DEF FinalIsBest, IsBest
  <2>7. InOrder' /\ NoneTriedIsBetter'
    BY <2>1 DEF InOrder, NoneTriedIsBetter
  <2> QED BY <2>5, <2>6, <2>7 DEF IInv
<1> QED BY <1>1, <1>2, <1>3, <1>4, <1>5 DEF Next

\* The invariant holds in every reachable state.
LEMMA Invariant == Spec => []IInv
BY InitIInv, NextIInv, PTL DEF Spec

-----------------------------------------------------------------------------
(* What evaluate_market promises.                                          *)

\* Every variable of the evaluation of a market has its type.
THEOREM TypeCorrect == Spec => []TypeOK
<1>1. IInv => TypeOK
  BY DEF IInv
<1> QED BY <1>1, Invariant, PTL

\* Whatever the books have become by the REST refresh, what evaluate_market hands on
\* can be filled on them within depth_fraction, and earns what it says at least.
THEOREM FinalHolds == Spec => []FinalIsExecutable
<1>1. IInv => FinalIsExecutable
  <2> SUFFICES ASSUME IInv, outcome = "opportunity"
               PROVE  FinalIsExecutable
    BY DEF FinalIsExecutable
  <2> DEFINE d == preliminary.direction
  <2>1. /\ d \in Directions /\ rest \in [Legs -> Books]
        /\ final \in CandidatesOn(rest, d)
    BY NoneIsNone DEF IInv, TypeOK, FinalIsBest, IsBest
  <2>2. /\ final.direction = d
        /\ \A leg \in Legs : DepthDen * final.quantity <= DepthNum * Depth(Levels(rest[leg], d))
        /\ final.profit * 10000 <= ExactProfit(rest, d, final.quantity)
    BY <2>1, CandidatesAreReal DEF CandidatesOn
  <2> QED BY <2>2 DEF FinalIsExecutable
<1> QED BY <1>1, Invariant, PTL

\* select_best leaves no allowed quantity of its breakpoints behind that would
\* earn more, in the other direction either.
THEOREM BestIsFound == Spec => []NoneTriedIsBetter
<1>1. IInv => NoneTriedIsBetter
  BY DEF IInv
<1> QED BY <1>1, Invariant, PTL

\* Leaving max_per_cycle aside, a quantity between two breakpoints of the books earns no
\* more than the better of them but for three roundings, and of the breakpoints none that
\* the limits allow earns more than what select_best finds.
THEOREM NothingBetterHolds == Spec => []NothingBetterLeft
<1>1. IInv => NothingBetterLeft
  <2> SUFFICES ASSUME IInv, stage = "preliminary" \/ outcome = "no_opportunity",
                      NEW d \in Directions
               PROVE  LET a == Levels(ws[1], d)
                          b == Levels(ws[2], d)
                          earned == IF preliminary = None THEN MinProfit - 1
                                    ELSE preliminary.profit
                          profit == [q \in 0 .. Cap(a, b) |-> Evaluated(a, b, d, q).profit]
                      IN \A q \in 1 .. Cap(a, b) :
                           /\ profit[q] > 0 =>
                                \E p \in NextTo(a, b, q) : profit[q] <= profit[p] + 3 * Grain
                           /\ /\ q \in Quantities(a, b) /\ Acceptable(Evaluated(a, b, d, q))
                              /\ ~InBand(a)
                              => profit[q] <= earned
    BY DEF NothingBetterLeft
  <2> DEFINE a == Levels(ws[1], d)
             b == Levels(ws[2], d)
             earned == IF preliminary = None THEN MinProfit - 1 ELSE preliminary.profit
             profit == [q \in 0 .. Cap(a, b) |-> Evaluated(a, b, d, q).profit]
  <2>1. ws \in [Legs -> Books]
    BY DEF IInv, TypeOK
  <2>2. a \in Ladders /\ b \in Ladders
    BY <2>1, LegsAreLadders
  <2>3. \A p \in Candidates(a, b, d) : preliminary # None /\ p.profit <= preliminary.profit
    BY DEF IInv, NoneTriedIsBetter, CandidatesOn
  <2> HIDE DEF a, b
  <2>4. /\ Cap(a, b) \in Nat
        /\ \A q \in Quantities(a, b) : q \in 0 .. Cap(a, b) /\ q \in Nat
    <3>1. Cap(a, b) \in Nat /\ \A q \in Quantities(a, b) : q \in Nat
      BY <2>2, QuantitiesAreCapped
    <3>2. \A q \in Quantities(a, b) : q <= Cap(a, b)
      BY DEF Quantities
    <3> QED BY <3>1, <3>2
  <2>5. \A q \in 0 .. Cap(a, b) : profit[q] = Evaluated(a, b, d, q).profit
    OBVIOUS
  <2> HIDE DEF profit
  <2>6. ASSUME NEW q \in 1 .. Cap(a, b), profit[q] > 0
        PROVE  \E p \in NextTo(a, b, q) : profit[q] <= profit[p] + 3 * Grain
    <3>1. q \in 0 .. Cap(a, b)
      BY <2>4
    <3>2. PICK p \in NextTo(a, b, q) :
            Evaluated(a, b, d, q).profit <= Evaluated(a, b, d, p).profit + 3 * Grain
      BY <2>2, <2>5, <2>6, <3>1, NeighbourEarnsAsMuch
    <3>3. p \in 0 .. Cap(a, b)
      BY <2>4 DEF NextTo
    <3> QED BY <2>5, <3>1, <3>2, <3>3
  <2>7. ASSUME NEW q \in Quantities(a, b), Acceptable(Evaluated(a, b, d, q)), ~InBand(a)
        PROVE  profit[q] <= earned
    <3>1. a # <<>>
      <4>1. DepthDen * q <= DepthNum * Depth(a) /\ q \in Nat /\ q > 0
        BY <2>2, QuantitiesAreCapped
      <4>2. DepthDen \in Nat /\ DepthDen > 0 /\ DepthNum \in Nat
        BY PricingAssumption
      <4>3. DepthDen * q > 0 /\ DepthNum * 0 = 0
        BY <4>1, <4>2
      <4>4. Depth(a) # 0
        BY <4>1, <4>2, <4>3
      <4> QED BY <2>2, <4>4, DepthsGrow
    <3>2. Evaluated(a, b, d, q) \in Candidates(a, b, d)
      BY <2>7, <3>1 DEF Candidates
    <3> QED BY <2>3, <2>4, <2>5, <3>2
  <2> QED BY <2>6, <2>7 DEF a, b, profit
<1> QED BY <1>1, Invariant, PTL
=============================================================================
