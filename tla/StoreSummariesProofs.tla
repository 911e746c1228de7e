------------------------- MODULE StoreSummariesProofs -------------------------
(***************************************************************************)
(* What StoreSummaries' run checks of a few tables and stores, proved for  *)
(* tables and stores of any length, batches of any size and any grid of    *)
(* candidates.                                                             *)
(***************************************************************************)
EXTENDS StoreSummaries, FiniteFolds, SequenceTheorems

-----------------------------------------------------------------------------
(* Sequences, step by step.                                                *)

\* What holds at first and is handed on by each of n steps holds after all of them.
LEMMA ChainHolds ==
  ASSUME NEW n \in Nat, NEW G \in [0 .. n -> BOOLEAN], G[0],
         \A i \in 1 .. n : G[i - 1] => G[i]
  PROVE  \A i \in 0 .. n : G[i]
<1> DEFINE B == {i \in 0 .. n : ~G[i]}
<1> SUFFICES ASSUME B # {} PROVE FALSE
  OBVIOUS
<1>1. IsFiniteSet(B) /\ \A i \in B : i \in Int
  <2>1. IsFiniteSet(0 .. n) /\ B \subseteq 0 .. n
    BY FS_Interval
  <2> QED BY <2>1, FS_Subset
<1>2. PICK i \in B : \A j \in B : i <= j
  <2> HIDE DEF B
  <2> QED BY <1>1, LeastExists
<1>3. i \in 1 .. n /\ i - 1 \in 0 .. n /\ i - 1 \notin B
  BY <1>2
<1> QED BY <1>2, <1>3

TakesLast(choice, n) == \A i \in 1 .. n : choice[1 .. i] = i

InSteps(h, n, base, F) ==
    /\ h[1 .. 0] = base
    /\ \A i \in 1 .. n : h[1 .. i] = F[<<i, h[1 .. (i - 1)]>>]

\* A fold that takes the greatest number first goes through 1 .. n in order.
LEMMA ChainOfFold ==
  ASSUME NEW n, n \in Nat, NEW D, D = 1 .. n, NEW base, NEW F, NEW choice,
         TakesLast(choice, n), NEW h, IsFold(h, D, base, F, choice)
  PROVE  InSteps(h, n, base, F)
<1>1. h[1 .. 0] = base
  <2>1. 1 .. 0 = {} /\ {} \in SUBSET (1 .. n)
    OBVIOUS
  <2> QED BY <2>1 DEF IsFold
<1>2. ASSUME NEW i \in 1 .. n PROVE h[1 .. i] = F[<<i, h[1 .. (i - 1)]>>]
  <2>1. 1 .. i \in SUBSET (1 .. n) /\ 1 .. i # {}
    <3>1. i \in Nat /\ 1 <= i /\ i <= n
      BY ONLY n \in Nat, i \in 1 .. n
    <3>2. i \in 1 .. i
      BY ONLY <3>1
    <3>3. 1 .. i \subseteq 1 .. n
      BY ONLY <3>1, n \in Nat
    <3> QED BY ONLY <3>2, <3>3
  <2>2. (1 .. i) \ {i} = 1 .. (i - 1)
    OBVIOUS
  <2>3. choice[1 .. i] = i
    BY Zenon DEF TakesLast
  <2>4. h[1 .. i] = F[<<choice[1 .. i], h[(1 .. i) \ {choice[1 .. i]}]>>]
    BY <2>1 DEF IsFold
  <2> QED BY <2>2, <2>3, <2>4
<1> QED BY <1>1, <1>2 DEF InSteps

-----------------------------------------------------------------------------
(* Snapshots.                                                              *)

\* The snapshots that precede a time are all of one instant.
LEMMA PrecedingIs ==
  ASSUME NEW snapshots \in SUBSET Snapshots, NEW token, NEW t \in Times
  PROVE  LET found == Preceding(snapshots, token, t)
         IN /\ found \in SUBSET snapshots
            /\ \A s \in found : s.token = token /\ s.at \in Times /\ t - s.at \in 0 .. MaxAge
            /\ \A r, s \in found : r.at = s.at
<1>1. MaxTime \in Nat /\ MaxAge \in Nat
  BY SummaryAssumption
<1>2. \A s \in Snapshots : s.at \in 0 .. MaxTime
  BY DEF Snapshots, Times
<1>3. \A s \in Preceding(snapshots, token, t) :
        /\ s \in snapshots /\ s \in Snapshots /\ s.token = token /\ s.at <= t /\ t - s.at <= MaxAge
        /\ \A r \in Preceding(snapshots, token, t) : r.at <= s.at
  BY DEF Preceding
<1> HIDE DEF Preceding
<1>4. \A s \in Preceding(snapshots, token, t) : s.at \in Times /\ t - s.at \in 0 .. MaxAge
  BY <1>1, <1>2, <1>3 DEF Times
<1>5. \A r, s \in Preceding(snapshots, token, t) : r.at = s.at
  BY <1>2, <1>3, <1>4 DEF Times
<1> QED BY <1>3, <1>4, <1>5

\* A leg has no age or one.
LEMMA LegAgeIs ==
  ASSUME NEW snapshots \in SUBSET Snapshots, NEW row \in Decisions, NEW leg
  PROVE  \/ LegAge(row, leg, snapshots) = {}
         \/ \E n \in 0 .. MaxAge : LegAge(row, leg, snapshots) = {n}
<1> DEFINE found == Preceding(snapshots, <<row.market, leg>>, row.at)
<1>1. row.at \in Times
  BY DEF Decisions
<1>2. /\ \A s \in found : row.at - s.at \in 0 .. MaxAge
      /\ \A r, s \in found : r.at = s.at
  BY <1>1, PrecedingIs
<1>3. LegAge(row, leg, snapshots) = {row.at - s.at : s \in found}
  BY DEF LegAge
<1> HIDE DEF found
<1> QED BY <1>2, <1>3

\* Lists of nothing and of one thing.
LEMMA ShortLists ==
  ASSUME NEW x
  PROVE  SetToSeq({}) = <<>> /\ SetToSeq({x}) = <<x>>
<1>1. SetToSeq({}) = <<>>
  <2>1. IsFiniteSet({}) /\ Cardinality({}) = 0
    BY FS_EmptySet
  <2>2. SetToSeq({}) \in [1 .. 0 -> {}]
    BY <2>1, SetToSeqLists
  <2>3. SetToSeq({}) \in Seq({}) /\ Len(SetToSeq({})) = 0
    BY <2>2
  <2> QED BY <2>3, EmptySeq
<1>2. SetToSeq({x}) = <<x>>
  <2>1. IsFiniteSet({x}) /\ Cardinality({x}) = 1
    BY FS_Singleton
  <2>2. SetToSeq({x}) \in [1 .. 1 -> {x}]
    BY <2>1, SetToSeqLists
  <2>3. \A i \in 1 .. 1 : SetToSeq({x})[i] = x
    BY <2>2
  <2> QED BY <2>2, <2>3
<1> QED BY <1>1, <1>2

-----------------------------------------------------------------------------
(* The accumulated record and the fold over a batch.                       *)

Observations == [market : Markets, at : Times, a : Snapshots, b : Snapshots]
Keys == Markets \X Times \X Times

AgeLists == Seq(0 .. MaxAge)
KeySets == SUBSET Keys
ObservationLists == Seq(Observations)

AccRecords ==
    [decisions : Nat, legacy : Nat, eligible : Nat, both : Nat, one : Nat, none : Nat,
     ages : AgeLists, seen : KeySets, observations : ObservationLists]

Accs == {a \in AccRecords : a.both <= a.eligible}

\* The body of the loop of the summary that runs.
Turn(a, row, snapshots) ==
    IF command = "calibration" THEN Observe(a, row, snapshots) ELSE Sampled(a, row, snapshots)

\* Observe for a row with tokens: one more of the three kinds, and the ages of its legs.
ObservedRow(a, row, snapshots) ==
    LET ages == [leg \in {1, 2} |-> LegAge(row, leg, snapshots)]
        covered == Cardinality({leg \in {1, 2} : ages[leg] # {}})
    IN [a EXCEPT !.decisions = @ + 1, !.eligible = @ + 1,
                 !.both = IF covered = 2 THEN @ + 1 ELSE @,
                 !.one = IF covered = 1 THEN @ + 1 ELSE @,
                 !.none = IF covered = 0 THEN @ + 1 ELSE @,
                 !.ages = @ \o SetToSeq(ages[1]) \o SetToSeq(ages[2])]

\* The calibration summary observes rows with tokens and counts the others.
LEMMA ObserveIs ==
  ASSUME NEW a \in Accs, NEW row, NEW snapshots
  PROVE  Observe(a, row, snapshots) =
            IF row.market = 0 THEN [a EXCEPT !.decisions = @ + 1, !.legacy = @ + 1]
            ELSE ObservedRow(a, row, snapshots)
BY DEF Observe, ObservedRow, Accs, AccRecords

\* A turn of the calibration summary makes a record of a record.
LEMMA ObserveType ==
  ASSUME NEW a \in Accs, NEW row \in Decisions, NEW snapshots \in SUBSET Snapshots
  PROVE  Observe(a, row, snapshots) \in Accs
<1>0. a \in AccRecords /\ a.both <= a.eligible
  BY DEF Accs
<1>1. CASE row.market = 0
  <2> DEFINE d == a.decisions + 1
             l == a.legacy + 1
  <2>1. Observe(a, row, snapshots) = [a EXCEPT !.decisions = d, !.legacy = l]
    BY <1>1, ObserveIs
  <2>2. d \in Nat /\ l \in Nat
    BY <1>0 DEF AccRecords
  <2> HIDE DEF d, l
  <2> QED BY <1>0, <2>1, <2>2 DEF Accs, AccRecords
<1>2. CASE row.market # 0
  <2> DEFINE ages == [leg \in {1, 2} |-> LegAge(row, leg, snapshots)]
             covered == Cardinality({leg \in {1, 2} : ages[leg] # {}})
             list(leg) == SetToSeq(ages[leg])
             all == a.ages \o list(1) \o list(2)
  <2>1. ASSUME NEW leg \in {1, 2} PROVE list(leg) \in Seq(0 .. MaxAge)
    <3>1. ages[leg] = {} \/ \E n \in 0 .. MaxAge : ages[leg] = {n}
      BY LegAgeIs
    <3> HIDE DEF ages
    <3>2. CASE ages[leg] = {}
      <4>1. list(leg) = <<>>
        BY <3>2, ShortLists
      <4> QED BY <4>1
    <3>3. ASSUME NEW n \in 0 .. MaxAge, ages[leg] = {n} PROVE list(leg) \in Seq(0 .. MaxAge)
      <4>1. list(leg) = <<n>>
        BY <3>3, ShortLists
      <4> HIDE DEF list
      <4> QED BY <4>1
    <3> QED BY <3>1, <3>2, <3>3
  <2>2. all \in AgeLists
    <3>1. a.ages \in Seq(0 .. MaxAge)
      BY <1>0 DEF AccRecords, AgeLists
    <3> HIDE DEF list
    <3> QED BY <2>1, <3>1 DEF AgeLists
  <2> DEFINE d == a.decisions + 1
             e == a.eligible + 1
             b == IF covered = 2 THEN a.both + 1 ELSE a.both
             o == IF covered = 1 THEN a.one + 1 ELSE a.one
             z == IF covered = 0 THEN a.none + 1 ELSE a.none
             r == [a EXCEPT !.decisions = d, !.eligible = e, !.both = b, !.one = o, !.none = z,
                            !.ages = all]
  <2>3. Observe(a, row, snapshots) = r
    <3>1. Observe(a, row, snapshots) = ObservedRow(a, row, snapshots)
      BY <1>2, ObserveIs
    <3>2. ObservedRow(a, row, snapshots) =
            [a EXCEPT !.decisions = @ + 1, !.eligible = @ + 1,
                      !.both = IF covered = 2 THEN @ + 1 ELSE @,
                      !.one = IF covered = 1 THEN @ + 1 ELSE @,
                      !.none = IF covered = 0 THEN @ + 1 ELSE @,
                      !.ages = @ \o list(1) \o list(2)]
      BY DEF ObservedRow
    <3> HIDE DEF covered, list
    <3> QED BY <1>0, <3>1, <3>2 DEF AccRecords
  <2> HIDE DEF all, covered
  <2>4. d \in Nat /\ e \in Nat /\ b \in Nat /\ o \in Nat /\ z \in Nat /\ b <= e
    BY <1>0 DEF AccRecords
  <2> HIDE DEF d, e, b, o, z
  <2>5. r \in AccRecords
    BY <1>0, <2>2, <2>4 DEF AccRecords
  <2>6. r.both = b /\ r.eligible = e
    BY <1>0 DEF AccRecords
  <2> QED BY <2>3, <2>4, <2>5, <2>6 DEF Accs
<1> QED BY <1>1, <1>2

\* What the replay summary does with a row that has a snapshot of each leg.
SampledPair(a, row, x, y) ==
    LET key == SampleKey(row, x, y)
    IN [a EXCEPT !.eligible = @ + 1, !.both = @ + 1,
                 !.seen = @ \union {key},
                 !.observations =
                    IF key \notin a.seen /\ Usable(x, y)
                    THEN Append(@, [market |-> row.market, at |-> row.at, a |-> x, b |-> y])
                    ELSE @]

Newest(row, leg, snapshots) ==
    CHOOSE s \in Preceding(snapshots, <<row.market, leg>>, row.at) : TRUE

\* The replay summary passes a row over, counts it, or looks at its pair.
LEMMA SampledIs ==
  ASSUME NEW a \in Accs, NEW row, NEW snapshots
  PROVE  Sampled(a, row, snapshots) =
            IF row.market = 0 THEN a
            ELSE IF \E leg \in {1, 2} : Preceding(snapshots, <<row.market, leg>>, row.at) = {}
                 THEN [a EXCEPT !.eligible = @ + 1]
                 ELSE SampledPair(a, row, Newest(row, 1, snapshots), Newest(row, 2, snapshots))
<1> DEFINE P(leg) == Preceding(snapshots, <<row.market, leg>>, row.at)
           x == CHOOSE s \in P(1) : TRUE
           y == CHOOSE s \in P(2) : TRUE
           key == SampleKey(row, x, y)
           fresh == key \notin a.seen
<1>1. Sampled(a, row, snapshots) =
        IF row.market = 0 THEN a
        ELSE IF P(1) = {} \/ P(2) = {} THEN [a EXCEPT !.eligible = @ + 1]
        ELSE [[a EXCEPT !.eligible = @ + 1] EXCEPT
                 !.both = @ + 1,
                 !.seen = @ \union {key},
                 !.observations =
                    IF fresh /\ Usable(x, y)
                    THEN Append(@, [market |-> row.market, at |-> row.at, a |-> x, b |-> y])
                    ELSE @]
  BY DEF Sampled
<1>2. x = Newest(row, 1, snapshots) /\ y = Newest(row, 2, snapshots)
  BY DEF Newest
<1>3. (P(1) = {} \/ P(2) = {}) <=> \E leg \in {1, 2} : P(leg) = {}
  OBVIOUS
<1>4. a \in AccRecords
  BY DEF Accs
<1> HIDE DEF P, x, y
<1>5. [[a EXCEPT !.eligible = @ + 1] EXCEPT
                 !.both = @ + 1,
                 !.seen = @ \union {key},
                 !.observations =
                    IF fresh /\ Usable(x, y)
                    THEN Append(@, [market |-> row.market, at |-> row.at, a |-> x, b |-> y])
                    ELSE @] = SampledPair(a, row, x, y)
  BY <1>4 DEF SampledPair, AccRecords
<1> HIDE DEF fresh, key
<1>6. Sampled(a, row, snapshots) =
        IF row.market = 0 THEN a
        ELSE IF P(1) = {} \/ P(2) = {} THEN [a EXCEPT !.eligible = @ + 1]
        ELSE SampledPair(a, row, x, y)
  BY <1>1, <1>5
<1>7. Sampled(a, row, snapshots) =
        IF row.market = 0 THEN a
        ELSE IF \E leg \in {1, 2} : P(leg) = {} THEN [a EXCEPT !.eligible = @ + 1]
        ELSE SampledPair(a, row, x, y)
  BY <1>3, <1>6
<1> QED BY <1>2, <1>7 DEF P

\* A turn of the replay summary makes a record of a record.
LEMMA SampledType ==
  ASSUME NEW a \in Accs, NEW row \in Decisions, NEW snapshots \in SUBSET Snapshots
  PROVE  Sampled(a, row, snapshots) \in Accs
<1>0. a \in AccRecords /\ a.both <= a.eligible
  BY DEF Accs
<1>1. CASE row.market = 0
  BY <1>1, SampledIs
<1>2. CASE row.market # 0 /\ \E leg \in {1, 2} : Preceding(snapshots, <<row.market, leg>>, row.at) = {}
  <2>1. Sampled(a, row, snapshots) = [a EXCEPT !.eligible = @ + 1]
    BY <1>2, SampledIs
  <2> QED BY <1>0, <2>1 DEF Accs, AccRecords
<1>3. CASE row.market # 0 /\ \A leg \in {1, 2} : Preceding(snapshots, <<row.market, leg>>, row.at) # {}
  <2> DEFINE x == Newest(row, 1, snapshots)
             y == Newest(row, 2, snapshots)
             key == SampleKey(row, x, y)
             seen == a.seen \union {key}
             more == IF key \notin a.seen /\ Usable(x, y)
                     THEN Append(a.observations, [market |-> row.market, at |-> row.at, a |-> x, b |-> y])
                     ELSE a.observations
  <2>1. row.market \in Markets /\ row.at \in Times
    BY <1>3 DEF Decisions
  <2>2. x \in Snapshots /\ x.at \in Times /\ y \in Snapshots /\ y.at \in Times
    <3>1. /\ x \in Preceding(snapshots, <<row.market, 1>>, row.at)
          /\ y \in Preceding(snapshots, <<row.market, 2>>, row.at)
      BY <1>3 DEF Newest
    <3>2. x \in Snapshots /\ y \in Snapshots
      BY <2>1, <3>1, PrecedingIs
    <3> QED BY <3>2 DEF Snapshots
  <2>3. Sampled(a, row, snapshots) = SampledPair(a, row, x, y)
    BY <1>3, SampledIs
  <2> HIDE DEF x, y
  <2>4. seen \in KeySets
    BY <1>0, <2>1, <2>2 DEF AccRecords, KeySets, Keys, SampleKey
  <2>5. more \in ObservationLists
    <3>1. [market |-> row.market, at |-> row.at, a |-> x, b |-> y] \in Observations
      BY <2>1, <2>2 DEF Observations
    <3>2. a.observations \in Seq(Observations)
      BY <1>0 DEF AccRecords, ObservationLists
    <3> QED BY <3>1, <3>2 DEF ObservationLists
  <2> DEFINE e == a.eligible + 1
             b == a.both + 1
             r == [a EXCEPT !.eligible = e, !.both = b, !.seen = seen, !.observations = more]
  <2>6. Sampled(a, row, snapshots) = r
    BY <1>0, <2>3 DEF SampledPair, AccRecords
  <2> HIDE DEF seen, more
  <2>7. e \in Nat /\ b \in Nat /\ b <= e
    BY <1>0 DEF AccRecords
  <2> HIDE DEF e, b
  <2>8. r \in AccRecords /\ r.both = b /\ r.eligible = e
    BY <1>0, <2>4, <2>5, <2>7 DEF AccRecords
  <2> QED BY <2>6, <2>7, <2>8 DEF Accs
<1> QED BY <1>1, <1>2, <1>3

\* A batch takes the record through its rows, one by one.
LEMMA GatheredSteps ==
  ASSUME acc \in Accs, NEW rows \in Seq(Decisions), NEW snapshots \in SUBSET Snapshots
  PROVE  \E g \in [0 .. Len(rows) -> Accs] :
            /\ g[0] = acc /\ g[Len(rows)] = Gathered(rows, snapshots)
            /\ \A i \in 1 .. Len(rows) : g[i] = Turn(g[i - 1], rows[i], snapshots)
<1> DEFINE n == Len(rows)
           D == DOMAIN rows
           Step(f, t) == IF t = {} THEN acc ELSE Turn(f[t \ {Max(t)}], rows[Max(t)], snapshots)
           h == CHOOSE f : f = [t \in SUBSET D |-> Step(f, t)]
           F == [p \in D \X Accs |-> Turn(p[2], rows[p[1]], snapshots)]
           choice == [t \in SUBSET D |-> Max(t)]
<1>1. Gathered(rows, snapshots) = h[D]
  BY DEF Gathered, FoldLeft, MapThenFoldSet, Turn
<1>2. n \in Nat /\ D = 1 .. n /\ \A i \in D : rows[i] \in Decisions
  OBVIOUS
<1>3. IsFiniteSet(D) /\ \A i \in D : i \in Int
  BY <1>2, FS_Interval
<1>4. \A t \in SUBSET D : t # {} => Max(t) \in t
  <2> HIDE DEF D
  <2> QED BY <1>3, FS_Subset, MaxIsElement
<1>5. ASSUME NEW a \in Accs, NEW i \in D PROVE Turn(a, rows[i], snapshots) \in Accs
  BY <1>2, ObserveType, SampledType DEF Turn
<1> HIDE DEF D, n
<1>6. PICK g \in [SUBSET D -> Accs] : IsFold(g, D, acc, F, choice)
  <2>1. F \in [D \X Accs -> Accs]
    BY <1>5
  <2>2. Picks(choice, D)
    BY <1>4 DEF Picks
  <2> HIDE DEF F, choice
  <2> QED BY <1>3, <2>1, <2>2, FoldExists
<1>7. g = [t \in SUBSET D |-> Step(g, t)]
  <2> SUFFICES ASSUME NEW t \in SUBSET D PROVE g[t] = Step(g, t)
    OBVIOUS
  <2>1. g[t] = IF t = {} THEN acc ELSE F[<<choice[t], g[t \ {choice[t]}]>>]
    BY <1>6 DEF IsFold
  <2>2. t # {} => Max(t) \in D /\ g[t \ {Max(t)}] \in Accs
    BY <1>4
  <2> QED BY <2>1, <2>2
<1>8. h = [t \in SUBSET D |-> Step(h, t)]
  <2> HIDE DEF Step
  <2> QED BY <1>7, Zenon
<1> HIDE DEF h
<1>9. h \in [SUBSET D -> Accs] /\ IsFold(h, D, acc, F, choice)
  <2> DEFINE B == {t \in SUBSET D : h[t] # g[t]}
  <2>1. ASSUME B # {} PROVE FALSE
    <3>1. B \in SUBSET (SUBSET D)
      OBVIOUS
    <3>2. PICK t \in B : \A u \in SUBSET t : u \in B => u = t
      <4> HIDE DEF B
      <4> QED BY <1>3, <2>1, <3>1, SmallestSubset
    <3>3. t \in SUBSET D /\ h[t] # g[t] /\ h[t] = Step(h, t) /\ g[t] = Step(g, t)
      <4> HIDE DEF Step
      <4> QED BY <1>7, <1>8, <3>2
    <3>4. t # {}
      BY <3>3
    <3>5. Max(t) \in t
      BY <1>4, <3>3, <3>4
    <3> DEFINE u == t \ {Max(t)}
    <3>6. u \in SUBSET t /\ u # t /\ u \in SUBSET D
      BY <3>3, <3>5
    <3>7. h[u] = g[u]
      BY <3>2, <3>6
    <3> QED BY <3>3, <3>4, <3>7
  <2>2. \A t \in SUBSET D : h[t] = g[t]
    BY <2>1
  <2>3. h = g
    BY <1>7, <1>8, <2>2
  <2> QED BY <1>6, <2>3
<1>10. TakesLast(choice, n)
  <2>1. ASSUME NEW i \in 1 .. n PROVE choice[1 .. i] = i
    <3>1. 1 .. i \in SUBSET D /\ i \in 1 .. i
      BY <1>2
    <3>2. IsFiniteSet(1 .. i) /\ 1 .. i # {} /\ \A j \in 1 .. i : j \in Int
      <4>1. i \in Int
        BY <1>2
      <4>2. IsFiniteSet(1 .. i)
        BY <4>1, FS_Interval
      <4>3. \A j \in 1 .. i : j \in Int
        BY ONLY <4>1
      <4> QED BY ONLY <3>1, <4>2, <4>3
    <3>3. Max(1 .. i) \in 1 .. i /\ \A j \in 1 .. i : Max(1 .. i) >= j
      BY <3>2, MaxIsElement
    <3>4. Max(1 .. i) = i
      BY <1>2, <3>1, <3>3
    <3> QED BY <3>1, <3>4
  <2> HIDE DEF F, choice
  <2> QED BY <2>1 DEF TakesLast
<1>11. InSteps(h, n, acc, F)
  <2> HIDE DEF F, choice
  <2> QED BY <1>2, <1>9, <1>10, ChainOfFold
<1> DEFINE k == [i \in 0 .. n |-> h[1 .. i]]
<1>12. /\ k \in [0 .. n -> Accs] /\ k[0] = acc /\ k[n] = h[1 .. n]
       /\ \A i \in 0 .. n : k[i] = h[1 .. i]
  <2>1. \A i \in 0 .. n : 1 .. i \in SUBSET D
    BY <1>2
  <2> QED BY <1>2, <1>9, <1>11, <2>1 DEF InSteps
<1> HIDE DEF k
<1>13. ASSUME NEW i \in 1 .. n PROVE k[i] = Turn(k[i - 1], rows[i], snapshots)
  <2>1. i \in 0 .. n /\ i - 1 \in 0 .. n /\ i \in D
    BY <1>2
  <2>2. k[i] = F[<<i, k[i - 1]>>]
    BY <1>11, <1>12, <2>1 DEF InSteps
  <2>3. <<i, k[i - 1]>> \in D \X Accs
    BY <1>12, <2>1
  <2> QED BY <2>2, <2>3
<1>14. k[n] = Gathered(rows, snapshots)
  BY <1>1, <1>2, <1>12
<1> QED BY <1>12, <1>13, <1>14 DEF n

-----------------------------------------------------------------------------
(* The inductive invariant, apart from what the record says.               *)

Types ==
    /\ now \in Times /\ changes \in Nat /\ late \in BOOLEAN
    /\ table \in Seq(Decisions) /\ store \in Seq(Snapshots)
    /\ command \in {"none", "calibration", "replay"}
    /\ status \in {"idle", "reading", "done", "failed"}
    /\ throughId \in 0 .. Len(table) /\ afterId \in 0 .. throughId
    /\ acc \in Accs

\* The Store has one snapshot of a token and an instant at most.
SampledOnce == \A r, s \in Range(store) : r.token = s.token /\ r.at = s.at => r = s

\* The record is empty until the summary begins, and everything is read at the end.
Progress ==
    /\ status = "idle" => afterId = 0 /\ throughId = 0 /\ acc = Nothing
    /\ status = "reading" => command # "none"
    /\ status = "done" => afterId = throughId /\ command # "none"

Printed ==
    IF command = "calibration" THEN [printed |-> TRUE, median |-> Median(acc.ages)]
    ELSE [printed |-> TRUE, coverage |-> CoverageBps, selected |-> Replayed]

SumInv ==
    /\ Types /\ SampledOnce /\ Progress
    /\ report = IF status = "done" THEN Printed ELSE NoReport

\* The lesser of two numbers.
LEMMA LesserIs ==
  ASSUME NEW a \in Int, NEW b \in Int
  PROVE  Min({a, b}) = IF a <= b THEN a ELSE b
<1>1. IsFiniteSet({a, b})
  <2>1. IsFiniteSet({a}) /\ {a, b} = {a} \union {b}
    BY FS_Singleton
  <2> QED BY <2>1, FS_AddElement
<1> DEFINE m == Min({a, b})
<1>2. m \in {a, b} /\ \A y \in {a, b} : m <= y
  BY <1>1, MinIsElement
<1> HIDE DEF m
<1>3. m = IF a <= b THEN a ELSE b
  BY <1>2
<1> QED BY <1>3 DEF m

\* The greater of two numbers.
LEMMA GreaterIs ==
  ASSUME NEW a \in Int, NEW b \in Int
  PROVE  Max({a, b}) = IF a <= b THEN b ELSE a
<1>1. IsFiniteSet({a, b})
  <2>1. IsFiniteSet({a}) /\ {a, b} = {a} \union {b}
    BY FS_Singleton
  <2> QED BY <2>1, FS_AddElement
<1> DEFINE m == Max({a, b})
<1>2. m \in {a, b} /\ \A y \in {a, b} : m >= y
  BY <1>1, MaxIsElement
<1> HIDE DEF m
<1>3. m = IF a <= b THEN b ELSE a
  BY <1>2
<1> QED BY <1>3 DEF m

\* A batch is what is left, BatchSize rows of it at most.
LEMMA BatchIs ==
  ASSUME NEW through \in Nat, NEW after \in Nat, after < through,
         table \in Seq(Decisions), through <= Len(table)
  PROVE  LET end == Min({after + BatchSize, through})
         IN /\ end \in (after + 1) .. through
            /\ Batch(after, through) \in Seq(Decisions)
            /\ Len(Batch(after, through)) = end - after
            /\ \A i \in 1 .. end - after : Batch(after, through)[i] = table[after + i]
<1> DEFINE end == Min({after + BatchSize, through})
<1>1. BatchSize \in Nat /\ BatchSize > 0
  BY SummaryAssumption
<1>2. end \in (after + 1) .. through
  BY <1>1, LesserIs
<1>3. Batch(after, through) = SubSeq(table, after + 1, end)
  BY DEF Batch
<1> HIDE DEF end
<1> DEFINE first == after + 1
<1>4. first \in Int /\ end \in Int /\ first <= end /\ \A i \in first .. end : table[i] \in Decisions
  <2>1. end <= Len(table) /\ first >= 1 /\ first \in Int /\ end \in Int /\ first <= end
    BY <1>2
  <2>2. \A i \in first .. end : i \in 1 .. Len(table)
    BY <2>1
  <2>3. \A i \in 1 .. Len(table) : table[i] \in Decisions
    OBVIOUS
  <2> QED BY <2>1, <2>2, <2>3
<1> HIDE DEF first
<1>5. /\ SubSeq(table, first, end) \in Seq(Decisions)
      /\ Len(SubSeq(table, first, end)) = end - first + 1
      /\ \A i \in 1 .. end - first + 1 : SubSeq(table, first, end)[i] = table[first + i - 1]
  BY <1>4, SubSeqProperties
<1>6. end - first + 1 = end - after
  BY <1>2 DEF first
<1>7. \A i \in 1 .. end - after : first + i - 1 = after + i
  BY <1>2 DEF first
<1>8. Batch(after, through) = SubSeq(table, first, end)
  BY <1>3 DEF first
<1> QED BY <1>2, <1>5, <1>6, <1>7, <1>8 DEF end

\* The record begins empty.
LEMMA NothingIs == Nothing \in Accs
<1>1. <<>> \in AgeLists /\ {} \in KeySets /\ <<>> \in ObservationLists
  BY DEF AgeLists, KeySets, ObservationLists
<1> QED BY <1>1 DEF Nothing, Accs, AccRecords

\* The Store answers with snapshots.
LEMMA StreamedType ==
  ASSUME store \in Seq(Snapshots), NEW tokens, NEW from, NEW to
  PROVE  Streamed(tokens, from, to) \in SUBSET Snapshots
BY DEF Streamed, Range

\* A batch keeps the types.
LEMMA GatheredType ==
  ASSUME acc \in Accs, NEW rows \in Seq(Decisions), NEW snapshots \in SUBSET Snapshots
  PROVE  Gathered(rows, snapshots) \in Accs
<1>1. PICK g \in [0 .. Len(rows) -> Accs] : g[Len(rows)] = Gathered(rows, snapshots)
  BY GatheredSteps
<1> QED BY <1>1

\* What a command prints depends on the command and on the record.
LEMMA PrintedStays ==
  ASSUME command' = command, acc' = acc
  PROVE  Printed' = Printed
<1>1. CoverageBps' = CoverageBps
  BY DEF CoverageBps
<1>2. Replayed' = Replayed
  BY <1>1 DEF Replayed
<1> QED BY <1>1, <1>2 DEF Printed

\* What is appended is all that is added.
LEMMA RangeGrows ==
  ASSUME NEW S, NEW s \in Seq(S), NEW e \in S
  PROVE  Range(Append(s, e)) = Range(s) \union {e}
<1> DEFINE n == Len(s)
           t == Append(s, e)
<1>1. n \in Nat /\ DOMAIN s = 1 .. n
  OBVIOUS
<1>2. DOMAIN t = 1 .. (n + 1) /\ t[n + 1] = e /\ \A i \in 1 .. n : t[i] = s[i]
  BY AppendProperties
<1> HIDE DEF n, t
<1>3. 1 .. (n + 1) = (1 .. n) \union {n + 1}
  BY <1>1
<1>4. {t[i] : i \in 1 .. (n + 1)} = {s[i] : i \in 1 .. n} \union {e}
  BY <1>2, <1>3
<1> QED BY <1>1, <1>2, <1>4 DEF Range, t

\* SumInv holds at first and every step keeps it.
LEMMA SumInvHolds == Spec => []SumInv
<1>1. Init => SumInv
  <2> SUFFICES ASSUME Init PROVE SumInv
    OBVIOUS
  <2>1. PICK w \in Worlds : table = w.table /\ store = w.store /\ now = w.now /\ changes = w.changes
    BY DEF Init
  <2>2. /\ table \in Seq(Decisions) /\ store \in Seq(Snapshots) /\ now \in Times /\ changes \in Nat
        /\ SampledOnce
    BY <2>1, WorldsAssumption DEF SampledOnce
  <2>3. 0 \in 0 .. Len(table) /\ 0 \in 0 .. 0
    BY <2>2
  <2>4. /\ command = "none" /\ status = "idle" /\ afterId = 0 /\ throughId = 0
        /\ acc = Nothing /\ report = NoReport /\ late = FALSE
    BY DEF Init
  <2>5. Types
    BY <2>2, <2>3, <2>4, NothingIs DEF Types
  <2>6. Progress
    BY <2>4 DEF Progress
  <2> QED BY <2>2, <2>4, <2>5, <2>6 DEF SumInv
<1>2. SumInv /\ [Next]_vars => SumInv'
  <2> SUFFICES ASSUME SumInv, [Next]_vars PROVE SumInv'
    OBVIOUS
  <2> USE DEF SumInv, Types
  <2>1. CASE Tick
    <3>1. now' \in Times
      BY <2>1, SummaryAssumption DEF Tick, Times
    <3>2. UNCHANGED <<table, store, command, afterId, throughId, status, acc, report, late>>
      BY <2>1 DEF Tick, scanVars
    <3>3. SampledOnce' /\ Progress' /\ Printed' = Printed
      BY <3>2, PrintedStays DEF SampledOnce, Progress
    <3>4. changes' \in Nat
      BY <2>1 DEF Tick, Change
    <3> QED BY <3>1, <3>2, <3>3, <3>4
  <2>2. CASE AppendDecision
    <3>1. UNCHANGED <<now, store, command, afterId, throughId, status, acc, report, late>>
      BY <2>2 DEF AppendDecision, scanVars
    <3>2. PICK m \in Markets, at \in Times : table' = Append(table, [at |-> at, market |-> m])
      BY <2>2 DEF AppendDecision
    <3>3. table' \in Seq(Decisions) /\ Len(table') = Len(table) + 1
      <4> DEFINE new == [at |-> at, market |-> m]
      <4>1. new \in Decisions
        BY DEF Decisions
      <4>2. table \in Seq(Decisions) /\ table' = Append(table, new)
        BY <3>2
      <4> HIDE DEF new
      <4> QED BY ONLY <4>1, <4>2
    <3>4. SampledOnce' /\ Progress' /\ Printed' = Printed
      BY <3>1, PrintedStays DEF SampledOnce, Progress
    <3>5. changes' \in Nat
      BY <2>2 DEF AppendDecision, Change
    <3>6. throughId' \in 0 .. Len(table')
      BY <3>1, <3>3
    <3> QED BY <3>1, <3>3, <3>4, <3>5, <3>6
  <2>3. CASE Sample
    <3>1. UNCHANGED <<now, table, command, afterId, throughId, status, acc, report>>
      BY <2>3 DEF Sample, scanVars
    <3>2. PICK token \in Tokens, quote \in Quotes :
             /\ \A s \in Range(store) : s.token = token => s.at < now
             /\ store' = Append(store, [token |-> token, at |-> now, quote |-> quote])
      BY <2>3 DEF Sample
    <3>3. store' \in Seq(Snapshots)
      <4> DEFINE new == [token |-> token, at |-> now, quote |-> quote]
      <4>1. new \in Snapshots
        BY DEF Snapshots
      <4>2. store \in Seq(Snapshots) /\ store' = Append(store, new)
        BY <3>2
      <4> HIDE DEF new
      <4> QED BY ONLY <4>1, <4>2
    <3>4. SampledOnce'
      <4>1. Range(store') = Range(store) \union {[token |-> token, at |-> now, quote |-> quote]}
        <5> DEFINE new == [token |-> token, at |-> now, quote |-> quote]
        <5>1. new \in Snapshots
          BY DEF Snapshots
        <5>2. store \in Seq(Snapshots) /\ store' = Append(store, new)
          BY <3>2
        <5> HIDE DEF new
        <5>3. Range(store') = Range(store) \union {new}
          BY ONLY <5>1, <5>2, RangeGrows
        <5> QED BY <5>3 DEF new
      <4>2. now \in Int
        BY SummaryAssumption DEF Times
      <4>3. \A r, s \in Range(store') : r.token = s.token /\ r.at = s.at => r = s
        BY <3>2, <4>1, <4>2 DEF SampledOnce
      <4> QED BY <4>3 DEF SampledOnce
    <3>5. Progress' /\ Printed' = Printed
      BY <3>1, PrintedStays DEF Progress
    <3>6. changes' \in Nat /\ late' \in BOOLEAN
      BY <2>3 DEF Sample, Change
    <3> QED BY <3>1, <3>3, <3>4, <3>5, <3>6
  <2>4. CASE Start
    <3>1. UNCHANGED <<now, table, store, changes, afterId, acc, report, late>>
      BY <2>4 DEF Start, worldVars
    <3>2. /\ command' \in {"calibration", "replay"} /\ status' = "reading" /\ status = "idle"
          /\ throughId' = Len(table)
      BY <2>4 DEF Start
    <3>3. SampledOnce' /\ Progress'
      BY <3>1, <3>2 DEF SampledOnce, Progress
    <3>4. throughId' \in 0 .. Len(table') /\ afterId' \in 0 .. throughId'
      BY <3>1, <3>2
    <3> QED BY <3>1, <3>2, <3>3, <3>4
  <2>5. CASE ReadBatch
    <3> DEFINE rows == Batch(afterId, throughId)
               tokens == UNION {TokensOf(row) : row \in Range(rows)}
               snapshots == IF tokens = {} THEN {} ELSE Streamed(tokens, From(rows), To(rows))
    <3>1. /\ UNCHANGED <<now, table, store, changes, command, throughId, status, report, late>>
          /\ status = "reading" /\ afterId < throughId
          /\ afterId' = Min({afterId + BatchSize, throughId})
          /\ acc' = Gathered(rows, snapshots)
      BY <2>5 DEF ReadBatch, worldVars
    <3>2. rows \in Seq(Decisions) /\ afterId' \in 0 .. throughId
      <4>1. throughId \in Nat /\ afterId \in Nat /\ throughId <= Len(table)
        OBVIOUS
      <4>2. Min({afterId + BatchSize, throughId}) \in (afterId + 1) .. throughId /\ rows \in Seq(Decisions)
        BY <3>1, <4>1, BatchIs
      <4> QED BY <3>1, <4>1, <4>2
    <3>3. snapshots \in SUBSET Snapshots
      BY StreamedType
    <3> HIDE DEF rows, snapshots
    <3>4. acc' \in Accs
      BY <3>1, <3>2, <3>3, GatheredType
    <3>5. SampledOnce' /\ Progress'
      BY <3>1 DEF SampledOnce, Progress
    <3> QED BY <3>1, <3>2, <3>4, <3>5
  <2>6. CASE Fail
    <3>1. UNCHANGED <<now, table, store, changes, command, afterId, throughId, report, late>>
      BY <2>6 DEF Fail, worldVars, scanVars
    <3>2. status' = "failed" /\ acc' = Nothing /\ status # "done"
      BY <2>6 DEF Fail
    <3>3. SampledOnce' /\ Progress'
      BY <3>1, <3>2 DEF SampledOnce, Progress
    <3> QED BY <3>1, <3>2, <3>3, NothingIs
  <2>7. CASE Finish
    <3>1. UNCHANGED <<now, table, store, changes, command, afterId, throughId, acc, late>>
      BY <2>7 DEF Finish, worldVars, scanVars
    <3>2. status = "reading" /\ status' = "done" /\ afterId >= throughId /\ report' = Printed
      BY <2>7 DEF Finish, Printed
    <3>3. Printed' = Printed
      BY <3>1, PrintedStays
    <3>4. SampledOnce' /\ Progress'
      BY <3>1, <3>2 DEF SampledOnce, Progress
    <3> QED BY <3>1, <3>2, <3>3, <3>4
  <2>8. CASE UNCHANGED vars
    BY <2>8, PrintedStays DEF vars, worldVars, scanVars, SampledOnce, Progress
  <2> QED BY <2>1, <2>2, <2>3, <2>4, <2>5, <2>6, <2>7, <2>8 DEF Next
<1> QED BY <1>1, <1>2, PTL DEF Spec

-----------------------------------------------------------------------------
(* The parts of time.                                                      *)

\* Every time has a part of time, and a time from the first on has one of five.
LEMMA SplitIs ==
  ASSUME NEW first \in Int, NEW last \in Int, NEW t \in Int
  PROVE  /\ Split(first, last, t) \in Int
         /\ first <= t => Split(first, last, t) \in 0 .. 4
<1> DEFINE d == Max({last - first, 1})
           a == (t - first) * 5
           q == a \div d
<1>1. d \in Int /\ d > 0
  BY GreaterIs
<1>2. a \in Int /\ (first <= t => a >= 0)
  OBVIOUS
<1> HIDE DEF a, d
<1>3. q \in Int /\ (a >= 0 => q >= 0)
  BY <1>1, <1>2
<1> HIDE DEF q
<1>4. Min({q, 4}) = IF q <= 4 THEN q ELSE 4
  BY <1>3, LesserIs
<1>5. Split(first, last, t) = Min({q, 4})
  BY DEF Split, q, a, d
<1> QED BY <1>2, <1>3, <1>4, <1>5

\* The times of the observations.
LEMMA ObservationTimes ==
  ASSUME acc \in Accs
  PROVE  LET times == {o.at : o \in Range(acc.observations)}
         IN IsFiniteSet(times) /\ \A t \in times : t \in Times /\ t \in Int
<1> DEFINE s == acc.observations
           f == [i \in DOMAIN s |-> s[i].at]
<1>1. s \in Seq(Observations) /\ MaxTime \in Nat
  BY SummaryAssumption DEF Accs, AccRecords, ObservationLists
<1> HIDE DEF s
<1>2. Len(s) \in Int /\ DOMAIN s = 1 .. Len(s) /\ \A i \in DOMAIN s : s[i] \in Observations
  BY <1>1
<1>3. \A i \in DOMAIN s : s[i].at \in Times
  BY <1>2 DEF Observations
<1>4. IsFiniteSet(DOMAIN s)
  BY <1>2, FS_Interval
<1>5. {o.at : o \in Range(s)} = {f[i] : i \in DOMAIN s}
  BY DEF Range
<1> HIDE DEF f
<1>6. IsFiniteSet({f[i] : i \in DOMAIN s})
  BY <1>4, FiniteImage
<1>7. \A t \in {o.at : o \in Range(s)} : t \in Times /\ t \in Int
  BY <1>1, <1>3 DEF Range, Times
<1> QED BY <1>5, <1>6, <1>7 DEF s

\* Every variable has its type, and every observation falls into one of the five
\* parts of the time they span.
THEOREM SummariesTypeCorrect == Spec => []TypeOK
<1>1. SumInv => TypeOK
  <2> SUFFICES ASSUME SumInv PROVE TypeOK
    OBVIOUS
  <2>1. Types /\ report = IF status = "done" THEN Printed ELSE NoReport
    BY DEF SumInv
  <2>2. acc \in Accs /\ acc \in AccRecords
    BY <2>1 DEF Types, Accs
  <2>3. Range(acc.ages) \subseteq 0 .. MaxAge /\ acc.both <= acc.eligible
    <3>1. acc.ages \in Seq(0 .. MaxAge)
      BY <2>2 DEF AccRecords, AgeLists
    <3>2. \A i \in DOMAIN acc.ages : acc.ages[i] \in 0 .. MaxAge
      BY ONLY <3>1, LenProperties, ElementOfSeq
    <3>3. acc.both <= acc.eligible
      BY <2>2 DEF Accs
    <3> QED BY <3>2, <3>3 DEF Range
  <2>4. report.printed <=> status = "done"
    BY <2>1 DEF Printed, NoReport
  <2> DEFINE times == {o.at : o \in Range(acc.observations)}
  <2>5. \A t \in times : Split(Min(times), Max(times), t) \in 0 .. 4
    <3>1. IsFiniteSet(times) /\ \A t \in times : t \in Int
      BY <2>2, ObservationTimes
    <3> HIDE DEF times
    <3> SUFFICES ASSUME NEW t \in times PROVE Split(Min(times), Max(times), t) \in 0 .. 4
      OBVIOUS
    <3>2. Min(times) \in times /\ Min(times) <= t /\ Max(times) \in times
      BY <3>1, MinIsElement, MaxIsElement
    <3>3. Min(times) \in Int /\ Max(times) \in Int /\ t \in Int
      BY <3>1, <3>2
    <3> QED BY <3>2, <3>3, SplitIs
  <2> QED BY <2>1, <2>3, <2>4, <2>5 DEF Types, TypeOK
<1> QED BY <1>1, SumInvHolds, PTL

-----------------------------------------------------------------------------
(* Stable sorts.                                                           *)

\* The numbers i and j of two elements: i before j in a stable sort by the keys k.
SortedBy(S, k) == {p \in S \X S : k[p[1]] < k[p[2]] \/ (k[p[1]] = k[p[2]] /\ p[1] < p[2])}

\* A stable sort by integer keys follows a strict order.
LEMMA ByKeyInOrder ==
  ASSUME NEW S, \A i \in S : i \in Int, NEW k, \A i \in S : k[i] \in Int
  PROVE  StrictOrder(S, SortedBy(S, k))
<1> DEFINE R == SortedBy(S, k)
<1>1. \A i, j \in S : <<i, j>> \in R <=> (k[i] < k[j] \/ (k[i] = k[j] /\ i < j))
  BY DEF SortedBy
<1> HIDE DEF R
<1>2. \A m \in S : <<m, m>> \notin R
  BY <1>1
<1>3. \A l, m, q \in S : <<l, m>> \in R /\ <<m, q>> \in R => <<l, q>> \in R
  BY <1>1
<1>4. \A l, m \in S : l = m \/ <<l, m>> \in R \/ <<m, l>> \in R
  <2> SUFFICES ASSUME NEW l \in S, NEW m \in S PROVE l = m \/ <<l, m>> \in R \/ <<m, l>> \in R
    BY Zenon
  <2>1. l \in Int /\ m \in Int /\ k[l] \in Int /\ k[m] \in Int
    OBVIOUS
  <2> QED BY <1>1, <2>1
<1> QED BY <1>2, <1>3, <1>4 DEF StrictOrder, R

\* The sort by time lists every element once, times not decreasing.
LEMMA TimesInOrder ==
  ASSUME NEW s, NEW T, s \in Seq(T), \A x \in T : x.at \in Int
  PROVE  LET order == Order(s, LAMBDA o, p : o.at < p.at)
         IN /\ order \in [1 .. Len(s) -> 1 .. Len(s)]
            /\ \A i, j \in 1 .. Len(s) : i < j => s[order[i]].at <= s[order[j]].at
            /\ \A m \in 1 .. Len(s) : \E n \in 1 .. Len(s) : order[n] = m
<1> DEFINE S == DOMAIN s
           k == [i \in S |-> s[i].at]
           R == SortedBy(S, k)
           rank == [i \in S |-> Cardinality({j \in S : s[j].at < s[i].at \/ (~(s[i].at < s[j].at) /\ j < i)})]
           f == [n \in 1 .. Cardinality(S) |-> CHOOSE i \in S : rank[i] = n - 1]
<1>1. Order(s, LAMBDA o, p : o.at < p.at) = f
  BY DEF Order
<1>2. Len(s) \in Nat /\ S = 1 .. Len(s) /\ \A i \in S : s[i] \in T
  OBVIOUS
<1>3. \A i \in S : k[i] \in Int /\ i \in Int /\ k[i] = s[i].at
  BY <1>2
<1>4. IsFiniteSet(S) /\ Cardinality(S) = Len(s)
  <2>1. PICK n \in Nat : n = Len(s)
    BY <1>2
  <2>2. IsFiniteSet(1 .. n) /\ Cardinality(1 .. n) = IF 1 > n THEN 0 ELSE n - 1 + 1
    BY FS_Interval
  <2> QED BY <1>2, <2>1, <2>2
<1> HIDE DEF S, k
<1>5. StrictOrder(S, R)
  BY <1>3, ByKeyInOrder
<1>6. \A m \in S : rank[m] = Cardinality(BelowIn(S, R, m))
  <2> SUFFICES ASSUME NEW m \in S PROVE rank[m] = Cardinality(BelowIn(S, R, m))
    OBVIOUS
  <2>1. rank[m] = Cardinality({j \in S : s[j].at < s[m].at \/ (~(s[m].at < s[j].at) /\ j < m)})
    OBVIOUS
  <2>2. \A j \in S : (s[j].at < s[m].at \/ (~(s[m].at < s[j].at) /\ j < m)) <=> <<j, m>> \in R
    BY <1>3 DEF SortedBy
  <2>3. BelowIn(S, R, m) = {j \in S : s[j].at < s[m].at \/ (~(s[m].at < s[j].at) /\ j < m)}
    BY <2>2 DEF BelowIn
  <2> QED BY <2>1, <2>3
<1> HIDE DEF rank, R
<1>f. IsRanking(f, S, rank)
  BY DEF IsRanking
<1> HIDE DEF f
<1>7. /\ f \in [1 .. Cardinality(S) -> S]
      /\ \A i, j \in 1 .. Cardinality(S) : <<f[i], f[j]>> \in R <=> i < j
      /\ \A m \in S : \E n \in 1 .. Cardinality(S) : f[n] = m
  BY <1>4, <1>5, <1>6, <1>f, RankedIs
<1>8. \A i, j \in S : <<i, j>> \in R => s[i].at <= s[j].at
  BY <1>3 DEF R, SortedBy
<1>9. \A i, j \in 1 .. Len(s) : i < j => s[f[i]].at <= s[f[j]].at
  <2> SUFFICES ASSUME NEW i \in 1 .. Len(s), NEW j \in 1 .. Len(s), i < j
               PROVE  s[f[i]].at <= s[f[j]].at
    OBVIOUS
  <2>1. f[i] \in S /\ f[j] \in S /\ <<f[i], f[j]>> \in R
    BY <1>4, <1>7
  <2> QED BY <1>8, <2>1
<1>10. f \in [1 .. Len(s) -> 1 .. Len(s)]
  BY <1>2, <1>4, <1>7
<1> QED BY <1>1, <1>2, <1>4, <1>7, <1>9, <1>10

\* The observations in the order of time are the observations.
LEMMA ByTimeIs ==
  ASSUME NEW T, NEW s \in Seq(T), \A x \in T : x.at \in Int
  PROVE  /\ ByTime(s) \in Seq(T) /\ Len(ByTime(s)) = Len(s)
         /\ \A i, j \in 1 .. Len(s) : i < j => ByTime(s)[i].at <= ByTime(s)[j].at
         /\ \A n \in 1 .. Len(s) : \E m \in 1 .. Len(s) : ByTime(s)[n] = s[m]
         /\ \A m \in 1 .. Len(s) : \E n \in 1 .. Len(s) : ByTime(s)[n] = s[m]
<1> DEFINE order == Order(s, LAMBDA o, p : o.at < p.at)
<1>1. /\ order \in [1 .. Len(s) -> 1 .. Len(s)]
      /\ \A i, j \in 1 .. Len(s) : i < j => s[order[i]].at <= s[order[j]].at
      /\ \A m \in 1 .. Len(s) : \E n \in 1 .. Len(s) : order[n] = m
  BY TimesInOrder
<1>2. ByTime(s) = [n \in DOMAIN order |-> s[order[n]]]
  BY DEF ByTime
<1> HIDE DEF order
<1>3. ByTime(s) = [n \in 1 .. Len(s) |-> s[order[n]]]
  BY <1>1, <1>2
<1>4. Len(s) \in Nat /\ \A m \in 1 .. Len(s) : s[m] \in T
  OBVIOUS
<1>5. ByTime(s) \in Seq(T) /\ Len(ByTime(s)) = Len(s)
  <2>1. ByTime(s) \in [1 .. Len(s) -> T]
    BY <1>1, <1>3, <1>4
  <2> QED BY <1>4, <2>1
<1>6. \A n \in 1 .. Len(s) : ByTime(s)[n] = s[order[n]] /\ order[n] \in 1 .. Len(s)
  BY <1>1, <1>3
<1> HIDE DEF order
<1>7. \A i, j \in 1 .. Len(s) : i < j => ByTime(s)[i].at <= ByTime(s)[j].at
  BY <1>1, <1>6
<1> QED BY <1>1, <1>5, <1>6, <1>7

-----------------------------------------------------------------------------
(* The selection.                                                          *)

\* What is selected depends on the training and the validation slices.
LEMMA SelectionLooksAt ==
  ASSUME NEW first, NEW last, NEW H, NEW E,
         \A c \in 1 .. Candidates, part \in {"train", "validation"} :
            SlicesOf(H[c], first, last)[part] = SlicesOf(E[c], first, last)[part]
  PROVE  SelectCandidate(H, first, last).candidate = SelectCandidate(E, first, last).candidate
<1> DEFINE h == [c \in 1 .. Candidates |-> SlicesOf(H[c], first, last)]
           e == [c \in 1 .. Candidates |-> SlicesOf(E[c], first, last)]
           Qualified(s) == {c \in 1 .. Candidates : Qualifies(s[c])}
           Best_(s) == {c \in Qualified(s) : \A d \in Qualified(s) : AtLeastAsGood(s[c], s[d])}
           Selected(s) == IF Qualified(s) = {} THEN 0 ELSE Max(Best_(s))
<1>1. SelectCandidate(H, first, last).candidate = Selected(h)
  BY DEF SelectCandidate, NoCandidate
<1>2. SelectCandidate(E, first, last).candidate = Selected(e)
  BY DEF SelectCandidate, NoCandidate
<1>3. \A c \in 1 .. Candidates : h[c]["train"] = e[c]["train"] /\ h[c]["validation"] = e[c]["validation"]
  OBVIOUS
<1> HIDE DEF h, e
<1>4. Qualified(h) = Qualified(e)
  BY <1>3 DEF Qualifies
<1>5. Best_(h) = Best_(e)
  <2>1. \A c, d \in 1 .. Candidates : AtLeastAsGood(h[c], h[d]) <=> AtLeastAsGood(e[c], e[d])
    BY <1>3 DEF AtLeastAsGood
  <2> QED BY <1>4, <2>1
<1>6. Selected(h) = Selected(e)
  <2> HIDE DEF Qualified, Best_
  <2> QED BY <1>4, <1>5
<1> QED BY <1>1, <1>2, <1>6

\* The training and the validation slice have nothing of the last fifth.
LEMMA EarlierParts ==
  ASSUME NEW first \in Int, NEW last \in Int, NEW hits, \A i \in DOMAIN hits : hits[i].at \in Int,
         NEW part \in {"train", "validation"}
  PROVE  HitsIn(Restrict(hits, {i \in DOMAIN hits : Split(first, last, hits[i].at) < 4}),
                part, first, last) = HitsIn(hits, part, first, last)
<1> DEFINE D == {i \in DOMAIN hits : Split(first, last, hits[i].at) < 4}
           earlier == Restrict(hits, D)
           P == {i \in DOMAIN hits : InPart(part, Split(first, last, hits[i].at))}
           Q == {i \in DOMAIN earlier : InPart(part, Split(first, last, earlier[i].at))}
<1>1. \A i \in DOMAIN hits : InPart(part, Split(first, last, hits[i].at)) => Split(first, last, hits[i].at) < 4
  <2> SUFFICES ASSUME NEW i \in DOMAIN hits, InPart(part, Split(first, last, hits[i].at))
               PROVE  Split(first, last, hits[i].at) < 4
    OBVIOUS
  <2> DEFINE fifth == Split(first, last, hits[i].at)
  <2>1. fifth \in Int
    BY SplitIs
  <2>2. fifth < 3 \/ fifth = 3
    BY DEF InPart
  <2> HIDE DEF fifth
  <2>3. fifth < 4
    BY <2>1, <2>2
  <2> QED BY <2>3 DEF fifth
<1>2. DOMAIN earlier = D /\ \A i \in D : earlier[i] = hits[i]
  BY DEF Restrict
<1> HIDE DEF earlier
<1>3. P = Q
  BY <1>1, <1>2
<1>4. P \subseteq D
  BY <1>1
<1> HIDE DEF D
<1>5. HitsIn(hits, part, first, last) = [i \in P |-> hits[i]]
  BY DEF HitsIn, Restrict
<1>6. HitsIn(earlier, part, first, last) = [i \in Q |-> earlier[i]]
  BY DEF HitsIn, Restrict
<1> HIDE DEF P, Q
<1>7. [i \in P |-> hits[i]] = [i \in Q |-> earlier[i]]
  BY <1>2, <1>3, <1>4
<1> QED BY <1>5, <1>6, <1>7 DEF earlier, D

\* The holdout is not touched by the selection (select_candidate): had nothing been
\* hit in the last fifth of the time, the same candidate would have been selected.
THEOREM HoldoutStaysUntouched == Spec => []HoldoutIsUntouched
<1>1. SumInv => HoldoutIsUntouched
  <2> SUFFICES ASSUME SumInv, Done("replay"), CoverageBps >= MinCoverage, acc.observations # <<>>
               PROVE  LET observations == ByTime(acc.observations)
                          first == Head(observations).at
                          last == Last(observations).at
                          hits == [c \in 1 .. Candidates |-> Hits(c, observations)]
                          Earlier(c) == Restrict(hits[c], {i \in DOMAIN hits[c] :
                                                              Split(first, last, hits[c][i].at) < 4})
                      IN report.selected.candidate =
                           SelectCandidate([c \in 1 .. Candidates |-> Earlier(c)], first, last).candidate
    BY DEF HoldoutIsUntouched
  <2> DEFINE observations == ByTime(acc.observations)
             first == Head(observations).at
             last == Last(observations).at
             hits == [c \in 1 .. Candidates |-> Hits(c, observations)]
             Earlier(c) == Restrict(hits[c], {i \in DOMAIN hits[c] :
                                                 Split(first, last, hits[c][i].at) < 4})
             earlier == [c \in 1 .. Candidates |-> Earlier(c)]
  <2>1. acc \in AccRecords /\ status = "done" /\ command = "replay" /\ report = Printed
    BY DEF SumInv, Types, Accs, Done
  <2>2. report.selected = Replayed
    BY <2>1 DEF Printed
  <2>3. acc.observations \in Seq(Observations) /\ \A o \in Observations : o.at \in Int
    <3>1. MaxTime \in Nat
      BY SummaryAssumption
    <3> QED BY <2>1, <3>1 DEF AccRecords, ObservationLists, Observations, Times
  <2>4. observations \in Seq(Observations) /\ observations # <<>>
    <3>1. observations \in Seq(Observations) /\ Len(observations) = Len(acc.observations)
      BY <2>3, ByTimeIs
    <3>2. Len(acc.observations) # 0
      BY <2>3
    <3> QED BY <3>1, <3>2
  <2>5. CoverageBps \in Int /\ MinCoverage \in Int
    <3>1. acc.eligible \in Nat /\ acc.both \in Nat
      BY <2>1 DEF AccRecords
    <3> QED BY <3>1, ReportAssumption DEF CoverageBps
  <2>6. Replayed = SelectCandidate(hits, first, last)
    <3>1. ~(CoverageBps < MinCoverage)
      BY <2>5
    <3> QED BY <2>4, <3>1 DEF Replayed
  <2> HIDE DEF observations
  <2>7. first \in Int /\ last \in Int
    <3>1. Len(observations) \in 1 .. Len(observations) /\ 1 \in 1 .. Len(observations)
      BY <2>4
    <3>2. observations[1] \in Observations /\ observations[Len(observations)] \in Observations
      BY <2>4, <3>1
    <3> QED BY <2>3, <2>4, <3>2 DEF Last
  <2>8. \A c \in 1 .. Candidates : \A i \in DOMAIN hits[c] : hits[c][i].at \in Int
    <3> SUFFICES ASSUME NEW c \in 1 .. Candidates, NEW i \in DOMAIN hits[c] PROVE hits[c][i].at \in Int
      OBVIOUS
    <3>1. hits[c] = Hits(c, observations)
      OBVIOUS
    <3>2. i \in DOMAIN observations /\ hits[c][i].at = observations[i].at
      BY <3>1 DEF Hits
    <3>3. observations[i] \in Observations
      BY <2>4, <3>2
    <3> QED BY <2>3, <3>2, <3>3
  <2> HIDE DEF first, last, hits
  <2>9. \A c \in 1 .. Candidates, part \in {"train", "validation"} :
          SlicesOf(hits[c], first, last)[part] = SlicesOf(earlier[c], first, last)[part]
    <3> SUFFICES ASSUME NEW c \in 1 .. Candidates, NEW part \in {"train", "validation"}
                 PROVE  SlicesOf(hits[c], first, last)[part] = SlicesOf(earlier[c], first, last)[part]
      OBVIOUS
    <3>1. earlier[c] = Restrict(hits[c], {i \in DOMAIN hits[c] : Split(first, last, hits[c][i].at) < 4})
      OBVIOUS
    <3>2. \A i \in DOMAIN hits[c] : hits[c][i].at \in Int
      BY <2>8
    <3> HIDE DEF earlier
    <3>3. HitsIn(earlier[c], part, first, last) = HitsIn(hits[c], part, first, last)
      BY <2>7, <3>1, <3>2, EarlierParts
    <3>4. part \in Parts
      BY DEF Parts
    <3> QED BY <3>3, <3>4 DEF SlicesOf
  <2> HIDE DEF earlier
  <2>10. SelectCandidate(hits, first, last).candidate = SelectCandidate(earlier, first, last).candidate
    BY <2>9, SelectionLooksAt
  <2> QED BY <2>2, <2>6, <2>10 DEF earlier, hits, first, last, observations
<1> QED BY <1>1, SumInvHolds, PTL

-----------------------------------------------------------------------------
(***************************************************************************)
(* What the record should say of the first n decisions.  A view is a       *)
(* decision with the snapshots that precede it for each leg, and v lists   *)
(* the views of the decisions there were when the summary began.           *)
(***************************************************************************)
EligibleIn(v, n) == {i \in 1 .. n : v[i].row.market # 0}
LegsOf(v, i) == {leg \in {1, 2} : v[i].near[leg] # {}}
CoveringIn(v, n, k) == {i \in EligibleIn(v, n) : Cardinality(LegsOf(v, i)) = k}
LegsIn(v, n) == {x \in EligibleIn(v, n) \X {1, 2} : v[x[1]].near[x[2]] # {}}
AgesIn(v, x) == {v[x[1]].row.at - s.at : s \in v[x[1]].near[x[2]]}

\* The ages in a list are those of the legs in S, one each.
Pairs(ages, S, v) ==
    \E b \in Bijection(DOMAIN ages, S) : \A k \in DOMAIN ages : ages[k] \in AgesIn(v, b[k])

Counted(a, n, v) ==
    /\ a.decisions = n
    /\ a.eligible = Cardinality(EligibleIn(v, n))
    /\ a.legacy = n - Cardinality(EligibleIn(v, n))
    /\ a.both = Cardinality(CoveringIn(v, n, 2))
    /\ a.one = Cardinality(CoveringIn(v, n, 1))
    /\ a.none = Cardinality(CoveringIn(v, n, 0))
    /\ Pairs(a.ages, LegsIn(v, n), v)

NewestIn(v, i, leg) == CHOOSE s \in v[i].near[leg] : TRUE
KeyOf(v, i) == SampleKey(v[i].row, NewestIn(v, i, 1), NewestIn(v, i, 2))
FirstIn(v, n) ==
    {i \in CoveringIn(v, n, 2) : /\ Usable(NewestIn(v, i, 1), NewestIn(v, i, 2))
                                 /\ \A j \in CoveringIn(v, n, 2) :
                                        KeyOf(v, j) = KeyOf(v, i) => i <= j}

Observed(o, v, i) ==
    /\ o.market = v[i].row.market /\ o.at = v[i].row.at
    /\ o.a = NewestIn(v, i, 1) /\ o.b = NewestIn(v, i, 2)

Collected(a, n, v) ==
    /\ a.eligible = Cardinality(EligibleIn(v, n))
    /\ a.both = Cardinality(CoveringIn(v, n, 2))
    /\ a.seen = {KeyOf(v, i) : i \in CoveringIn(v, n, 2)}
    /\ Len(a.observations) = Cardinality(FirstIn(v, n))
    /\ \A i \in FirstIn(v, n) :
          \E k \in DOMAIN a.observations : Observed(a.observations[k], v, i)

\* The next number makes a set of the first n numbers larger by one.
LEMMA NextCounts ==
  ASSUME NEW n \in Nat, NEW S, S \subseteq 1 .. n
  PROVE  Cardinality(S) \in Nat /\ Cardinality(S \union {n + 1}) = Cardinality(S) + 1
<1>1. IsFiniteSet(S) /\ n + 1 \notin S
  <2>1. IsFiniteSet(1 .. n)
    BY FS_Interval
  <2>2. IsFiniteSet(S)
    BY <2>1, FS_Subset
  <2> QED BY <2>2
<1>2. Cardinality(S) \in Nat
  BY <1>1, FS_CardinalityType
<1>3. Cardinality(S \union {n + 1}) = Cardinality(S) + 1
  BY <1>1, FS_AddElement
<1> QED BY <1>2, <1>3

\* The eligible and the covered decisions up to the next one.
LEMMA NextView ==
  ASSUME NEW n \in Nat, NEW v, NEW k
  PROVE  /\ EligibleIn(v, n) \subseteq 1 .. n /\ CoveringIn(v, n, k) \subseteq 1 .. n
         /\ EligibleIn(v, n + 1) = IF v[n + 1].row.market # 0 THEN EligibleIn(v, n) \union {n + 1}
                                                             ELSE EligibleIn(v, n)
         /\ CoveringIn(v, n + 1, k) =
              IF v[n + 1].row.market # 0 /\ Cardinality(LegsOf(v, n + 1)) = k
              THEN CoveringIn(v, n, k) \union {n + 1} ELSE CoveringIn(v, n, k)
<1>1. 1 .. (n + 1) = (1 .. n) \union {n + 1}
  OBVIOUS
<1>2. EligibleIn(v, n) \subseteq 1 .. n /\ CoveringIn(v, n, k) \subseteq 1 .. n
  BY DEF EligibleIn, CoveringIn
<1>3. EligibleIn(v, n + 1) = IF v[n + 1].row.market # 0 THEN EligibleIn(v, n) \union {n + 1}
                                                        ELSE EligibleIn(v, n)
  BY <1>1 DEF EligibleIn
<1>4. CoveringIn(v, n + 1, k) =
        IF v[n + 1].row.market # 0 /\ Cardinality(LegsOf(v, n + 1)) = k
        THEN CoveringIn(v, n, k) \union {n + 1} ELSE CoveringIn(v, n, k)
  BY <1>3 DEF CoveringIn
<1> QED BY <1>2, <1>3, <1>4

\* One age more, of one leg more.
LEMMA PairsGrow ==
  ASSUME NEW v, NEW s \in Seq(Int), NEW S, Pairs(s, S, v), NEW x, x \notin S,
         NEW age \in Int, age \in AgesIn(v, x)
  PROVE  Pairs(Append(s, age), S \union {x}, v)
<1> DEFINE n == Len(s)
           t == Append(s, age)
<1>1. n \in Nat /\ DOMAIN s = 1 .. n
  OBVIOUS
<1>2. /\ t \in Seq(Int) /\ DOMAIN t = 1 .. (n + 1) /\ t[n + 1] = age
      /\ \A k \in 1 .. n : t[k] = s[k]
  BY AppendProperties
<1>3. PICK b \in Bijection(1 .. n, S) : \A k \in 1 .. n : s[k] \in AgesIn(v, b[k])
  BY <1>1 DEF Pairs
<1>4. /\ b \in [1 .. n -> S]
      /\ \A i, j \in 1 .. n : b[i] = b[j] => i = j
      /\ \A y \in S : \E i \in 1 .. n : b[i] = y
  BY <1>3 DEF Bijection, Injection, Surjection, IsInjective
<1> HIDE DEF n, t
<1> DEFINE c == [k \in 1 .. (n + 1) |-> IF k = n + 1 THEN x ELSE b[k]]
           T == S \union {x}
<1>5. \A k \in 1 .. (n + 1) : k = n + 1 \/ k \in 1 .. n
  BY <1>1
<1>6. \A k \in 1 .. n : k \in 1 .. (n + 1) /\ k # n + 1
  BY <1>1
<1>7. n + 1 \in 1 .. (n + 1)
  BY <1>1
<1>8. c[n + 1] = x /\ \A k \in 1 .. n : c[k] = b[k] /\ b[k] \in S
  BY <1>4, <1>6, <1>7
<1>9. c \in [1 .. (n + 1) -> T]
  BY <1>4, <1>5
<1> HIDE DEF c
<1>10. c \in Bijection(1 .. (n + 1), T)
  <2>1. \A i, j \in 1 .. (n + 1) : c[i] = c[j] => i = j
    BY <1>4, <1>5, <1>8
  <2>2. \A y \in T : \E i \in 1 .. (n + 1) : c[i] = y
    BY <1>4, <1>6, <1>7, <1>8
  <2> HIDE DEF T
  <2> QED BY <1>9, <2>1, <2>2 DEF Bijection, Injection, Surjection, IsInjective
<1>11. \A k \in DOMAIN t : t[k] \in AgesIn(v, c[k])
  BY <1>2, <1>3, <1>5, <1>8
<1> QED BY <1>2, <1>10, <1>11 DEF Pairs, t

\* The ages of a leg that has one or none.
LEMMA PairsOfLeg ==
  ASSUME NEW v, NEW s \in Seq(Int), NEW S, Pairs(s, S, v), NEW x, x \notin S,
         NEW ages, ages = AgesIn(v, x),
         \/ ages = {}
         \/ \E n \in Int : ages = {n}
  PROVE  /\ s \o SetToSeq(ages) \in Seq(Int)
         /\ Pairs(s \o SetToSeq(ages), IF ages = {} THEN S ELSE S \union {x}, v)
<1>1. CASE ages = {}
  <2>1. SetToSeq(ages) = <<>>
    BY <1>1, ShortLists
  <2>2. s \o <<>> = s
    OBVIOUS
  <2> QED BY <1>1, <2>1, <2>2
<1>2. ASSUME NEW n \in Int, ages = {n}
      PROVE  /\ s \o SetToSeq(ages) \in Seq(Int)
             /\ Pairs(s \o SetToSeq(ages), IF ages = {} THEN S ELSE S \union {x}, v)
  <2>1. SetToSeq(ages) = <<n>>
    BY <1>2, ShortLists
  <2>2. s \o <<n>> = Append(s, n) /\ Append(s, n) \in Seq(Int)
    OBVIOUS
  <2>3. Pairs(Append(s, n), S \union {x}, v)
    BY <1>2, PairsGrow
  <2> QED BY <1>2, <2>1, <2>2, <2>3
<1> QED BY <1>1, <1>2

-----------------------------------------------------------------------------
(* A turn of a loop, and what it adds.                                     *)

\* The snapshots a batch has for a decision are all there are.
Seen(row, snapshots, w) ==
    /\ w.row = row
    /\ row.market # 0 =>
         \A leg \in {1, 2} : Preceding(snapshots, <<row.market, leg>>, row.at) = w.near[leg]

\* The covering of the next decision, and of the legs.
LEMMA LegsOfNext ==
  ASSUME NEW n, NEW v, NEW row \in Decisions, NEW snapshots \in SUBSET Snapshots,
         Seen(row, snapshots, v[n]), row.market # 0
  PROVE  /\ \A leg \in {1, 2} : LegAge(row, leg, snapshots) = AgesIn(v, <<n, leg>>)
         /\ \A leg \in {1, 2} : LegAge(row, leg, snapshots) # {} <=> v[n].near[leg] # {}
<1>1. \A leg \in {1, 2} : Preceding(snapshots, <<row.market, leg>>, row.at) = v[n].near[leg]
  BY DEF Seen
<1>2. row = v[n].row
  BY DEF Seen
<1> SUFFICES ASSUME NEW leg \in {1, 2}
             PROVE  /\ LegAge(row, leg, snapshots) = AgesIn(v, <<n, leg>>)
                    /\ LegAge(row, leg, snapshots) # {} <=> v[n].near[leg] # {}
  OBVIOUS
<1> DEFINE near == v[n].near[leg]
<1>3. Preceding(snapshots, <<row.market, leg>>, row.at) = near
  BY <1>1
<1>4. LegAge(row, leg, snapshots) = {row.at - s.at : s \in near}
  BY <1>3 DEF LegAge
<1>5. AgesIn(v, <<n, leg>>) = {row.at - s.at : s \in near}
  BY <1>2 DEF AgesIn
<1> HIDE DEF near
<1>6. LegAge(row, leg, snapshots) # {} <=> near # {}
  BY <1>4
<1> QED BY <1>4, <1>5, <1>6 DEF near

\* The calibration summary counts every decision, and keeps the age of every covered leg.
LEMMA ObserveCounts ==
  ASSUME NEW n \in Nat, NEW v, NEW a \in Accs, NEW row \in Decisions,
         NEW snapshots \in SUBSET Snapshots, Seen(row, snapshots, v[n + 1]), Counted(a, n, v)
  PROVE  Counted(Observe(a, row, snapshots), n + 1, v)
<1> DEFINE E(m) == EligibleIn(v, m)
           C(m, k) == CoveringIn(v, m, k)
           r == Observe(a, row, snapshots)
<1>0. a \in AccRecords
  BY DEF Accs
<1>1. /\ Cardinality(E(n)) \in Nat /\ Cardinality(E(n) \union {n + 1}) = Cardinality(E(n)) + 1
      /\ \A k \in {0, 1, 2} : /\ Cardinality(C(n, k)) \in Nat
                              /\ Cardinality(C(n, k) \union {n + 1}) = Cardinality(C(n, k)) + 1
  <2>1. E(n) \subseteq 1 .. n /\ \A k \in {0, 1, 2} : C(n, k) \subseteq 1 .. n
    BY NextView
  <2> HIDE DEF E, C
  <2> QED BY <2>1, NextCounts
<1>2. v[n + 1].row = row
  BY DEF Seen
<1>3. /\ a.decisions = n /\ a.eligible = Cardinality(E(n)) /\ a.legacy = n - Cardinality(E(n))
      /\ a.both = Cardinality(C(n, 2)) /\ a.one = Cardinality(C(n, 1))
      /\ a.none = Cardinality(C(n, 0)) /\ Pairs(a.ages, LegsIn(v, n), v)
  BY DEF Counted
<1> HIDE DEF r
<1> DEFINE Good == /\ r.decisions = n + 1 /\ r.eligible = Cardinality(E(n + 1))
                   /\ r.legacy = (n + 1) - Cardinality(E(n + 1))
                   /\ r.both = Cardinality(C(n + 1, 2)) /\ r.one = Cardinality(C(n + 1, 1))
                   /\ r.none = Cardinality(C(n + 1, 0)) /\ Pairs(r.ages, LegsIn(v, n + 1), v)
<1>4. ASSUME row.market = 0 PROVE Good
  <2>1. r = [a EXCEPT !.decisions = @ + 1, !.legacy = @ + 1]
    BY <1>4, ObserveIs DEF r
  <2>2. E(n + 1) = E(n) /\ \A k \in {0, 1, 2} : C(n + 1, k) = C(n, k)
    BY <1>2, <1>4, NextView
  <2>3. LegsIn(v, n + 1) = LegsIn(v, n)
    BY <2>2 DEF LegsIn
  <2>4. /\ r.decisions = a.decisions + 1 /\ r.legacy = a.legacy + 1 /\ r.eligible = a.eligible
        /\ r.both = a.both /\ r.one = a.one /\ r.none = a.none /\ r.ages = a.ages
    BY <1>0, <2>1 DEF AccRecords
  <2> HIDE DEF r, E, C
  <2> QED BY <1>1, <1>3, <2>2, <2>3, <2>4
<1>5. ASSUME row.market # 0 PROVE Good
  <2> DEFINE ages == [leg \in {1, 2} |-> LegAge(row, leg, snapshots)]
             covered == Cardinality({leg \in {1, 2} : ages[leg] # {}})
             new(leg) == <<n + 1, leg>>
             L0 == LegsIn(v, n)
             L1 == IF ages[1] = {} THEN L0 ELSE L0 \union {new(1)}
             L2 == IF ages[2] = {} THEN L1 ELSE L1 \union {new(2)}
  <2>1. \A leg \in {1, 2} : /\ ages[leg] = AgesIn(v, new(leg))
                            /\ ages[leg] # {} <=> v[n + 1].near[leg] # {}
    <3> SUFFICES ASSUME NEW leg \in {1, 2}
                 PROVE  /\ ages[leg] = AgesIn(v, new(leg))
                        /\ ages[leg] # {} <=> v[n + 1].near[leg] # {}
      OBVIOUS
    <3>1. ages[leg] = LegAge(row, leg, snapshots)
      OBVIOUS
    <3> DEFINE m == n + 1
    <3>2. Seen(row, snapshots, v[m])
      OBVIOUS
    <3> HIDE DEF ages, m
    <3>3. /\ LegAge(row, leg, snapshots) = AgesIn(v, <<m, leg>>)
          /\ LegAge(row, leg, snapshots) # {} <=> v[m].near[leg] # {}
      <4>1. \A l \in {1, 2} : LegAge(row, l, snapshots) = AgesIn(v, <<m, l>>)
        BY ONLY <1>5, <3>2, row \in Decisions, snapshots \in SUBSET Snapshots, LegsOfNext
      <4>2. \A l \in {1, 2} : LegAge(row, l, snapshots) # {} <=> v[m].near[l] # {}
        BY ONLY <1>5, <3>2, row \in Decisions, snapshots \in SUBSET Snapshots, LegsOfNext
      <4> QED BY <4>1, <4>2
    <3> QED BY <3>1, <3>3 DEF m
  <2>2. covered = Cardinality(LegsOf(v, n + 1))
    <3>1. {leg \in {1, 2} : ages[leg] # {}} = LegsOf(v, n + 1)
      <4> HIDE DEF ages
      <4> QED BY <2>1 DEF LegsOf
    <3> QED BY <3>1
  <2>3. /\ E(n + 1) = E(n) \union {n + 1}
        /\ \A k \in {0, 1, 2} : C(n + 1, k) = IF covered = k THEN C(n, k) \union {n + 1} ELSE C(n, k)
    BY <1>2, <1>5, <2>2, NextView
  <2>4. r = [a EXCEPT !.decisions = @ + 1, !.eligible = @ + 1,
                      !.both = IF covered = 2 THEN @ + 1 ELSE @,
                      !.one = IF covered = 1 THEN @ + 1 ELSE @,
                      !.none = IF covered = 0 THEN @ + 1 ELSE @,
                      !.ages = @ \o SetToSeq(ages[1]) \o SetToSeq(ages[2])]
    <3>1. r = ObservedRow(a, row, snapshots)
      BY <1>5, ObserveIs DEF r
    <3> QED BY <3>1 DEF ObservedRow
  <2>5. \A leg \in {1, 2} : ages[leg] = {} \/ \E x \in Int : ages[leg] = {x}
    <3>1. ASSUME NEW leg \in {1, 2}
          PROVE  LegAge(row, leg, snapshots) = {} \/ \E x \in Int : LegAge(row, leg, snapshots) = {x}
      <4>1. \A x \in 0 .. MaxAge : x \in Int
        BY SummaryAssumption
      <4> QED BY <4>1, LegAgeIs
    <3> QED BY <3>1
  <2>6. new(1) \notin L0 /\ new(2) \notin L1
    <3>1. \A leg \in {1, 2} : new(leg) \notin L0
      <4>1. n + 1 \notin E(n)
        BY DEF EligibleIn
      <4> QED BY <4>1 DEF LegsIn
    <3>2. new(1) # new(2)
      OBVIOUS
    <3> HIDE DEF new, ages, L0
    <3> QED BY <3>1, <3>2
  <2>7. LegsIn(v, n + 1) = L2
    <3>1. \A x \in LegsIn(v, n + 1) : x \in L2
      <4> SUFFICES ASSUME NEW x \in LegsIn(v, n + 1) PROVE x \in L2
        OBVIOUS
      <4>0. PICK i \in E(n + 1), leg \in {1, 2} : x = <<i, leg>> /\ v[i].near[leg] # {}
        BY DEF LegsIn
      <4>1. CASE i \in E(n)
        <5>1. x \in L0
          BY <4>0, <4>1 DEF LegsIn
        <5> HIDE DEF L0, ages, new
        <5> QED BY <5>1
      <4>2. CASE i = n + 1
        <5>1. ages[leg] # {} /\ x = new(leg)
          BY <2>1, <4>0, <4>2
        <5> HIDE DEF L0, ages, new
        <5> QED BY <5>1
      <4> QED BY <2>3, <4>1, <4>2
    <3>2. \A x \in L2 : x \in LegsIn(v, n + 1)
      <4>1. L0 \subseteq LegsIn(v, n + 1)
        BY <2>3 DEF LegsIn
      <4>2. \A leg \in {1, 2} : ages[leg] # {} => new(leg) \in LegsIn(v, n + 1)
        <5> SUFFICES ASSUME NEW leg \in {1, 2}, ages[leg] # {} PROVE new(leg) \in LegsIn(v, n + 1)
          OBVIOUS
        <5>1. v[n + 1].near[leg] # {} /\ n + 1 \in E(n + 1)
          BY <2>1, <2>3
        <5> QED BY <5>1 DEF LegsIn
      <4> HIDE DEF L0, ages, new
      <4> QED BY <4>1, <4>2
    <3> QED BY <3>1, <3>2
  <2> HIDE DEF ages, covered, L0
  <2>8. a.ages \in Seq(Int) /\ Pairs(a.ages, L0, v)
    <3>1. a.ages \in Seq(0 .. MaxAge) /\ MaxAge \in Nat
      BY <1>0, SummaryAssumption DEF AccRecords, AgeLists
    <3>2. a.ages \in Seq(Int)
      BY <3>1
    <3> QED BY <3>2 DEF Counted, L0
  <2>9. /\ a.ages \o SetToSeq(ages[1]) \in Seq(Int)
        /\ Pairs(a.ages \o SetToSeq(ages[1]), L1, v)
    <3> HIDE DEF new
    <3> QED BY <2>1, <2>5, <2>6, <2>8, PairsOfLeg
  <2>10. Pairs(a.ages \o SetToSeq(ages[1]) \o SetToSeq(ages[2]), L2, v)
    <3> HIDE DEF new, L1
    <3> QED BY <2>1, <2>5, <2>6, <2>9, PairsOfLeg
  <2>11. /\ r.decisions = a.decisions + 1 /\ r.legacy = a.legacy /\ r.eligible = a.eligible + 1
         /\ r.both = (IF covered = 2 THEN a.both + 1 ELSE a.both)
         /\ r.one = (IF covered = 1 THEN a.one + 1 ELSE a.one)
         /\ r.none = (IF covered = 0 THEN a.none + 1 ELSE a.none)
         /\ r.ages = a.ages \o SetToSeq(ages[1]) \o SetToSeq(ages[2])
    BY <1>0, <2>4 DEF AccRecords
  <2> HIDE DEF r, L2, E, C
  <2>12. r.legacy = (n + 1) - Cardinality(E(n + 1)) /\ r.decisions = n + 1
         /\ r.eligible = Cardinality(E(n + 1))
    <3>1. Cardinality(E(n + 1)) = Cardinality(E(n)) + 1 /\ Cardinality(E(n)) \in Nat
      BY <1>1, <2>3
    <3> QED BY ONLY n \in Nat, <1>3, <2>11, <3>1
  <2>13. /\ r.both = Cardinality(C(n + 1, 2)) /\ r.one = Cardinality(C(n + 1, 1))
         /\ r.none = Cardinality(C(n + 1, 0))
    BY <1>1, <1>3, <2>3, <2>11
  <2> QED BY <2>7, <2>10, <2>11, <2>12, <2>13
<1>6. Good
  BY <1>4, <1>5
<1> QED BY <1>6 DEF Counted, r

\* A decision is covered if it has a snapshot of each leg.
LEMMA TwoLegs ==
  ASSUME NEW v, NEW m
  PROVE  Cardinality(LegsOf(v, m)) = 2 <=> \A leg \in {1, 2} : v[m].near[leg] # {}
<1>1. IsFiniteSet({1, 2}) /\ Cardinality({1, 2}) = 2
  <2>1. IsFiniteSet({1}) /\ Cardinality({1}) = 1 /\ {1, 2} = {1} \union {2} /\ 2 \notin {1}
    BY FS_Singleton
  <2> QED BY <2>1, FS_AddElement
<1>2. LegsOf(v, m) \subseteq {1, 2}
  BY DEF LegsOf
<1>3. Cardinality(LegsOf(v, m)) = 2 => LegsOf(v, m) = {1, 2}
  BY <1>1, <1>2, FS_Subset
<1>4. LegsOf(v, m) = {1, 2} <=> \A leg \in {1, 2} : v[m].near[leg] # {}
  BY DEF LegsOf
<1> QED BY <1>1, <1>3, <1>4

\* The pair of decision m is usable, and none of the first n saw it.
FreshPair(v, n, m) ==
    /\ Usable(NewestIn(v, m, 1), NewestIn(v, m, 2))
    /\ \A j \in CoveringIn(v, n, 2) : KeyOf(v, j) # KeyOf(v, m)

\* A covered decision more: it is one that comes first if its pair is usable and new.
LEMMA FirstNext ==
  ASSUME NEW n \in Nat, NEW v, NEW m, m = n + 1, CoveringIn(v, n, 2) \subseteq 1 .. n,
         CoveringIn(v, m, 2) = CoveringIn(v, n, 2) \union {m}
  PROVE  FirstIn(v, m) =
            IF FreshPair(v, n, m) THEN FirstIn(v, n) \union {m} ELSE FirstIn(v, n)
<1> DEFINE C == CoveringIn(v, n, 2)
           U(i) == Usable(NewestIn(v, i, 1), NewestIn(v, i, 2))
           K(i) == KeyOf(v, i)
           F == FirstIn(v, n)
           G == FirstIn(v, m)
           Fresh == U(m) /\ \A j \in C : K(j) # K(m)
<1>1. \A i : i \in F <=> i \in C /\ U(i) /\ \A j \in C : K(j) = K(i) => i <= j
  BY DEF FirstIn
<1>2. \A i : i \in G <=> i \in C \union {m} /\ U(i) /\ \A j \in C \union {m} : K(j) = K(i) => i <= j
  BY DEF FirstIn
<1>3. \A i \in C : i \in Int /\ i < m
  OBVIOUS
<1>4. m \in Int
  OBVIOUS
<1>5. m \notin C /\ m \notin F
  BY <1>1, <1>3, <1>4
<1> HIDE DEF C, U, K, F, G
<1>6. \A i \in C : i \in G <=> i \in F
  BY <1>1, <1>2, <1>3, <1>4
<1>7. m \in G <=> Fresh
  <2>1. ASSUME m \in G, NEW j \in C PROVE K(j) # K(m)
    BY <1>2, <1>3, <1>4, <2>1
  <2>2. Fresh => m \in G
    BY <1>2, <1>4
  <2>3. m \in G => U(m)
    BY <1>2
  <2> QED BY <2>1, <2>2, <2>3
<1>8. \A i : i \in G <=> (i \in F \/ (i = m /\ Fresh))
  BY <1>1, <1>2, <1>5, <1>6, <1>7
<1>9. G = IF Fresh THEN F \union {m} ELSE F
  BY <1>8
<1> QED BY <1>9 DEF C, U, K, F, G, FreshPair

\* Nothing comes first anew if no decision more is covered.
LEMMA FirstStays ==
  ASSUME NEW n, NEW m, NEW v, CoveringIn(v, m, 2) = CoveringIn(v, n, 2)
  PROVE  FirstIn(v, m) = FirstIn(v, n)
BY DEF FirstIn

\* The replay summary counts the eligible and the covered decisions, and has an
\* observation for every usable pair at the first decision that saw it.
LEMMA SampledCollects ==
  ASSUME NEW n \in Nat, NEW v, NEW a \in Accs, NEW row \in Decisions,
         NEW snapshots \in SUBSET Snapshots, Seen(row, snapshots, v[n + 1]), Collected(a, n, v)
  PROVE  Collected(Sampled(a, row, snapshots), n + 1, v)
<1> DEFINE m == n + 1
           E(k) == EligibleIn(v, k)
           C(k) == CoveringIn(v, k, 2)
           F(k) == FirstIn(v, k)
           seen(k) == {KeyOf(v, i) : i \in C(k)}
           r == Sampled(a, row, snapshots)
           Found(b, k) == \A i \in F(k) : \E l \in DOMAIN b.observations : Observed(b.observations[l], v, i)
<1>0. a \in AccRecords
  BY DEF Accs
<1>1. /\ C(n) \subseteq 1 .. n
      /\ Cardinality(E(n)) \in Nat /\ Cardinality(E(n) \union {m}) = Cardinality(E(n)) + 1
      /\ Cardinality(C(n)) \in Nat /\ Cardinality(C(n) \union {m}) = Cardinality(C(n)) + 1
      /\ F(n) \subseteq 1 .. n
      /\ Cardinality(F(n)) \in Nat /\ Cardinality(F(n) \union {m}) = Cardinality(F(n)) + 1
  <2>1. E(n) \subseteq 1 .. n /\ C(n) \subseteq 1 .. n
    BY NextView
  <2>2. F(n) \subseteq C(n)
    BY DEF FirstIn
  <2> HIDE DEF E, C, F
  <2> QED BY <2>1, <2>2, NextCounts
<1>2. v[m].row = row
  BY DEF Seen
<1>3. /\ a.eligible = Cardinality(E(n)) /\ a.both = Cardinality(C(n)) /\ a.seen = seen(n)
      /\ Len(a.observations) = Cardinality(F(n)) /\ Found(a, n)
  BY Zenon DEF Collected
<1>4. /\ E(m) = IF row.market # 0 THEN E(n) \union {m} ELSE E(n)
      /\ C(m) = IF row.market # 0 /\ Cardinality(LegsOf(v, m)) = 2 THEN C(n) \union {m} ELSE C(n)
  BY <1>2, NextView
<1> DEFINE Good == /\ r.eligible = Cardinality(E(m)) /\ r.both = Cardinality(C(m)) /\ r.seen = seen(m)
                   /\ Len(r.observations) = Cardinality(F(m)) /\ Found(r, m)
<1> HIDE DEF r
<1>5. ASSUME row.market = 0 PROVE Good
  <2>1. r = a
    BY <1>5, SampledIs DEF r
  <2>2. E(m) = E(n) /\ C(m) = C(n)
    BY <1>4, <1>5
  <2>3. F(m) = F(n)
    BY <2>2, FirstStays
  <2> HIDE DEF E, C, F, m
  <2> QED BY <1>3, <2>1, <2>2, <2>3
<1>6. ASSUME row.market # 0, ~ \A leg \in {1, 2} : v[m].near[leg] # {} PROVE Good
  <2>1. \E leg \in {1, 2} : Preceding(snapshots, <<row.market, leg>>, row.at) = {}
    BY <1>6 DEF Seen
  <2>2. r = [a EXCEPT !.eligible = @ + 1]
    BY <1>6, <2>1, SampledIs DEF r
  <2>3. E(m) = E(n) \union {m} /\ C(m) = C(n)
    BY <1>4, <1>6, TwoLegs
  <2>4. F(m) = F(n)
    BY <2>3, FirstStays
  <2>5. /\ r.eligible = a.eligible + 1 /\ r.both = a.both /\ r.seen = a.seen
        /\ r.observations = a.observations
    BY <1>0, <2>2 DEF AccRecords
  <2> HIDE DEF E, C, F, m
  <2> QED BY <1>1, <1>3, <2>3, <2>4, <2>5
<1>7. ASSUME row.market # 0, \A leg \in {1, 2} : v[m].near[leg] # {} PROVE Good
  <2> DEFINE x == NewestIn(v, m, 1)
             y == NewestIn(v, m, 2)
             key == KeyOf(v, m)
             new == [market |-> row.market, at |-> row.at, a |-> x, b |-> y]
             Fresh == FreshPair(v, n, m)
  <2>1. \A leg \in {1, 2} : Preceding(snapshots, <<row.market, leg>>, row.at) = v[m].near[leg]
    BY <1>7 DEF Seen
  <2>2. x = Newest(row, 1, snapshots) /\ y = Newest(row, 2, snapshots)
    BY <2>1 DEF Newest, NewestIn
  <2>3. key = SampleKey(row, x, y)
    BY <1>2 DEF KeyOf
  <2>4. r = SampledPair(a, row, x, y)
    BY <1>7, <2>1, <2>2, SampledIs DEF r
  <2>5. E(m) = E(n) \union {m} /\ C(m) = C(n) \union {m}
    BY <1>4, <1>7, TwoLegs
  <2>6. F(m) = IF Fresh THEN F(n) \union {m} ELSE F(n)
    <3> HIDE DEF m
    <3>1. m = n + 1
      BY DEF m
    <3>2. CoveringIn(v, n, 2) \subseteq 1 .. n /\ CoveringIn(v, m, 2) = CoveringIn(v, n, 2) \union {m}
      BY <1>1, <2>5
    <3> QED BY ONLY n \in Nat, <3>1, <3>2, FirstNext
  <2>7. key \notin a.seen <=> \A j \in C(n) : KeyOf(v, j) # key
    <3> HIDE DEF key, C
    <3> QED BY <1>3
  <2> HIDE DEF x, y, key
  <2>8. /\ r.eligible = a.eligible + 1 /\ r.both = a.both + 1 /\ r.seen = a.seen \union {key}
        /\ r.observations = IF Fresh THEN Append(a.observations, new) ELSE a.observations
    <3>1. /\ r.eligible = a.eligible + 1 /\ r.both = a.both + 1 /\ r.seen = a.seen \union {key}
          /\ r.observations = IF key \notin a.seen /\ Usable(x, y) THEN Append(a.observations, new)
                                                                   ELSE a.observations
      BY <1>0, <2>3, <2>4 DEF SampledPair, AccRecords
    <3>2. (key \notin a.seen /\ Usable(x, y)) <=> Fresh
      BY <2>7 DEF FreshPair, x, y, key
    <3> HIDE DEF Fresh
    <3>3. CASE Fresh
      BY <3>1, <3>2, <3>3
    <3>4. CASE ~Fresh
      BY <3>1, <3>2, <3>4
    <3> QED BY <3>3, <3>4
  <2>9. r.seen = seen(m)
    <3>1. \A i : i \in C(m) <=> i \in C(n) \/ i = m
      BY <2>5
    <3>2. a.seen = {KeyOf(v, i) : i \in C(n)}
      BY <1>3
    <3> HIDE DEF C, m
    <3>3. {KeyOf(v, i) : i \in C(m)} = {KeyOf(v, i) : i \in C(n)} \union {KeyOf(v, m)}
      BY <3>1
    <3>4. key = KeyOf(v, m)
      BY DEF key
    <3> QED BY <2>8, <3>2, <3>3, <3>4
  <2>10. Observed(new, v, m)
    BY <1>2 DEF Observed, x, y
  <2> HIDE DEF Fresh
  <2>11. Len(r.observations) = Cardinality(F(m)) /\ Found(r, m)
    <3>1. a.observations \in Seq(Observations)
      BY <1>0 DEF AccRecords, ObservationLists
    <3>2. CASE ~Fresh
      <4>1. r.observations = a.observations /\ F(m) = F(n)
        BY <2>6, <2>8, <3>2
      <4> HIDE DEF F, m
      <4> QED BY <1>3, <4>1
    <3>3. CASE Fresh
      <4> DEFINE s == a.observations
                 t == r.observations
      <4>1. t = Append(s, new) /\ F(m) = F(n) \union {m}
        BY <2>6, <2>8, <3>3
      <4>2. s \in Seq(Observations \union {new}) /\ Len(s) \in Nat
        BY <3>1
      <4> HIDE DEF s, t, new
      <4>3. /\ Len(t) = Len(s) + 1 /\ DOMAIN t = 1 .. (Len(s) + 1) /\ DOMAIN s = 1 .. Len(s)
            /\ t[Len(s) + 1] = new /\ \A i \in 1 .. Len(s) : t[i] = s[i]
        BY <4>1, <4>2, AppendProperties, LenProperties
      <4>4. \A i \in F(n) : \E l \in DOMAIN s : Observed(s[l], v, i)
        BY <1>3 DEF s
      <4> HIDE DEF F, m
      <4>5. Len(t) = Cardinality(F(m))
        BY <1>1, <1>3, <4>1, <4>3 DEF s
      <4>6. \A i \in F(n) : \E l \in DOMAIN t : Observed(t[l], v, i)
        <5>1. \A l \in DOMAIN s : l \in DOMAIN t /\ t[l] = s[l]
          BY <4>2, <4>3
        <5> QED BY <4>4, <5>1
      <4>7. \E l \in DOMAIN t : Observed(t[l], v, m)
        <5>1. Len(s) + 1 \in DOMAIN t
          BY <4>2, <4>3
        <5> QED BY <2>10, <4>3, <5>1
      <4>8. \A i \in F(m) : \E l \in DOMAIN t : Observed(t[l], v, i)
        BY <4>1, <4>6, <4>7
      <4> QED BY <4>5, <4>8 DEF t
    <3> QED BY <3>2, <3>3
  <2> HIDE DEF E, C, F, m
  <2> QED BY <1>1, <1>3, <2>5, <2>8, <2>9, <2>11
<1>8. Good
  BY <1>5, <1>6, <1>7
<1> QED BY Zenon, <1>8 DEF Collected, r

-----------------------------------------------------------------------------
(* What the record says of the decisions read, in every state.             *)

Nearest(i, leg) == Preceding(Range(store), <<table[i].market, leg>>, table[i].at)

\* The decisions there were when the summary began, and what the whole Store has.
Views == [i \in 1 .. throughId |-> [row |-> table[i], near |-> [leg \in {1, 2} |-> Nearest(i, leg)]]]

SaysOf(a, n, v) == IF command = "calibration" THEN Counted(a, n, v) ELSE Collected(a, n, v)

Described == status \in {"reading", "done"} /\ ~late => SaysOf(acc, afterId, Views)

\* A turn of either loop adds a decision.
LEMMA TurnSays ==
  ASSUME NEW n \in Nat, NEW v, NEW a \in Accs, NEW row \in Decisions,
         NEW snapshots \in SUBSET Snapshots, Seen(row, snapshots, v[n + 1]), SaysOf(a, n, v)
  PROVE  SaysOf(Turn(a, row, snapshots), n + 1, v)
<1>1. CASE command = "calibration"
  <2>1. Counted(Observe(a, row, snapshots), n + 1, v)
    BY <1>1, ObserveCounts DEF SaysOf
  <2> QED BY <1>1, <2>1 DEF SaysOf, Turn
<1>2. CASE command # "calibration"
  <2>1. Collected(Sampled(a, row, snapshots), n + 1, v)
    BY <1>2, SampledCollects DEF SaysOf
  <2> QED BY <1>2, <2>1 DEF SaysOf, Turn
<1> QED BY <1>1, <1>2

\* Nothing is said of no decisions.
LEMMA NothingCounts ==
  ASSUME NEW v
  PROVE  Counted(Nothing, 0, v) /\ Collected(Nothing, 0, v)
<1>0. /\ Nothing.decisions = 0 /\ Nothing.legacy = 0 /\ Nothing.eligible = 0 /\ Nothing.both = 0
      /\ Nothing.one = 0 /\ Nothing.none = 0 /\ Nothing.ages = <<>> /\ Nothing.seen = {}
      /\ Nothing.observations = <<>>
  BY DEF Nothing
<1>1. /\ EligibleIn(v, 0) = {} /\ \A k : CoveringIn(v, 0, k) = {}
      /\ LegsIn(v, 0) = {} /\ FirstIn(v, 0) = {}
  BY DEF EligibleIn, CoveringIn, LegsIn, FirstIn
<1>2. Cardinality({}) = 0
  BY FS_EmptySet
<1>3. Pairs(<<>>, {}, v)
  <2> DEFINE b == [k \in {} |-> k]
  <2>1. b \in Bijection({}, {}) /\ DOMAIN <<>> = {}
    BY DEF Bijection, Injection, Surjection, IsInjective
  <2> QED BY <2>1 DEF Pairs
<1>4. Counted(Nothing, 0, v)
  <2>1. Pairs(Nothing.ages, LegsIn(v, 0), v)
    BY Zenon, <1>0, <1>1, <1>3
  <2>2. /\ Cardinality(EligibleIn(v, 0)) = 0 /\ Cardinality(CoveringIn(v, 0, 2)) = 0
        /\ Cardinality(CoveringIn(v, 0, 1)) = 0 /\ Cardinality(CoveringIn(v, 0, 0)) = 0
    BY <1>1, <1>2
  <2> QED BY <1>0, <2>1, <2>2 DEF Counted
<1>5. Collected(Nothing, 0, v)
  BY <1>0, <1>1, <1>2 DEF Collected
<1> QED BY <1>4, <1>5

\* The tokens a batch asks the Store for.
Asked(rows) == UNION {TokensOf(row) : row \in Range(rows)}

\* The range of times of a batch has what precedes each of its rows.
LEMMA StreamedIsEnough ==
  ASSUME NEW rows \in Seq(Decisions), store \in Seq(Snapshots),
         NEW row \in Range(rows), row.market # 0, NEW leg \in {1, 2}, NEW tokens, tokens = Asked(rows)
  PROVE  /\ tokens # {}
         /\ Preceding(Streamed(tokens, From(rows), To(rows)), <<row.market, leg>>, row.at) =
               Preceding(Range(store), <<row.market, leg>>, row.at)
<1> DEFINE times == {r.at : r \in Range(rows)}
           token == <<row.market, leg>>
<1>1. \A r \in Range(rows) : r \in Decisions
  BY DEF Range
<1>2. IsFiniteSet(times) /\ \A t \in times : t \in Int
  <2> DEFINE f == [i \in DOMAIN rows |-> rows[i].at]
  <2>1. PICK n \in Nat : n = Len(rows) /\ DOMAIN rows = 1 .. n
    OBVIOUS
  <2>2. IsFiniteSet(DOMAIN rows)
    BY <2>1, FS_Interval
  <2>3. times = {f[i] : i \in DOMAIN rows}
    BY DEF Range
  <2> HIDE DEF f
  <2>4. IsFiniteSet({f[i] : i \in DOMAIN rows})
    BY <2>2, FiniteImage
  <2>5. \A t \in times : t \in Int
    BY <1>1, SummaryAssumption DEF Decisions, Times
  <2> QED BY <2>3, <2>4, <2>5
<1>3. row.at \in times
  OBVIOUS
<1> DEFINE least == Min(times)
           most == Max(times)
<1>4. least \in Int /\ most \in Int /\ row.at \in Int /\ least <= row.at /\ row.at <= most
  <2> HIDE DEF times
  <2>1. least \in times /\ least <= row.at /\ most \in times /\ most >= row.at
    BY <1>2, <1>3, MinIsElement, MaxIsElement
  <2> QED BY <1>2, <1>3, <2>1
<1>5. token \in tokens
  BY DEF TokensOf, Asked
<1>6. From(rows) = least - MaxAge /\ To(rows) = most
  BY DEF From, To
<1>7. MaxAge \in Nat /\ \A s \in Range(store) : s.at \in Int
  <2>1. \A s \in Snapshots : s.at \in Int
    BY SummaryAssumption DEF Snapshots, Times
  <2>2. \A s \in Range(store) : s \in Snapshots
    BY DEF Range
  <2> QED BY <2>1, <2>2, SummaryAssumption
<1> HIDE DEF times, least, most, token
<1> DEFINE near(Z) == {s \in Z : s.token = token /\ s.at <= row.at /\ row.at - s.at <= MaxAge}
<1>8. \A s \in Range(store) : s.token = token /\ s.at <= row.at /\ row.at - s.at <= MaxAge =>
                                  s \in Streamed(tokens, From(rows), To(rows))
  BY <1>4, <1>5, <1>6, <1>7 DEF Streamed
<1>9. Streamed(tokens, From(rows), To(rows)) \subseteq Range(store)
  BY DEF Streamed
<1>10. near(Streamed(tokens, From(rows), To(rows))) = near(Range(store))
  <2> DEFINE Z == Streamed(tokens, From(rows), To(rows))
  <2>1. Z \subseteq Range(store) /\ \A s \in near(Range(store)) : s \in Z
    BY <1>8, <1>9
  <2> HIDE DEF Z
  <2>2. near(Z) = near(Range(store))
    BY <2>1
  <2> QED BY <2>2 DEF Z
<1>11. \A Z : Preceding(Z, token, row.at) = {s \in near(Z) : \A r \in near(Z) : r.at <= s.at}
  BY DEF Preceding
<1> HIDE DEF near
<1> QED BY <1>5, <1>10, <1>11 DEF token

\* A batch sees of its decisions what the whole Store has.
LEMMA BatchSees ==
  ASSUME SumInv, afterId < throughId, NEW rows, rows = Batch(afterId, throughId),
         NEW tokens, tokens = Asked(rows), NEW snapshots,
         snapshots = IF tokens = {} THEN {} ELSE Streamed(tokens, From(rows), To(rows)),
         NEW i \in 1 .. Len(rows), NEW m, m = afterId + i
  PROVE  Seen(rows[i], snapshots, Views[m])
<1> DEFINE row == rows[i]
<1>1. throughId \in Nat /\ afterId \in Nat /\ throughId <= Len(table) /\ table \in Seq(Decisions)
      /\ store \in Seq(Snapshots)
  BY DEF SumInv, Types
<1> DEFINE end == Min({afterId + BatchSize, throughId})
<1>2. /\ end \in (afterId + 1) .. throughId /\ rows \in Seq(Decisions)
      /\ Len(rows) = end - afterId /\ \A j \in 1 .. end - afterId : rows[j] = table[afterId + j]
  BY <1>1, BatchIs
<1> HIDE DEF end
<1>3. m \in 1 .. throughId /\ row = table[m]
  BY <1>1, <1>2
<1>4. Views[m].row = row /\ \A leg \in {1, 2} : Views[m].near[leg] = Nearest(m, leg)
  BY <1>3 DEF Views
<1>5. row \in Range(rows)
  BY <1>2 DEF Range
<1>6. ASSUME row.market # 0, NEW leg \in {1, 2}
      PROVE  Preceding(snapshots, <<row.market, leg>>, row.at) = Nearest(m, leg)
  <2>0. row.market # 0
    BY <1>6
  <2> HIDE DEF row
  <2>1. /\ tokens # {}
        /\ Preceding(Streamed(tokens, From(rows), To(rows)), <<row.market, leg>>, row.at) =
               Preceding(Range(store), <<row.market, leg>>, row.at)
    BY ONLY <1>1, <1>2, <1>5, <2>0, leg \in {1, 2}, tokens = Asked(rows), StreamedIsEnough
  <2> QED BY <1>3, <2>1 DEF Nearest
<1> QED BY <1>4, <1>6 DEF Seen

\* Neither a decision appended nor a snapshot of a later time changes what the Store
\* has of the decisions there were.
LEMMA ViewsStay ==
  ASSUME SumInv, throughId' = throughId,
         \/ table' = table
         \/ \E d : table' = Append(table, d),
         \/ store' = store
         \/ \E s : /\ store' = Append(store, s) /\ s \in Snapshots
                   /\ \A i \in 1 .. throughId : table[i].at < s.at
  PROVE  Views' = Views
<1>1. throughId \in Nat /\ throughId <= Len(table) /\ table \in Seq(Decisions) /\ store \in Seq(Snapshots)
  BY DEF SumInv, Types
<1>2. \A i \in 1 .. throughId : table'[i] = table[i] /\ table[i] \in Decisions
  <2> SUFFICES ASSUME NEW i \in 1 .. throughId PROVE table'[i] = table[i] /\ table[i] \in Decisions
    OBVIOUS
  <2>1. i \in 1 .. Len(table)
    BY <1>1
  <2>2. table[i] \in Decisions
    BY <1>1, <2>1
  <2>3. ASSUME NEW d, table' = Append(table, d) PROVE table'[i] = table[i]
    <3> DEFINE S == Decisions \union {d}
    <3>1. table \in Seq(S) /\ d \in S
      BY <1>1
    <3> HIDE DEF S
    <3> QED BY <2>1, <2>3, <3>1, AppendProperties
  <2> QED BY <2>2, <2>3
<1>3. \A i \in 1 .. throughId, leg \in {1, 2} : Nearest(i, leg)' = Nearest(i, leg)
  <2> SUFFICES ASSUME NEW i \in 1 .. throughId, NEW leg \in {1, 2} PROVE Nearest(i, leg)' = Nearest(i, leg)
    OBVIOUS
  <2> DEFINE token == <<table[i].market, leg>>
             t == table[i].at
  <2>1. table'[i] = table[i]
    BY <1>2
  <2>2. Nearest(i, leg)' = Preceding(Range(store'), token, t)
    BY <2>1 DEF Nearest
  <2>3. Nearest(i, leg) = Preceding(Range(store), token, t)
    BY DEF Nearest
  <2>4. t \in Int /\ \A s \in Snapshots : s.at \in Int
    BY <1>2, SummaryAssumption DEF Decisions, Snapshots, Times
  <2>5. ASSUME NEW s \in Snapshots, store' = Append(store, s), t < s.at
        PROVE  Preceding(Range(store'), token, t) = Preceding(Range(store), token, t)
    <3>1. Range(store') = Range(store) \union {s}
      BY <1>1, <2>5, RangeGrows
    <3> DEFINE near(Z) == {r \in Z : r.token = token /\ r.at <= t /\ t - r.at <= MaxAge}
    <3>2. near(Range(store')) = near(Range(store))
      BY <2>4, <2>5, <3>1
    <3>3. \A Z : Preceding(Z, token, t) = {r \in near(Z) : \A q \in near(Z) : q.at <= r.at}
      BY DEF Preceding
    <3> HIDE DEF near, token, t
    <3> QED BY <3>2, <3>3
  <2>6. CASE store' = store
    BY <2>2, <2>3, <2>6
  <2>7. ASSUME NEW s, store' = Append(store, s) /\ s \in Snapshots
                      /\ \A j \in 1 .. throughId : table[j].at < s.at
        PROVE  Nearest(i, leg)' = Nearest(i, leg)
    BY <2>2, <2>3, <2>5, <2>7
  <2> QED BY <2>6, <2>7
<1>4. \A i \in 1 .. throughId : [row |-> table'[i], near |-> [leg \in {1, 2} |-> Nearest(i, leg)']] =
                                [row |-> table[i], near |-> [leg \in {1, 2} |-> Nearest(i, leg)]]
  BY <1>2, <1>3
<1>5. Views' = [i \in 1 .. throughId |->
                  [row |-> table'[i], near |-> [leg \in {1, 2} |-> Nearest(i, leg)']]]
  BY DEF Views
<1> QED BY <1>4, <1>5 DEF Views

\* What the record says is kept where it and what it is about do not change.
LEMMA DescribedStays ==
  ASSUME Described, acc' = acc, afterId' = afterId, command' = command,
         status' \in {"reading", "done"} => status \in {"reading", "done"},
         late => late',
         status' \in {"reading", "done"} /\ ~late' => Views' = Views
  PROVE  Described'
<1> SUFFICES ASSUME status' \in {"reading", "done"}, ~late' PROVE SaysOf(acc, afterId, Views)'
  BY DEF Described
<1>1. SaysOf(acc, afterId, Views) /\ Views' = Views
  BY DEF Described
<1> QED BY <1>1 DEF SaysOf

\* A batch adds its decisions to what the record says.
LEMMA BatchSays ==
  ASSUME SumInv, Described, ~late, ReadBatch
  PROVE  SaysOf(acc', afterId', Views)
<1> DEFINE rows == Batch(afterId, throughId)
           tokens == Asked(rows)
           snapshots == IF tokens = {} THEN {} ELSE Streamed(tokens, From(rows), To(rows))
           end == Min({afterId + BatchSize, throughId})
<1>1. /\ status = "reading" /\ afterId < throughId /\ afterId' = end
      /\ acc' = Gathered(rows, snapshots)
  BY DEF ReadBatch, Asked
<1>2. /\ throughId \in Nat /\ afterId \in Nat /\ throughId <= Len(table) /\ table \in Seq(Decisions)
      /\ store \in Seq(Snapshots) /\ acc \in Accs
  BY DEF SumInv, Types
<1>3. end \in (afterId + 1) .. throughId /\ rows \in Seq(Decisions) /\ Len(rows) = end - afterId
  BY <1>1, <1>2, BatchIs
<1>4. snapshots \in SUBSET Snapshots
  BY <1>2, StreamedType
<1>5. ASSUME NEW i \in 1 .. Len(rows), NEW m, m = afterId + i PROVE Seen(rows[i], snapshots, Views[m])
  <2>1. tokens = Asked(rows) /\ rows = Batch(afterId, throughId)
        /\ snapshots = IF tokens = {} THEN {} ELSE Streamed(tokens, From(rows), To(rows))
    OBVIOUS
  <2> HIDE DEF rows, tokens, snapshots
  <2> QED BY <1>1, <1>5, <2>1, BatchSees
<1> HIDE DEF end, rows, tokens, snapshots
<1>6. PICK n \in Nat : n = Len(rows)
  BY <1>3
<1>7. PICK g \in [0 .. n -> Accs] :
         /\ g[0] = acc /\ g[n] = Gathered(rows, snapshots)
         /\ \A i \in 1 .. n : g[i] = Turn(g[i - 1], rows[i], snapshots)
  BY <1>2, <1>3, <1>4, <1>6, GatheredSteps
<1> DEFINE G == [i \in 0 .. n |-> SaysOf(g[i], afterId + i, Views)]
<1>8. G \in [0 .. n -> BOOLEAN]
  BY DEF SaysOf, Counted, Collected
<1>9. G[0]
  <2>1. SaysOf(acc, afterId, Views)
    BY <1>1 DEF Described
  <2>2. afterId + 0 = afterId
    BY <1>2
  <2>3. 0 \in 0 .. n
    BY <1>6
  <2> QED BY <1>7, <2>1, <2>2, <2>3
<1>10. ASSUME NEW i \in 1 .. n, G[i - 1] PROVE G[i]
  <2> DEFINE k == afterId + (i - 1)
             row == rows[i]
             a == g[i - 1]
  <2>1. i - 1 \in 0 .. n /\ i \in 0 .. n /\ i \in Int
    BY <1>6
  <2>2. SaysOf(a, k, Views)
    BY <1>10, <2>1
  <2>3. k \in Nat /\ k + 1 = afterId + i
    BY <1>2, <1>6
  <2>4. Seen(row, snapshots, Views[k + 1])
    BY <1>5, <1>6, <2>3
  <2>5. row \in Decisions /\ a \in Accs
    BY <1>3, <1>6, <1>7, <2>1
  <2>6. g[i] = Turn(a, row, snapshots)
    BY <1>7
  <2> HIDE DEF k, row, a
  <2>7. SaysOf(Turn(a, row, snapshots), k + 1, Views)
    BY <1>4, <2>2, <2>3, <2>4, <2>5, TurnSays
  <2>8. SaysOf(g[i], afterId + i, Views)
    BY <2>3, <2>6, <2>7
  <2> QED BY <2>1, <2>8
<1> HIDE DEF G
<1>11. \A i \in 0 .. n : G[i]
  BY <1>6, <1>8, <1>9, <1>10, ChainHolds
<1>12. SaysOf(g[n], afterId + n, Views)
  BY <1>6, <1>11 DEF G
<1>13. afterId + n = afterId'
  BY <1>1, <1>2, <1>3, <1>6
<1> QED BY <1>1, <1>7, <1>12, <1>13

\* In every state the record says what the whole Store has for the decisions read.
LEMMA DescribedHolds == Spec => []Described
<1>1. Init => Described
  BY DEF Init, Described
<1>2. SumInv /\ Described /\ [Next]_vars => Described'
  <2> SUFFICES ASSUME SumInv, Described, [Next]_vars PROVE Described'
    OBVIOUS
  <2>1. CASE Tick \/ UNCHANGED vars
    <3>1. UNCHANGED <<table, store, command, afterId, throughId, status, acc, late>>
      BY <2>1 DEF Tick, vars, worldVars, scanVars
    <3>2. Views' = Views
      BY <3>1, ViewsStay
    <3> QED BY <3>1, <3>2, DescribedStays
  <2>2. CASE AppendDecision
    <3>1. UNCHANGED <<store, command, afterId, throughId, status, acc, late>>
      BY <2>2 DEF AppendDecision, scanVars
    <3>2. \E d : table' = Append(table, d)
      BY <2>2 DEF AppendDecision
    <3>3. Views' = Views
      BY <3>1, <3>2, ViewsStay
    <3> QED BY <3>1, <3>3, DescribedStays
  <2>3. CASE Sample
    <3>1. UNCHANGED <<now, table, command, afterId, throughId, status, acc>>
      BY <2>3 DEF Sample, scanVars
    <3>2. late' = (late \/ (status # "idle" /\ \E i \in 1 .. throughId : table[i].at >= now))
      BY <2>3 DEF Sample
    <3>3. PICK token \in Tokens, quote \in Quotes :
             store' = Append(store, [token |-> token, at |-> now, quote |-> quote])
      BY <2>3 DEF Sample
    <3>4. ASSUME status' \in {"reading", "done"}, ~late' PROVE Views' = Views
      <4> DEFINE new == [token |-> token, at |-> now, quote |-> quote]
      <4>1. now \in Times /\ throughId \in Nat /\ throughId <= Len(table) /\ table \in Seq(Decisions)
        BY DEF SumInv, Types
      <4>2. new \in Snapshots /\ new.at = now /\ store' = Append(store, new)
        BY <3>3, <4>1 DEF Snapshots
      <4> HIDE DEF new
      <4>3. \A i \in 1 .. throughId : table[i].at < now
        <5> SUFFICES ASSUME NEW i \in 1 .. throughId PROVE table[i].at < now
          OBVIOUS
        <5>1. ~(table[i].at >= now)
          BY <3>1, <3>2, <3>4
        <5>2. i \in 1 .. Len(table)
          BY <4>1
        <5>3. table[i] \in Decisions
          BY <4>1, <5>2
        <5>4. table[i].at \in Int /\ now \in Int
          BY <4>1, <5>3, SummaryAssumption DEF Decisions, Times
        <5> QED BY <5>1, <5>4
      <4> QED BY <3>1, <4>2, <4>3, ViewsStay
    <3> QED BY <3>1, <3>2, <3>4, DescribedStays
  <2>4. CASE Start
    <3>1. status = "idle" /\ afterId' = afterId /\ acc' = acc
      BY <2>4 DEF Start
    <3>2. afterId' = 0 /\ acc' = Nothing
      BY <3>1 DEF SumInv, Progress
    <3>3. SaysOf(acc, afterId, Views)'
      <4>1. Counted(Nothing, 0, Views') /\ Collected(Nothing, 0, Views')
        BY NothingCounts
      <4> QED BY <3>2, <4>1 DEF SaysOf
    <3> QED BY <3>3 DEF Described
  <2>5. CASE ReadBatch
    <3>1. /\ UNCHANGED <<table, store, command, throughId, status, late>> /\ status = "reading"
      BY <2>5 DEF ReadBatch, worldVars
    <3>2. Views' = Views
      BY <3>1, ViewsStay
    <3>3. ASSUME ~late PROVE SaysOf(acc', afterId', Views)
      BY <2>5, <3>3, BatchSays
    <3>4. ASSUME ~late' PROVE SaysOf(acc, afterId, Views)'
      BY <3>1, <3>2, <3>3, <3>4 DEF SaysOf
    <3> QED BY <3>4 DEF Described
  <2>6. CASE Fail
    BY <2>6 DEF Fail, Described
  <2>7. CASE Finish
    <3>1. /\ UNCHANGED <<table, store, command, afterId, throughId, acc, late>>
          /\ status = "reading"
      BY <2>7 DEF Finish, worldVars, scanVars
    <3>2. Views' = Views
      BY <3>1, ViewsStay
    <3> QED BY <3>1, <3>2, DescribedStays
  <2> QED BY <2>1, <2>2, <2>3, <2>4, <2>5, <2>6, <2>7 DEF Next
<1> QED BY <1>1, <1>2, SumInvHolds, PTL DEF Spec

-----------------------------------------------------------------------------
(* The median.                                                             *)

\* The upper of the middle two has at most half of the numbers below it, and less
\* than half above it.
LEMMA MedianIs ==
  ASSUME NEW s \in Seq(Int), s # <<>>
  PROVE  \E k \in DOMAIN s :
            /\ Median(s) = {s[k]}
            /\ 2 * Cardinality({j \in DOMAIN s : s[j] < s[k]}) <= Len(s)
            /\ 2 * Cardinality({j \in DOMAIN s : s[j] > s[k]}) < Len(s)
<1> DEFINE S == DOMAIN s
           R == SortedBy(S, s)
           rank == [i \in S |-> Cardinality({j \in S : s[j] < s[i] \/ (~(s[i] < s[j]) /\ j < i)})]
           f == [n \in 1 .. Cardinality(S) |-> CHOOSE i \in S : rank[i] = n - 1]
           L == Len(s)
           p == L \div 2 + 1
<1>1. Median(s) = {s[f[p]]}
  BY DEF Median, Order
<1>2. L \in Nat /\ L > 0 /\ S = 1 .. L /\ \A i \in S : s[i] \in Int
  BY EmptySeq
<1>3. \A i \in S : i \in Int /\ s[i] \in Int
  BY <1>2
<1>4. IsFiniteSet(S) /\ Cardinality(S) = L
  <2>1. PICK n \in Nat : n = L
    BY <1>2
  <2>2. IsFiniteSet(1 .. n) /\ Cardinality(1 .. n) = IF 1 > n THEN 0 ELSE n - 1 + 1
    BY FS_Interval
  <2> QED BY <1>2, <2>1, <2>2
<1>5. p \in 1 .. L /\ 2 * (p - 1) <= L /\ 2 * (L - p) < L /\ p \in Int
  BY <1>2
<1> HIDE DEF S, p, L
<1>6. StrictOrder(S, R)
  BY <1>3, ByKeyInOrder
<1>7. \A m \in S : rank[m] = Cardinality(BelowIn(S, R, m))
  <2> SUFFICES ASSUME NEW m \in S PROVE rank[m] = Cardinality(BelowIn(S, R, m))
    OBVIOUS
  <2>1. rank[m] = Cardinality({j \in S : s[j] < s[m] \/ (~(s[m] < s[j]) /\ j < m)})
    OBVIOUS
  <2>2. \A j \in S : (s[j] < s[m] \/ (~(s[m] < s[j]) /\ j < m)) <=> <<j, m>> \in R
    BY <1>3 DEF SortedBy
  <2>3. BelowIn(S, R, m) = {j \in S : s[j] < s[m] \/ (~(s[m] < s[j]) /\ j < m)}
    BY <2>2 DEF BelowIn
  <2> QED BY <2>1, <2>3
<1> HIDE DEF rank, R
<1>8. IsRanking(f, S, rank)
  BY DEF IsRanking
<1> HIDE DEF f
<1>9. f \in [1 .. Cardinality(S) -> S] /\ \A n \in 1 .. Cardinality(S) : rank[f[n]] = n - 1
  BY <1>4, <1>6, <1>7, <1>8, RankedIs
<1> DEFINE k == f[p]
           lower == BelowIn(S, R, k)
           less == {j \in S : s[j] < s[k]}
           more == {j \in S : s[j] > s[k]}
<1>10. k \in S /\ rank[k] = p - 1
  BY <1>4, <1>5, <1>9
<1> HIDE DEF k
<1>11. Cardinality(lower) = p - 1 /\ lower \subseteq S /\ k \notin lower
  BY <1>6, <1>7, <1>10 DEF BelowIn, StrictOrder
<1>12. less \subseteq lower /\ more \subseteq (S \ {k}) \ lower
  BY <1>3, <1>10 DEF BelowIn, R, SortedBy
<1> HIDE DEF lower, less, more
<1>13. IsFiniteSet(lower) /\ IsFiniteSet(less) /\ Cardinality(less) <= p - 1 /\ Cardinality(less) \in Nat
  <2>1. IsFiniteSet(lower)
    BY <1>4, <1>11, FS_Subset
  <2> QED BY <1>11, <1>12, <2>1, FS_Subset, FS_CardinalityType
<1>14. Cardinality(more) <= L - p /\ Cardinality(more) \in Nat
  <2>1. IsFiniteSet(S \ {k}) /\ Cardinality(S \ {k}) = L - 1
    BY <1>4, <1>10, FS_RemoveElement
  <2>2. lower \subseteq S \ {k}
    BY <1>11
  <2> DEFINE rest == (S \ {k}) \ lower
  <2>3. IsFiniteSet(rest) /\ Cardinality(rest) = Cardinality(S \ {k}) - Cardinality(lower)
    <3>1. (S \ {k}) \intersect lower = lower
      BY <2>2
    <3>2. /\ IsFiniteSet((S \ {k}) \ lower)
          /\ Cardinality((S \ {k}) \ lower) = Cardinality(S \ {k}) - Cardinality((S \ {k}) \intersect lower)
      BY <2>1, FS_Difference
    <3> QED BY <3>1, <3>2
  <2>4. Cardinality(rest) = L - p
    BY <1>2, <1>5, <1>11, <2>1, <2>3
  <2> HIDE DEF rest
  <2>5. Cardinality(more) <= Cardinality(rest) /\ IsFiniteSet(more)
    BY <1>12, <2>3, FS_Subset DEF rest
  <2> QED BY <2>4, <2>5, FS_CardinalityType
<1>15. 2 * Cardinality(less) <= L /\ 2 * Cardinality(more) < L
  BY <1>2, <1>5, <1>13, <1>14
<1>16. Median(s) = {s[k]}
  BY <1>1 DEF k
<1> QED BY <1>10, <1>15, <1>16 DEF S, less, more, L

\* A bijection keeps the number of elements of a subset.
LEMMA BijectionCounts ==
  ASSUME NEW D, IsFiniteSet(D), NEW S, NEW b \in Bijection(D, S), NEW P, P \subseteq D,
         NEW Q, Q \subseteq S, \A d \in D : d \in P <=> b[d] \in Q
  PROVE  Cardinality(Q) = Cardinality(P)
<1>1. IsFiniteSet(P)
  BY FS_Subset
<1>2. /\ b \in [D -> S]
      /\ \A i, j \in D : b[i] = b[j] => i = j
      /\ \A y \in S : \E i \in D : b[i] = y
  BY DEF Bijection, Injection, Surjection, IsInjective
<1> DEFINE c == [d \in P |-> b[d]]
<1>3. c \in [P -> Q] /\ \A d \in P : c[d] = b[d]
  OBVIOUS
<1> HIDE DEF c
<1>4. c \in Bijection(P, Q)
  <2>1. \A i, j \in P : c[i] = c[j] => i = j
    BY <1>2, <1>3
  <2>2. \A y \in Q : \E i \in P : c[i] = y
    BY <1>2, <1>3
  <2> QED BY <1>3, <2>1, <2>2 DEF Bijection, Injection, Surjection, IsInjective
<1>5. ExistsBijection(P, Q)
  BY <1>4 DEF ExistsBijection
<1> QED BY <1>1, <1>5, FS_Bijection

-----------------------------------------------------------------------------
(* The record and what the properties say of the whole Store.              *)

\* The age of the newest snapshot is the age of what precedes the decision.
LEMMA AgeOfIs ==
  ASSUME SumInv, NEW i \in 1 .. throughId, NEW leg \in {1, 2}
  PROVE  /\ AgeOf(i, leg) = AgesIn(Views, <<i, leg>>)
         /\ AgeOf(i, leg) # {} <=> Views[i].near[leg] # {}
         /\ AgeOf(i, leg) = {} \/ \E n \in Int : AgeOf(i, leg) = {n}
<1> DEFINE token == <<table[i].market, leg>>
           t == table[i].at
           own == {r \in Range(store) : r.token = token}
           ages == {t - s.at : s \in own}
           allowed == ages \intersect (0 .. MaxAge)
           near == {s \in Range(store) : s.token = token /\ s.at <= t /\ t - s.at <= MaxAge}
           newest == Nearest(i, leg)
<1>1. throughId \in Nat /\ throughId <= Len(table) /\ table \in Seq(Decisions) /\ store \in Seq(Snapshots)
  BY DEF SumInv, Types
<1>2. t \in Int
  <2>1. i \in 1 .. Len(table)
    BY <1>1
  <2>2. table[i] \in Decisions
    BY <1>1, <2>1
  <2> QED BY <2>2, SummaryAssumption DEF Decisions, Times
<1>3. MaxAge \in Nat /\ \A s \in Range(store) : s.at \in Int
  <2>1. \A s \in Snapshots : s.at \in Int
    BY SummaryAssumption DEF Snapshots, Times
  <2>2. \A s \in Range(store) : s \in Snapshots
    BY <1>1 DEF Range
  <2> QED BY <2>1, <2>2, SummaryAssumption
<1>4. AgeOf(i, leg) = IF allowed = {} THEN {} ELSE {Min(allowed)}
  BY DEF AgeOf
<1>5. newest = {s \in near : \A r \in near : r.at <= s.at}
  BY DEF Nearest, Preceding
<1>6. Views[i].row = table[i] /\ Views[i].near[leg] = newest
  BY DEF Views
<1>7. AgesIn(Views, <<i, leg>>) = {t - s.at : s \in newest}
  BY <1>6 DEF AgesIn
<1> HIDE DEF newest, token, t
<1>8. \A s \in near : t - s.at \in allowed
  BY <1>2, <1>3
<1>9. \A n \in allowed : \E s \in near : n = t - s.at
  BY <1>2, <1>3
<1>10. IsFiniteSet(allowed) /\ \A n \in allowed : n \in Int
  <2>1. IsFiniteSet(0 .. MaxAge)
    BY <1>3, FS_Interval
  <2>2. allowed \subseteq 0 .. MaxAge
    OBVIOUS
  <2>3. \A n \in allowed : n \in Int
    BY <1>3, <2>2
  <2> HIDE DEF allowed
  <2> QED BY <2>1, <2>2, <2>3, FS_Subset
<1>11. \A s \in near : s.at \in Int
  BY <1>3
<1> HIDE DEF near, allowed
<1>12. CASE allowed = {}
  <2>1. newest = {}
    BY <1>5, <1>8, <1>12
  <2> QED BY <1>4, <1>6, <1>7, <1>12, <2>1
<1>13. CASE allowed # {}
  <2> DEFINE m == Min(allowed)
  <2>1. m \in allowed /\ \A n \in allowed : m <= n
    BY <1>10, <1>13, MinIsElement
  <2> HIDE DEF m
  <2>2. m \in Int
    BY <1>10, <2>1
  <2>3. PICK s \in near : m = t - s.at
    BY <1>9, <2>1
  <2>4. \A r \in near : r.at <= s.at
    BY <1>2, <1>8, <1>11, <2>1, <2>2, <2>3
  <2>5. s \in newest
    BY <1>5, <2>4
  <2>6. \A r \in newest : r.at = s.at
    <3>1. \A r \in newest : r \in near /\ s.at <= r.at
      BY <1>5
    <3> QED BY <1>11, <2>4, <3>1
  <2>7. {t - r.at : r \in newest} = {m}
    BY <2>3, <2>5, <2>6
  <2>8. AgeOf(i, leg) = {m}
    BY <1>4, <1>13 DEF m
  <2> QED BY <1>6, <1>7, <2>2, <2>5, <2>7, <2>8
<1> QED BY <1>12, <1>13

\* The sets the properties count are those the record was counted from.
LEMMA ViewsAre ==
  ASSUME SumInv
  PROVE  /\ Eligible = EligibleIn(Views, throughId)
         /\ \A i \in Eligible : CoveredLegs(i) = LegsOf(Views, i)
         /\ \A k : {i \in Eligible : Cardinality(CoveredLegs(i)) = k} = CoveringIn(Views, throughId, k)
         /\ {x \in Eligible \X {1, 2} : x[2] \in CoveredLegs(x[1])} = LegsIn(Views, throughId)
<1>1. \A i \in 1 .. throughId : Views[i].row = table[i]
  BY DEF Views
<1>2. Eligible = EligibleIn(Views, throughId)
  BY <1>1 DEF Eligible, Read, EligibleIn
<1>3. \A i \in Eligible : CoveredLegs(i) = LegsOf(Views, i)
  <2> SUFFICES ASSUME NEW i \in Eligible PROVE CoveredLegs(i) = LegsOf(Views, i)
    OBVIOUS
  <2>1. i \in 1 .. throughId
    BY DEF Eligible, Read
  <2>2. \A leg \in {1, 2} : AgeOf(i, leg) # {} <=> Views[i].near[leg] # {}
    BY <2>1, AgeOfIs
  <2> QED BY <2>2 DEF CoveredLegs, LegsOf
<1>4. \A k : {i \in Eligible : Cardinality(CoveredLegs(i)) = k} = CoveringIn(Views, throughId, k)
  BY <1>2, <1>3 DEF CoveringIn
<1>5. {x \in Eligible \X {1, 2} : x[2] \in CoveredLegs(x[1])} = LegsIn(Views, throughId)
  <2>1. \A x \in Eligible \X {1, 2} : x[2] \in CoveredLegs(x[1]) <=> Views[x[1]].near[x[2]] # {}
    BY <1>3 DEF LegsOf
  <2> QED BY <1>2, <2>1 DEF LegsIn
<1> QED BY <1>2, <1>3, <1>4, <1>5

\* What store-calibration-summary prints is what the whole Store has for the decisions
\* there were when it began.
THEOREM SummaryIsExact == Spec => []CalibrationIsExact
<1>1. SumInv /\ Described => CalibrationIsExact
  <2> DEFINE legs == {x \in Eligible \X {1, 2} : x[2] \in CoveredLegs(x[1])}
             Age(x) == CHOOSE n \in AgeOf(x[1], x[2]) : TRUE
  <2> SUFFICES ASSUME SumInv, Described, Done("calibration"), ~late
               PROVE  /\ acc.decisions = throughId
                      /\ acc.eligible = Cardinality(Eligible)
                      /\ acc.legacy = throughId - Cardinality(Eligible)
                      /\ <<acc.both, acc.one, acc.none>> = <<Covering(2), Covering(1), Covering(0)>>
                      /\ report.median = {} <=> legs = {}
                      /\ \A n \in report.median :
                            /\ 2 * Cardinality({x \in legs : Age(x) < n}) <= Cardinality(legs)
                            /\ 2 * Cardinality({x \in legs : Age(x) > n}) < Cardinality(legs)
    BY Zenon DEF CalibrationIsExact
  <2>1. /\ status = "done" /\ command = "calibration" /\ afterId = throughId /\ report = Printed
        /\ acc \in AccRecords
    BY DEF SumInv, Types, Progress, Done, Accs
  <2>2. Counted(acc, throughId, Views)
    BY <2>1 DEF Described, SaysOf
  <2>3. /\ Eligible = EligibleIn(Views, throughId) /\ legs = LegsIn(Views, throughId)
        /\ \A k : Covering(k) = Cardinality(CoveringIn(Views, throughId, k))
    BY ViewsAre DEF Covering
  <2>4. report.median = Median(acc.ages)
    BY <2>1 DEF Printed
  <2> DEFINE s == acc.ages
  <2>5. s \in Seq(Int)
    <3>1. s \in Seq(0 .. MaxAge) /\ MaxAge \in Nat
      BY <2>1, SummaryAssumption DEF AccRecords, AgeLists
    <3> QED BY <3>1
  <2>6. PICK b \in Bijection(DOMAIN s, legs) : \A k \in DOMAIN s : s[k] \in AgesIn(Views, b[k])
    BY <2>2, <2>3 DEF Counted, Pairs
  <2>7. /\ b \in [DOMAIN s -> legs]
        /\ \A y \in legs : \E k \in DOMAIN s : b[k] = y
    BY <2>6 DEF Bijection, Injection, Surjection
  <2>8. \A k \in DOMAIN s : Age(b[k]) = s[k]
    <3> SUFFICES ASSUME NEW k \in DOMAIN s PROVE Age(b[k]) = s[k]
      OBVIOUS
    <3>1. PICK i \in Eligible, leg \in {1, 2} : b[k] = <<i, leg>>
      BY <2>7
    <3>2. i \in 1 .. throughId
      BY DEF Eligible, Read
    <3>3. AgeOf(i, leg) = AgesIn(Views, b[k]) /\ (AgeOf(i, leg) = {} \/ \E n \in Int : AgeOf(i, leg) = {n})
      BY <3>1, <3>2, AgeOfIs
    <3>4. s[k] \in AgeOf(i, leg)
      BY <2>6, <3>3
    <3>5. AgeOf(i, leg) = {s[k]}
      BY <3>3, <3>4
    <3>6. b[k][1] = i /\ b[k][2] = leg
      BY <3>1
    <3>7. Age(b[k]) = CHOOSE n \in {s[k]} : TRUE
      BY <3>5, <3>6
    <3> QED BY <3>7
  <2> HIDE DEF legs, Age, s
  <2>9. IsFiniteSet(DOMAIN s) /\ Cardinality(DOMAIN s) = Len(s)
    <3>1. PICK n \in Nat : n = Len(s) /\ DOMAIN s = 1 .. n
      BY <2>5
    <3>2. IsFiniteSet(1 .. n) /\ Cardinality(1 .. n) = IF 1 > n THEN 0 ELSE n - 1 + 1
      BY FS_Interval
    <3> QED BY <3>1, <3>2
  <2>10. Cardinality(legs) = Len(s)
    <3>1. ExistsBijection(DOMAIN s, legs)
      BY <2>6 DEF ExistsBijection
    <3> QED BY <2>9, <3>1, FS_Bijection
  <2>11. Median(s) = {} <=> legs = {}
    <3>1. CASE s = <<>>
      <4>1. legs = {}
        BY <2>7, <3>1
      <4>2. Median(s) = {}
        BY <3>1 DEF Median
      <4> QED BY <4>1, <4>2
    <3>2. CASE s # <<>>
      <4>1. Len(s) \in Nat /\ Len(s) > 0 /\ DOMAIN s = 1 .. Len(s)
        BY <2>5, <3>2, EmptySeq
      <4>2. legs # {}
        <5>1. 1 \in DOMAIN s
          BY <4>1
        <5> QED BY <2>7, <5>1
      <4>3. Median(s) # {}
        BY <2>5, <3>2, MedianIs
      <4> QED BY <4>2, <4>3
    <3> QED BY <3>1, <3>2
  <2>12. ASSUME NEW n \in Median(s)
         PROVE  /\ 2 * Cardinality({x \in legs : Age(x) < n}) <= Cardinality(legs)
                /\ 2 * Cardinality({x \in legs : Age(x) > n}) < Cardinality(legs)
    <3>1. s # <<>>
      BY <2>12 DEF Median
    <3>2. PICK k \in DOMAIN s :
             /\ Median(s) = {s[k]}
             /\ 2 * Cardinality({j \in DOMAIN s : s[j] < s[k]}) <= Len(s)
             /\ 2 * Cardinality({j \in DOMAIN s : s[j] > s[k]}) < Len(s)
      BY <2>5, <3>1, MedianIs
    <3>3. n = s[k]
      BY <2>12, <3>2
    <3> DEFINE less == {j \in DOMAIN s : s[j] < n}
               more == {j \in DOMAIN s : s[j] > n}
               younger == {x \in legs : Age(x) < n}
               older == {x \in legs : Age(x) > n}
    <3>4. /\ less \subseteq DOMAIN s /\ younger \subseteq legs
          /\ \A d \in DOMAIN s : d \in less <=> b[d] \in younger
      BY <2>7, <2>8
    <3>5. /\ more \subseteq DOMAIN s /\ older \subseteq legs
          /\ \A d \in DOMAIN s : d \in more <=> b[d] \in older
      BY <2>7, <2>8
    <3>6. 2 * Cardinality(less) <= Len(s) /\ 2 * Cardinality(more) < Len(s)
      BY <3>2, <3>3
    <3> HIDE DEF less, more, younger, older
    <3>7. Cardinality(younger) = Cardinality(less)
      BY <2>6, <2>9, <3>4, BijectionCounts
    <3>8. Cardinality(older) = Cardinality(more)
      BY <2>6, <2>9, <3>5, BijectionCounts
    <3>9. 2 * Cardinality(younger) <= Cardinality(legs) /\ 2 * Cardinality(older) < Cardinality(legs)
      BY <2>10, <3>6, <3>7, <3>8
    <3> QED BY <3>9 DEF younger, older
  <2>13. report.median = Median(s)
    BY <2>4 DEF s
  <2>14. /\ acc.decisions = throughId /\ acc.eligible = Cardinality(Eligible)
         /\ acc.legacy = throughId - Cardinality(Eligible)
         /\ <<acc.both, acc.one, acc.none>> = <<Covering(2), Covering(1), Covering(0)>>
    BY <2>2, <2>3 DEF Counted
  <2> QED BY <2>11, <2>12, <2>13, <2>14
<1> QED BY <1>1, SumInvHolds, DescribedHolds, PTL

\* The snapshot a covered decision saw of a leg is the one of that token and time.
LEMMA LegSeen ==
  ASSUME SumInv, NEW i \in 1 .. throughId, NEW leg \in {1, 2}, Views[i].near[leg] # {}
  PROVE  LET s == NewestIn(Views, i, leg)
         IN /\ SeenAt(i, leg) = s.at
            /\ s = CHOOSE r \in Range(store) : r.token = <<table[i].market, leg>> /\ r.at = SeenAt(i, leg)
<1> DEFINE s == NewestIn(Views, i, leg)
           t == table[i].at
           token == <<table[i].market, leg>>
<1>1. throughId \in Nat /\ throughId <= Len(table) /\ table \in Seq(Decisions) /\ store \in Seq(Snapshots)
      /\ SampledOnce
  BY DEF SumInv, Types
<1>2. t \in Times /\ MaxTime \in Nat /\ t \in Int
  <2>1. i \in 1 .. Len(table)
    BY <1>1
  <2>2. table[i] \in Decisions
    BY <1>1, <2>1
  <2> QED BY <2>2, SummaryAssumption DEF Decisions, Times
<1>3. Views[i].row = table[i] /\ Views[i].near[leg] = Nearest(i, leg)
  BY DEF Views
<1>4. s \in Nearest(i, leg)
  BY <1>3 DEF NewestIn
<1>5. Range(store) \in SUBSET Snapshots
  BY <1>1 DEF Range
<1> HIDE DEF s
<1>6. s \in Range(store) /\ s.token = token /\ s.at \in Int
  <2> DEFINE R == Range(store)
  <2>1. R \in SUBSET Snapshots /\ s \in Preceding(R, token, t)
    BY <1>4, <1>5 DEF Nearest
  <2> HIDE DEF R, token, t
  <2>2. s \in R /\ s.token = token /\ s.at \in Times
    BY <1>2, <2>1, PrecedingIs
  <2> QED BY <1>2, <2>2 DEF R, Times
<1>7. t - s.at \in AgeOf(i, leg)
  <2>1. AgeOf(i, leg) = AgesIn(Views, <<i, leg>>)
    BY AgeOfIs
  <2>2. AgesIn(Views, <<i, leg>>) = {t - r.at : r \in Nearest(i, leg)}
    BY <1>3 DEF AgesIn
  <2> QED BY <1>4, <2>1, <2>2
<1>8. AgeOf(i, leg) = {t - s.at}
  <2>1. AgeOf(i, leg) = {} \/ \E n \in Int : AgeOf(i, leg) = {n}
    BY AgeOfIs
  <2> QED BY <1>7, <2>1
<1>9. SeenAt(i, leg) = s.at
  <2>1. SeenAt(i, leg) = t - (CHOOSE n \in {t - s.at} : TRUE)
    BY <1>8 DEF SeenAt
  <2>2. (CHOOSE n \in {t - s.at} : TRUE) = t - s.at
    OBVIOUS
  <2> QED BY <1>2, <1>6, <2>1, <2>2
<1>10. \A r \in Range(store) : r.token = token /\ r.at = s.at => r = s
  BY <1>1, <1>6 DEF SampledOnce
<1> DEFINE c == CHOOSE r \in Range(store) : r.token = token /\ r.at = SeenAt(i, leg)
<1>11. c \in Range(store) /\ c.token = token /\ c.at = s.at
  <2>1. \E r \in Range(store) : r.token = token /\ r.at = SeenAt(i, leg)
    BY <1>6, <1>9
  <2> QED BY <1>9, <2>1
<1>12. c = s
  BY <1>10, <1>11
<1> QED BY <1>9, <1>12 DEF s

\* A covered decision saw the pair of samples it is said to have seen.
LEMMA PairSeen ==
  ASSUME SumInv, NEW i \in 1 .. throughId, \A leg \in {1, 2} : Views[i].near[leg] # {}
  PROVE  /\ KeyOf(Views, i) = SeenBy(i)
         /\ UsableFor(i) <=> Usable(NewestIn(Views, i, 1), NewestIn(Views, i, 2))
<1> DEFINE c(leg) == CHOOSE s \in Range(store) : /\ s.token = <<table[i].market, leg>>
                                               /\ s.at = SeenAt(i, leg)
<1>1. \A leg \in {1, 2} : /\ SeenAt(i, leg) = NewestIn(Views, i, leg).at
                          /\ NewestIn(Views, i, leg) = c(leg)
  BY LegSeen
<1>2. Views[i].row = table[i]
  BY DEF Views
<1>3. KeyOf(Views, i) = SeenBy(i)
  BY <1>1, <1>2 DEF KeyOf, SampleKey, SeenBy
<1>4. UsableFor(i) <=> Usable(c(1), c(2))
  BY DEF UsableFor
<1> HIDE DEF c
<1> QED BY <1>1, <1>3, <1>4

\* What store-replay-summary replays is every usable pair of samples that a decision
\* saw, once, at the first decision that saw it.
THEOREM ReplayIsOfThePairs == Spec => []ReplayIsExact
<1>1. SumInv /\ Described => ReplayIsExact
  <2> DEFINE covered == {i \in Eligible : Cardinality(CoveredLegs(i)) = 2}
             first == {i \in covered : /\ UsableFor(i)
                                       /\ \A j \in covered : SeenBy(j) = SeenBy(i) => i <= j}
             replayed == acc.observations
  <2> SUFFICES ASSUME SumInv, Described, Done("replay"), ~late
               PROVE  /\ acc.eligible = Cardinality(Eligible) /\ acc.both = Cardinality(covered)
                      /\ Len(replayed) = Cardinality(first)
                      /\ \A i \in first : \E o \in Range(replayed) :
                            /\ o.at = table[i].at
                            /\ <<o.market, o.a.at, o.b.at>> = SeenBy(i)
    BY Zenon DEF ReplayIsExact
  <2>1. status = "done" /\ command = "replay" /\ afterId = throughId
    BY DEF SumInv, Progress, Done
  <2>2. Collected(acc, throughId, Views)
    BY <2>1 DEF Described, SaysOf
  <2>3. Eligible = EligibleIn(Views, throughId) /\ covered = CoveringIn(Views, throughId, 2)
    BY ViewsAre
  <2>4. ASSUME NEW i \in covered
        PROVE  /\ KeyOf(Views, i) = SeenBy(i) /\ i \in 1 .. throughId
               /\ UsableFor(i) <=> Usable(NewestIn(Views, i, 1), NewestIn(Views, i, 2))
    <3>1. i \in 1 .. throughId
      BY DEF Eligible, Read
    <3>2. Cardinality(LegsOf(Views, i)) = 2
      BY <2>3 DEF CoveringIn
    <3>3. \A leg \in {1, 2} : Views[i].near[leg] # {}
      BY <3>2, TwoLegs
    <3> QED BY <3>1, <3>3, PairSeen
  <2>5. first = FirstIn(Views, throughId)
    <3>1. FirstIn(Views, throughId) =
            {i \in covered : /\ Usable(NewestIn(Views, i, 1), NewestIn(Views, i, 2))
                             /\ \A j \in covered : KeyOf(Views, j) = KeyOf(Views, i) => i <= j}
      BY <2>3 DEF FirstIn
    <3> HIDE DEF covered
    <3> QED BY <2>4, <3>1
  <2>6. ASSUME NEW i \in first
        PROVE  \E o \in Range(replayed) : /\ o.at = table[i].at
                                          /\ <<o.market, o.a.at, o.b.at>> = SeenBy(i)
    <3>1. PICK k \in DOMAIN replayed : Observed(replayed[k], Views, i)
      BY <2>2, <2>5, <2>6 DEF Collected
    <3>2. i \in covered
      OBVIOUS
    <3>3. KeyOf(Views, i) = SeenBy(i) /\ i \in 1 .. throughId
      BY <2>4, <3>2
    <3>4. Views[i].row = table[i]
      BY <3>3 DEF Views
    <3> DEFINE o == replayed[k]
    <3>5. /\ o.at = table[i].at /\ o.market = table[i].market
          /\ o.a = NewestIn(Views, i, 1) /\ o.b = NewestIn(Views, i, 2)
      BY <3>1, <3>4 DEF Observed
    <3>6. o \in Range(replayed)
      BY DEF Range
    <3> HIDE DEF o, replayed
    <3>7. KeyOf(Views, i) = <<o.market, o.a.at, o.b.at>>
      BY <3>4, <3>5 DEF KeyOf, SampleKey
    <3> QED BY <3>3, <3>5, <3>6, <3>7
  <2> HIDE DEF first, covered
  <2>7. /\ acc.eligible = Cardinality(Eligible) /\ acc.both = Cardinality(covered)
        /\ Len(replayed) = Cardinality(first)
    BY <2>2, <2>3, <2>5 DEF Collected
  <2> QED BY <2>6, <2>7 DEF first, covered
<1> QED BY <1>1, SumInvHolds, DescribedHolds, PTL

-----------------------------------------------------------------------------
(* Episodes: the hits of a slice as the list f of N hits in their order.   *)

\* A hit of Hits.
HitRecords == [market : Nat, direction : Directions, at : Times, profit : Int]

\* The order of the sort in episode_slice: market, direction, time.
InOrder(h, k) ==
    /\ h.market <= k.market
    /\ h.market = k.market => DirectionRank(h.direction) <= DirectionRank(k.direction)
    /\ h.market = k.market /\ h.direction = k.direction => h.at <= k.at

\* f lists N hits in their order.
Listed(f, N) ==
    /\ N \in Nat /\ f \in [1 .. N -> HitRecords]
    /\ \A m, k \in 1 .. N : m <= k => InOrder(f[m], f[k])

\* The places where an episode starts.
Starts(f, N) == {n \in 1 .. N : n = 1 \/ ~Continues(f[n - 1], f[n])}

\* No episode starts behind the one of a and b up to the other.
Joined(starts, a, b) == \A m \in starts : m <= a <=> m <= b

\* Of one market and direction.
Alike(h, k) == h.market = k.market /\ h.direction = k.direction

\* What SameEpisode says of the hits a and b of the list.
Close(f, N, a, b) ==
    /\ Alike(f[a], f[b])
    /\ \A t \in Times :
         Min({f[a].at, f[b].at}) <= t /\ t < Max({f[a].at, f[b].at}) =>
            \E p, q \in 1 .. N : /\ Alike(f[p], f[a]) /\ Alike(f[q], f[a])
                                 /\ f[p].at <= t /\ t < f[q].at /\ f[q].at - f[p].at <= Gap

\* Hits between two that are alike are like them.
LEMMA AlikeBetween ==
  ASSUME NEW N, NEW f, Listed(f, N), NEW a \in 1 .. N, NEW m \in 1 .. N, NEW b \in 1 .. N,
         a <= m, m <= b, Alike(f[a], f[b])
  PROVE  Alike(f[a], f[m]) /\ f[a].at <= f[m].at /\ f[m].at <= f[b].at
<1>1. InOrder(f[a], f[m]) /\ InOrder(f[m], f[b])
  BY DEF Listed
<1>2. f[a] \in HitRecords /\ f[m] \in HitRecords /\ f[b] \in HitRecords
  BY DEF Listed
<1>3. f[a].market \in Nat /\ f[m].market \in Nat /\ f[b].market \in Nat
      /\ f[a].direction \in Directions /\ f[m].direction \in Directions /\ f[b].direction \in Directions
  BY <1>2 DEF HitRecords
<1>4. f[a].market = f[b].market /\ f[a].direction = f[b].direction
  BY DEF Alike
<1>5. f[m].market = f[a].market
  BY <1>1, <1>3, <1>4 DEF InOrder
<1>6. f[m].direction = f[a].direction
  <2>1. /\ DirectionRank(f[a].direction) <= DirectionRank(f[m].direction)
        /\ DirectionRank(f[m].direction) <= DirectionRank(f[a].direction)
    BY <1>1, <1>4, <1>5 DEF InOrder
  <2> QED BY <1>3, <2>1 DEF DirectionRank, Directions
<1> QED BY <1>1, <1>4, <1>5, <1>6 DEF InOrder, Alike

\* From one hit to another without a start between them every hit continues the one before.
LEMMA JoinedContinue ==
  ASSUME NEW N, NEW f, Listed(f, N), NEW a \in 1 .. N, NEW b \in 1 .. N, a <= b,
         Joined(Starts(f, N), a, b)
  PROVE  \A m \in (a + 1) .. b : m \in 1 .. N /\ m - 1 \in a .. b /\ Continues(f[m - 1], f[m])
<1> SUFFICES ASSUME NEW m \in (a + 1) .. b
             PROVE  m \in 1 .. N /\ m - 1 \in a .. b /\ Continues(f[m - 1], f[m])
  OBVIOUS
<1>1. N \in Nat
  BY DEF Listed
<1>2. m \in 1 .. N /\ m - 1 \in a .. b /\ ~(m <= a) /\ m <= b /\ m # 1
  BY <1>1
<1>3. m \notin Starts(f, N)
  BY <1>2 DEF Joined
<1> QED BY <1>2, <1>3 DEF Starts

\* Hits without a start between them are alike.
LEMMA JoinedAlike ==
  ASSUME NEW N, NEW f, Listed(f, N), NEW a \in 1 .. N, NEW b \in 1 .. N, a <= b,
         Joined(Starts(f, N), a, b)
  PROVE  \A m \in a .. b : Alike(f[a], f[m])
<1> DEFINE B == {m \in a .. b : ~Alike(f[a], f[m])}
<1> SUFFICES ASSUME B # {} PROVE FALSE
  OBVIOUS
<1>1. a \in Int /\ b \in Int
  BY DEF Listed
<1>2. IsFiniteSet(B) /\ \A m \in B : m \in Int
  <2>1. IsFiniteSet(a .. b) /\ B \subseteq a .. b
    BY <1>1, FS_Interval
  <2>2. \A m \in a .. b : m \in Int
    BY <1>1
  <2> HIDE DEF B
  <2> QED BY <2>1, <2>2, FS_Subset
<1>3. PICK m \in B : \A k \in B : m <= k
  <2> HIDE DEF B
  <2> QED BY <1>2, LeastExists
<1>4. m \in a .. b /\ ~Alike(f[a], f[m])
  OBVIOUS
<1>5. m # a
  BY <1>4 DEF Alike
<1>6. m \in (a + 1) .. b /\ m \in Int
  BY <1>1, <1>4, <1>5
<1>7. m - 1 \in a .. b /\ Continues(f[m - 1], f[m])
  BY <1>6, JoinedContinue
<1>8. m - 1 \notin B
  BY <1>3, <1>6
<1>9. Alike(f[a], f[m - 1])
  BY <1>7, <1>8
<1> QED BY <1>4, <1>7, <1>9 DEF Alike, Continues

\* Hits of the list are close to each other if and only if no episode starts between them.
LEMMA CloseIsJoined ==
  ASSUME NEW N, NEW f, Listed(f, N), NEW a \in 1 .. N, NEW b \in 1 .. N, a <= b
  PROVE  Close(f, N, a, b) <=> Joined(Starts(f, N), a, b)
<1>0. N \in Nat /\ MaxTime \in Nat /\ Gap \in Nat
  BY SummaryAssumption, ReportAssumption DEF Listed
<1>1. \A m \in 1 .. N : f[m].at \in Times /\ f[m].at \in Int
  <2>1. \A m \in 1 .. N : f[m] \in HitRecords
    BY DEF Listed
  <2> QED BY <1>0, <2>1 DEF HitRecords, Times
<1>2. Alike(f[a], f[b]) => Min({f[a].at, f[b].at}) = f[a].at /\ Max({f[a].at, f[b].at}) = f[b].at
  <2> SUFFICES ASSUME Alike(f[a], f[b])
               PROVE  Min({f[a].at, f[b].at}) = f[a].at /\ Max({f[a].at, f[b].at}) = f[b].at
    OBVIOUS
  <2>1. f[a].at <= f[b].at
    <3>1. a <= a
      BY <1>0
    <3> QED BY <3>1, AlikeBetween
  <2> DEFINE x == f[a].at
             y == f[b].at
  <2>2. x \in Int /\ y \in Int
    BY <1>1
  <2> HIDE DEF x, y
  <2>3. Min({x, y}) = (IF x <= y THEN x ELSE y) /\ Max({x, y}) = (IF x <= y THEN y ELSE x)
    BY <2>2, LesserIs, GreaterIs
  <2> QED BY <2>1, <2>3 DEF x, y
<1>3. ASSUME Joined(Starts(f, N), a, b) PROVE Close(f, N, a, b)
  <2>1. \A m \in a .. b : Alike(f[a], f[m])
    BY <1>3, JoinedAlike
  <2>2. Alike(f[a], f[b])
    BY <1>0, <2>1
  <2>3. ASSUME NEW t \in Times, f[a].at <= t, t < f[b].at
        PROVE  \E p, q \in 1 .. N : /\ Alike(f[p], f[a]) /\ Alike(f[q], f[a])
                                    /\ f[p].at <= t /\ t < f[q].at /\ f[q].at - f[p].at <= Gap
    <3> DEFINE B == {m \in a .. b : t < f[m].at}
    <3>1. IsFiniteSet(B) /\ (\A m \in B : m \in Int) /\ B # {}
      <4>1. IsFiniteSet(a .. b) /\ B \subseteq a .. b
        BY <1>0, FS_Interval
      <4>2. \A m \in a .. b : m \in Int
        BY <1>0
      <4>3. b \in B
        BY <1>0, <2>3
      <4> HIDE DEF B
      <4> QED BY <4>1, <4>2, <4>3, FS_Subset
    <3>2. PICK m \in B : \A k \in B : m <= k
      <4> HIDE DEF B
      <4> QED BY <3>1, LeastExists
    <3>3. m \in a .. b /\ t < f[m].at /\ m \in Int
      BY <3>1
    <3>4. t \in Int
      BY <1>0 DEF Times
    <3>5. m # a
      BY <1>1, <2>3, <3>3, <3>4
    <3>6. m \in (a + 1) .. b
      BY <1>0, <3>3, <3>5
    <3>7. m \in 1 .. N /\ m - 1 \in a .. b /\ Continues(f[m - 1], f[m])
      BY <1>3, <3>6, JoinedContinue
    <3>8. m - 1 \in 1 .. N
      BY <1>0, <3>7
    <3>9. f[m - 1].at <= t
      <4>1. m - 1 \notin B
        BY <3>2, <3>3
      <4> QED BY <1>1, <3>4, <3>7, <3>8, <4>1
    <3>10. Alike(f[m - 1], f[a]) /\ Alike(f[m], f[a])
      BY <2>1, <3>3, <3>7 DEF Alike
    <3> QED BY <3>3, <3>7, <3>8, <3>9, <3>10 DEF Continues
  <2> QED BY <1>2, <2>2, <2>3 DEF Close
<1>4. ASSUME Close(f, N, a, b) PROVE Joined(Starts(f, N), a, b)
  <2> SUFFICES ASSUME NEW m \in Starts(f, N), ~(m <= a <=> m <= b) PROVE FALSE
    BY DEF Joined
  <2>1. m \in 1 .. N /\ a < m /\ m <= b /\ m \in Int /\ m # 1
    BY <1>0 DEF Starts
  <2>2. m - 1 \in 1 .. N /\ a <= m - 1 /\ m - 1 <= m /\ m - 1 <= b
    BY <1>0, <2>1
  <2>3. ~Continues(f[m - 1], f[m])
    BY <2>1 DEF Starts
  <2>4. Alike(f[a], f[b])
    BY <1>4 DEF Close
  <2> DEFINE l == m - 1
             t == f[l].at
  <2>5. l \in 1 .. N /\ a <= l /\ l <= m /\ l <= b /\ a <= m /\ l + 1 = m /\ l \in Int
    BY <2>1, <2>2
  <2>6. ~Continues(f[l], f[m])
    BY <2>3
  <2> HIDE DEF l
  <2>7. Alike(f[a], f[l]) /\ f[a].at <= t /\ t <= f[b].at
    BY <2>4, <2>5, AlikeBetween
  <2>8. Alike(f[a], f[m]) /\ f[a].at <= f[m].at /\ f[m].at <= f[b].at
    BY <2>1, <2>4, <2>5, AlikeBetween
  <2>9. f[m].at - t > Gap /\ f[m].at \in Int /\ t \in Int /\ t \in Times /\ f[b].at \in Int
    <3>1. ~(f[m].at - t <= Gap)
      BY <2>6, <2>7, <2>8 DEF Continues, Alike
    <3> QED BY <1>0, <1>1, <2>1, <2>5, <3>1
  <2>10. t < f[b].at
    BY <1>0, <2>8, <2>9
  <2>11. PICK p \in 1 .. N, q \in 1 .. N :
           /\ Alike(f[p], f[a]) /\ Alike(f[q], f[a])
           /\ f[p].at <= t /\ t < f[q].at /\ f[q].at - f[p].at <= Gap
    BY <1>2, <1>4, <2>4, <2>7, <2>9, <2>10 DEF Close
  <2>12. f[p].at \in Int /\ f[q].at \in Int
    BY <1>1
  <2>13. ~(q <= l)
    <3>1. ASSUME q <= l PROVE f[q].at <= t
      <4>1. InOrder(f[q], f[l])
        BY <2>5, <3>1 DEF Listed
      <4> QED BY <2>7, <2>11, <4>1 DEF InOrder, Alike
    <3> QED BY <2>9, <2>11, <2>12, <3>1
  <2>14. m <= q
    BY <1>0, <2>5, <2>13
  <2>15. f[m].at <= f[q].at
    <3>1. InOrder(f[m], f[q])
      BY <2>1, <2>14 DEF Listed
    <3> QED BY <2>8, <2>11, <3>1 DEF InOrder, Alike
  <2> HIDE DEF t
  <2> QED BY <1>0, <2>9, <2>11, <2>12, <2>15
<1> QED BY <1>3, <1>4

\* The order of the hits is total and transitive, and Before is its strict part.
LEMMA HitsInOrder ==
  /\ \A h, k \in HitRecords : Before(h, k) <=> ~InOrder(k, h)
  /\ \A h, k \in HitRecords : InOrder(h, k) \/ InOrder(k, h)
  /\ \A h, k, l \in HitRecords : InOrder(h, k) /\ InOrder(k, l) => InOrder(h, l)
<1>1. \A h \in HitRecords : h.market \in Int /\ h.at \in Int /\ DirectionRank(h.direction) \in Int
                            /\ h.direction \in Directions
  BY SummaryAssumption DEF HitRecords, Times, DirectionRank
<1>2. \A d, e \in Directions : DirectionRank(d) = DirectionRank(e) <=> d = e
  BY DEF Directions, DirectionRank
<1>3. ASSUME NEW h \in HitRecords, NEW k \in HitRecords
      PROVE  /\ Before(h, k) <=> ~InOrder(k, h)
             /\ InOrder(h, k) \/ InOrder(k, h)
  <2> DEFINE x == DirectionRank(h.direction)
             y == DirectionRank(k.direction)
  <2>1. x \in Int /\ y \in Int /\ (x = y <=> h.direction = k.direction)
    BY <1>1, <1>2
  <2>2. Before(h, k) <=> \/ h.market < k.market
                         \/ h.market = k.market /\ x < y
                         \/ h.market = k.market /\ x = y /\ h.at < k.at
    BY <2>1 DEF Before
  <2>3. /\ InOrder(k, h) <=> /\ k.market <= h.market
                             /\ k.market = h.market => y <= x
                             /\ k.market = h.market /\ x = y => k.at <= h.at
        /\ InOrder(h, k) <=> /\ h.market <= k.market
                             /\ k.market = h.market => x <= y
                             /\ k.market = h.market /\ x = y => h.at <= k.at
    BY <2>1 DEF InOrder
  <2> HIDE DEF x, y
  <2> QED BY <1>1, <2>1, <2>2, <2>3
<1>4. ASSUME NEW h \in HitRecords, NEW k \in HitRecords, NEW l \in HitRecords,
             InOrder(h, k), InOrder(k, l)
      PROVE  InOrder(h, l)
  <2> DEFINE x == DirectionRank(h.direction)
             y == DirectionRank(k.direction)
             z == DirectionRank(l.direction)
  <2>1. x \in Int /\ y \in Int /\ z \in Int /\ (x = y <=> h.direction = k.direction)
        /\ (y = z <=> k.direction = l.direction) /\ (x = z <=> h.direction = l.direction)
    BY <1>1, <1>2
  <2>2. /\ h.market <= k.market
        /\ k.market = h.market => x <= y
        /\ k.market = h.market /\ x = y => h.at <= k.at
    BY <1>4, <2>1 DEF InOrder
  <2>3. /\ k.market <= l.market
        /\ k.market = l.market => y <= z
        /\ k.market = l.market /\ y = z => k.at <= l.at
    BY <1>4, <2>1 DEF InOrder
  <2> HIDE DEF x, y, z
  <2>4. /\ h.market <= l.market
        /\ h.market = l.market => x <= z
        /\ h.market = l.market /\ x = z => h.at <= l.at
    BY <1>1, <2>1, <2>2, <2>3
  <2> QED BY <2>1, <2>4 DEF InOrder, x, z
<1> QED BY <1>3, <1>4

\* i before j in the stable sort of the hits.
Sorted(D, hits) ==
    {p \in D \X D : \/ Before(hits[p[1]], hits[p[2]])
                    \/ ~Before(hits[p[2]], hits[p[1]]) /\ p[1] < p[2]}

\* The sort of the hits lists each of them once, in their order.
LEMMA HitsListed ==
  ASSUME NEW D, IsFiniteSet(D), D \subseteq Int, NEW hits \in [D -> HitRecords]
  PROVE  LET order == Order(hits, Before)
             N == Cardinality(D)
         IN /\ Listed([n \in 1 .. N |-> hits[order[n]]], N)
            /\ order \in [1 .. N -> D] /\ DOMAIN order = 1 .. N /\ Len(order) = N
            /\ \A a, b \in 1 .. N : order[a] = order[b] => a = b
            /\ \A i \in D : \E a \in 1 .. N : order[a] = i
<1> DEFINE rank == [i \in D |-> Cardinality({j \in D : \/ Before(hits[j], hits[i])
                                                       \/ ~Before(hits[i], hits[j]) /\ j < i})]
           N == Cardinality(D)
           R == Sorted(D, hits)
           f == [n \in 1 .. N |-> CHOOSE i \in D : rank[i] = n - 1]
           g == [n \in 1 .. N |-> hits[f[n]]]
<1>1. Order(hits, Before) = f
  <2>1. DOMAIN hits = D
    OBVIOUS
  <2> QED BY <2>1 DEF Order
<1>2. \A i \in D : i \in Int /\ hits[i] \in HitRecords
  OBVIOUS
<1>3. \A i, j \in D : <<i, j>> \in R <=> \/ ~InOrder(hits[j], hits[i])
                                         \/ InOrder(hits[i], hits[j]) /\ i < j
  BY <1>2, HitsInOrder DEF Sorted
<1>4. StrictOrder(D, R)
  <2> HIDE DEF R
  <2> DEFINE Le(i, j) == InOrder(hits[i], hits[j])
  <2>1. /\ \A i, j \in D : Le(i, j) \/ Le(j, i)
        /\ \A i, j, k \in D : Le(i, j) /\ Le(j, k) => Le(i, k)
    BY <1>2, HitsInOrder
  <2>2. \A i, j \in D : <<i, j>> \in R <=> (~Le(j, i) \/ (Le(i, j) /\ i < j))
    BY <1>3
  <2> HIDE DEF Le
  <2>3. \A m \in D : <<m, m>> \notin R
    BY <1>2, <2>1, <2>2
  <2>4. \A l, m, k \in D : <<l, m>> \in R /\ <<m, k>> \in R => <<l, k>> \in R
    <3> SUFFICES ASSUME NEW l \in D, NEW m \in D, NEW k \in D, <<l, m>> \in R, <<m, k>> \in R
                 PROVE  <<l, k>> \in R
      OBVIOUS
    <3>1. (~Le(m, l) \/ (Le(l, m) /\ l < m)) /\ (~Le(k, m) \/ (Le(m, k) /\ m < k))
      BY <2>2
    <3>2. Le(l, m) /\ Le(m, k) /\ Le(l, k)
      BY <2>1, <3>1
    <3>3. l < m /\ m < k => l < k
      BY <1>2
    <3> QED BY <2>1, <2>2, <3>1, <3>2, <3>3
  <2>5. \A l, m \in D : l = m \/ <<l, m>> \in R \/ <<m, l>> \in R
    <3> SUFFICES ASSUME NEW l \in D, NEW m \in D PROVE l = m \/ <<l, m>> \in R \/ <<m, l>> \in R
      BY Zenon
    <3>1. l = m \/ l < m \/ m < l
      BY <1>2
    <3> QED BY <2>1, <2>2, <3>1
  <2> QED BY <2>3, <2>4, <2>5 DEF StrictOrder
<1>5. \A m \in D : rank[m] = Cardinality(BelowIn(D, R, m))
  <2> SUFFICES ASSUME NEW m \in D PROVE rank[m] = Cardinality(BelowIn(D, R, m))
    OBVIOUS
  <2>1. BelowIn(D, R, m) = {j \in D : \/ Before(hits[j], hits[m])
                                      \/ ~Before(hits[m], hits[j]) /\ j < m}
    BY DEF BelowIn, Sorted
  <2> QED BY <2>1
<1> HIDE DEF rank
<1>6. IsRanking(f, D, rank)
  BY DEF IsRanking
<1> HIDE DEF f, R
<1>7. /\ N \in Nat
      /\ f \in [1 .. N -> D]
      /\ \A i, j \in 1 .. N : <<f[i], f[j]>> \in R <=> i < j
      /\ \A m \in D : \E n \in 1 .. N : f[n] = m
  <2>1. /\ Cardinality(D) \in Nat
        /\ f \in [1 .. Cardinality(D) -> D]
        /\ \A n \in 1 .. Cardinality(D) : rank[f[n]] = n - 1
        /\ \A i, j \in 1 .. Cardinality(D) : <<f[i], f[j]>> \in R <=> i < j
        /\ \A m \in D : \E n \in 1 .. Cardinality(D) : f[n] = m
    BY ONLY IsFiniteSet(D), <1>4, <1>5, <1>6, RankedIs
  <2> QED BY <2>1
<1> HIDE DEF N
<1>8. Listed(g, N)
  <2>1. g \in [1 .. N -> HitRecords] /\ \A n \in 1 .. N : g[n] = hits[f[n]]
    BY <1>2, <1>7
  <2>2. ASSUME NEW m \in 1 .. N, NEW k \in 1 .. N, m <= k PROVE InOrder(g[m], g[k])
    <3>1. g[m] \in HitRecords /\ g[k] \in HitRecords /\ f[m] \in D /\ f[k] \in D
      BY <1>7, <2>1
    <3>2. CASE m = k
      BY <3>1, <3>2, HitsInOrder
    <3>3. CASE m < k
      <4>1. <<f[m], f[k]>> \in R
        BY <1>7, <3>3
      <4>2. ~InOrder(g[k], g[m]) \/ InOrder(g[m], g[k])
        BY <1>3, <2>1, <3>1, <4>1
      <4> QED BY <3>1, <4>2, HitsInOrder
    <3>4. m \in Int /\ k \in Int
      BY <1>7
    <3> QED BY <2>2, <3>2, <3>3, <3>4
  <2> QED BY <1>7, <2>1, <2>2 DEF Listed
<1>9. \A a, b \in 1 .. N : f[a] = f[b] => a = b
  <2> SUFFICES ASSUME NEW a \in 1 .. N, NEW b \in 1 .. N, f[a] = f[b] PROVE a = b
    OBVIOUS
  <2>1. ~(a < b) /\ ~(b < a)
    <3>1. ~(a < a)
      BY <1>7
    <3>2. <<f[a], f[b]>> \notin R /\ <<f[b], f[a]>> \notin R
      BY <1>7, <3>1
    <3> QED BY <1>7, <3>2
  <2> QED BY <1>7, <2>1
<1>10. DOMAIN f = 1 .. N /\ Len(f) = N
  <2>1. f \in Seq(D)
    BY <1>7
  <2> QED BY <1>7, <2>1
<1> QED BY <1>1, <1>7, <1>8, <1>9, <1>10 DEF N

\* The last hit of the episode that starts at n.
EndIn(starts, N, n) == Min({m \in starts : m > n} \union {N + 1}) - 1

\* An episode reaches up to the next start.
LEMMA EpisodeReaches ==
  ASSUME NEW N \in Nat, NEW starts, starts \subseteq 1 .. N, NEW n \in starts
  PROVE  /\ EndIn(starts, N, n) \in n .. N
         /\ \A b \in 1 .. N : Joined(starts, n, b) <=> b \in n .. EndIn(starts, N, n)
<1> DEFINE later == {m \in starts : m > n}
           R == later \union {N + 1}
           e == Min(R)
<1>1. \A m \in starts : m \in 1 .. N /\ m \in Int
  OBVIOUS
<1>2. IsFiniteSet(R) /\ R # {} /\ \A y \in R : y \in Int
  <2>1. later \subseteq 1 .. N
    OBVIOUS
  <2>2. IsFiniteSet(later)
    <3>1. IsFiniteSet(1 .. N)
      BY FS_Interval
    <3> HIDE DEF later
    <3> QED BY <2>1, <3>1, FS_Subset
  <2> HIDE DEF later
  <2>3. IsFiniteSet(R)
    BY <2>2, FS_AddElement
  <2>4. N + 1 \in Int /\ \A y \in later : y \in Int
    BY <2>1
  <2> QED BY <2>3, <2>4
<1>3. e \in R /\ \A y \in R : e <= y
  <2> HIDE DEF R
  <2> QED BY <1>2, MinIsElement
<1>4. e \in Int /\ e > n /\ e <= N + 1 /\ (e = N + 1 \/ e \in starts)
  <2>1. e \in Int /\ e <= N + 1
    BY <1>2, <1>3
  <2>2. e = N + 1 \/ (e \in starts /\ e > n)
    BY <1>3
  <2> HIDE DEF e
  <2> QED BY <2>1, <2>2
<1>5. EndIn(starts, N, n) = e - 1
  BY DEF EndIn
<1>6. ASSUME NEW b \in 1 .. N PROVE Joined(starts, n, b) <=> n <= b /\ b < e
  <2>1. ASSUME Joined(starts, n, b) PROVE n <= b /\ b < e
    <3>1. n <= n <=> n <= b
      BY <2>1 DEF Joined
    <3>2. ~(e <= b)
      <4>1. ASSUME e <= b PROVE FALSE
        <5>1. e \in starts
          BY <1>4, <4>1
        <5>2. e <= n <=> e <= b
          BY <2>1, <5>1 DEF Joined
        <5> QED BY <1>1, <1>4, <4>1, <5>2
      <4> QED BY <4>1
    <3> QED BY <1>1, <1>4, <3>1, <3>2
  <2>2. ASSUME n <= b, b < e PROVE Joined(starts, n, b)
    <3> SUFFICES ASSUME NEW m \in starts PROVE m <= n <=> m <= b
      BY DEF Joined
    <3>1. m > n => e <= m
      BY <1>3
    <3> QED BY <1>1, <1>4, <2>2, <3>1
  <2> QED BY <2>1, <2>2
<1> HIDE DEF e
<1>7. n \in 1 .. N
  OBVIOUS
<1>8. e - 1 \in n .. N
  BY <1>4, <1>7
<1>9. \A b \in 1 .. N : n <= b /\ b < e <=> b \in n .. (e - 1)
  BY <1>4, <1>7
<1> QED BY <1>5, <1>6, <1>8, <1>9

\* Every hit is of an episode that starts at it or before it.
LEMMA EpisodeOf ==
  ASSUME NEW N \in Nat, NEW starts, starts \subseteq 1 .. N, NEW a \in 1 .. N, 1 \in starts
  PROVE  \E n \in starts : Joined(starts, n, a)
<1> DEFINE B == {m \in starts : m <= a}
<1>1. \A m \in starts : m \in Int
  OBVIOUS
<1>2. IsFiniteSet(B) /\ B # {} /\ \A m \in B : m \in Int
  <2>1. IsFiniteSet(1 .. N)
    BY FS_Interval
  <2>2. B \subseteq 1 .. N /\ \A m \in B : m \in Int
    BY <1>1
  <2>3. 1 \in B
    OBVIOUS
  <2> HIDE DEF B
  <2> QED BY <2>1, <2>2, <2>3, FS_Subset
<1>3. Max(B) \in B /\ \A y \in B : Max(B) >= y
  <2> HIDE DEF B
  <2> QED BY <1>2, MaxIsElement
<1> DEFINE n == Max(B)
<1>4. n \in starts /\ n <= a /\ \A m \in starts : m <= a => m <= n
  BY <1>1, <1>3
<1> HIDE DEF n
<1>5. Joined(starts, n, a)
  BY <1>1, <1>4 DEF Joined
<1> QED BY <1>4, <1>5

\* Being joined is an equivalence.
LEMMA JoinedIsEquivalence ==
  ASSUME NEW starts, NEW a, NEW b, Joined(starts, a, b)
  PROVE  /\ Joined(starts, b, a)
         /\ \A c : Joined(starts, b, c) <=> Joined(starts, a, c)
BY DEF Joined

\* The class of each element of D, listed by order, is the episode it is in.
IsClassing(class, D, order, N, starts) ==
    /\ \A i \in D : class[i] \subseteq D
    /\ \A a, b \in 1 .. N : order[b] \in class[order[a]] <=> Joined(starts, a, b)

\* order lists every element of D once.
Lists(order, N, D) ==
    /\ order \in [1 .. N -> D]
    /\ \A a, b \in 1 .. N : order[a] = order[b] => a = b
    /\ \A i \in D : \E a \in 1 .. N : order[a] = i

\* There is a class for each start, and it is what its episode reaches.
AreEpisodes(class, D, order, N, starts) ==
    /\ {class[i] : i \in D} = {class[order[n]] : n \in starts}
    /\ \A n \in starts :
         /\ EndIn(starts, N, n) \in n .. N
         /\ class[order[n]] = {order[m] : m \in n .. EndIn(starts, N, n)}
         /\ Cardinality(class[order[n]]) = (EndIn(starts, N, n) + 1) - n
    /\ \A n, k \in starts : class[order[n]] = class[order[k]] => n = k

\* The classes are those of the starts, each the hits up to the episode's end.
LEMMA ClassesAre ==
  ASSUME NEW N \in Nat, NEW starts, starts \subseteq 1 .. N, N > 0 => 1 \in starts,
         NEW D, NEW order, Lists(order, N, D),
         NEW class, IsClassing(class, D, order, N, starts)
  PROVE  AreEpisodes(class, D, order, N, starts)
<1>1. \A n \in starts : n \in 1 .. N /\ n \in Int /\ order[n] \in D
  BY DEF Lists
<1>2. ASSUME NEW n \in starts
      PROVE  /\ EndIn(starts, N, n) \in n .. N
             /\ class[order[n]] = {order[m] : m \in n .. EndIn(starts, N, n)}
             /\ Cardinality(class[order[n]]) = (EndIn(starts, N, n) + 1) - n
  <2> DEFINE e == EndIn(starts, N, n)
             E == {order[m] : m \in n .. e}
  <2>1. /\ e \in n .. N
        /\ \A b \in 1 .. N : Joined(starts, n, b) <=> b \in n .. e
    BY EpisodeReaches
  <2> HIDE DEF e
  <2>2. n \in 1 .. N /\ e \in Int /\ n \in Int /\ n <= e
    BY <1>1, <2>1
  <2>3. \A m \in n .. e : m \in 1 .. N
    BY <2>1, <2>2
  <2>4. class[order[n]] = E
    <3>1. ASSUME NEW i \in class[order[n]] PROVE i \in E
      <4>1. i \in D
        BY <1>1 DEF IsClassing
      <4>2. PICK m \in 1 .. N : order[m] = i
        BY <4>1 DEF Lists
      <4>3. Joined(starts, n, m)
        BY <2>2, <4>2 DEF IsClassing
      <4> QED BY <2>1, <4>2, <4>3
    <3>2. ASSUME NEW i \in E PROVE i \in class[order[n]]
      <4>1. PICK m \in n .. e : i = order[m]
        OBVIOUS
      <4>2. m \in 1 .. N /\ Joined(starts, n, m)
        BY <2>1, <2>3
      <4> QED BY <2>2, <4>1, <4>2 DEF IsClassing
    <3> QED BY <3>1, <3>2
  <2>5. Cardinality(E) = (e + 1) - n
    <3> DEFINE b == [m \in n .. e |-> order[m]]
    <3>1. b \in Bijection(n .. e, E)
      <4>1. b \in Surjection(n .. e, E)
        BY DEF Surjection
      <4>2. \A m, k \in n .. e : b[m] = b[k] => m = k
        BY <2>3 DEF Lists
      <4>3. b \in Injection(n .. e, E)
        BY <4>2 DEF Injection, IsInjective
      <4> QED BY <4>1, <4>3 DEF Bijection
    <3>2. IsFiniteSet(n .. e) /\ Cardinality(n .. e) = (e + 1) - n
      <4>1. IsFiniteSet(n .. e) /\ Cardinality(n .. e) = IF n > e THEN 0 ELSE e - n + 1
        BY <2>2, FS_Interval
      <4> QED BY <2>2, <4>1
    <3> DEFINE M == n .. e
    <3> HIDE DEF b, E, M
    <3>3. Cardinality(M) = Cardinality(E)
      <4>1. b \in Bijection(M, E) /\ IsFiniteSet(M)
        BY <3>1, <3>2 DEF M
      <4> QED BY <4>1, FS_Bijection DEF ExistsBijection
    <3> QED BY <3>2, <3>3 DEF M
  <2> QED BY <2>1, <2>4, <2>5 DEF e
<1>3. ASSUME NEW n \in starts, NEW k \in starts, class[order[n]] = class[order[k]] PROVE n = k
  <2>1. Joined(starts, k, k)
    BY DEF Joined
  <2>2. order[k] \in class[order[k]]
    BY <1>1, <2>1 DEF IsClassing
  <2>3. Joined(starts, n, k)
    BY <1>1, <1>3, <2>2 DEF IsClassing
  <2>4. (n <= n <=> n <= k) /\ (k <= n <=> k <= k)
    BY <2>3 DEF Joined
  <2> QED BY <1>1, <2>4
<1>4. {class[i] : i \in D} = {class[order[n]] : n \in starts}
  <2>1. ASSUME NEW i \in D PROVE \E n \in starts : class[i] = class[order[n]]
    <3>1. PICK a \in 1 .. N : order[a] = i
      BY DEF Lists
    <3>2. 1 \in starts
      BY <3>1
    <3>3. PICK n \in starts : Joined(starts, n, a)
      BY <3>2, EpisodeOf
    <3>4. class[i] \subseteq D /\ class[order[n]] \subseteq D
      BY <1>1 DEF IsClassing
    <3>5. ASSUME NEW j \in D PROVE j \in class[i] <=> j \in class[order[n]]
      <4>1. PICK b \in 1 .. N : order[b] = j
        BY DEF Lists
      <4>2. Joined(starts, a, b) <=> Joined(starts, n, b)
        BY <3>3, JoinedIsEquivalence
      <4>3. order[b] \in class[order[a]] <=> Joined(starts, a, b)
        BY DEF IsClassing
      <4>4. order[b] \in class[order[n]] <=> Joined(starts, n, b)
        BY <1>1 DEF IsClassing
      <4> QED BY <3>1, <4>1, <4>2, <4>3, <4>4
    <3> QED BY <3>4, <3>5
  <2>2. \A n \in starts : order[n] \in D
    BY <1>1
  <2>3. {class[i] : i \in D} \subseteq {class[order[n]] : n \in starts}
    BY <2>1
  <2>4. {class[order[n]] : n \in starts} \subseteq {class[i] : i \in D}
    BY <2>2
  <2> QED BY <2>3, <2>4
<1> QED BY <1>2, <1>3, <1>4 DEF AreEpisodes

\* A sum stays what it is when every element is replaced by another of its weight.
LEMMA SumAlong ==
  ASSUME NEW S, NEW w, NEW p, IsSum(p, S, w), NEW g,
         \A x, y \in S : g[x] = g[y] => x = y,
         NEW T, T = {g[x] : x \in S}, NEW v, NEW q, IsSum(q, T, v),
         \A x \in S : v[g[x]] = w[x]
  PROVE  q[T] = p[S]
<1> DEFINE I(U) == {g[x] : x \in U}
           B == {U \in SUBSET S : q[I(U)] # p[U]}
<1>1. B \in SUBSET (SUBSET S) /\ IsFiniteSet(S)
  BY DEF IsSum
<1>2. ASSUME B # {} PROVE FALSE
  <2>1. PICK U \in B : \A u \in SUBSET U : u \in B => u = U
    <3> HIDE DEF B
    <3> QED BY <1>1, <1>2, SmallestSubset
  <2>2. U \in SUBSET S /\ q[I(U)] # p[U]
    OBVIOUS
  <2>3. U # {}
    <3>1. q[{}] = 0 /\ p[{}] = 0
      BY SumEmpty
    <3>2. I({}) = {}
      OBVIOUS
    <3> QED BY <2>2, <3>1, <3>2
  <2>4. PICK x \in U : TRUE
    BY <2>3
  <2> DEFINE rest == U \ {x}
  <2>5. rest \in SUBSET U /\ rest # U /\ rest \in SUBSET S /\ x \in S
    BY <2>2, <2>4
  <2>6. q[I(rest)] = p[rest]
    BY <2>1, <2>5
  <2>7. p[U] = p[rest] + w[x]
    <3>1. TakesOff(p, S, w)
      BY SumRemoves
    <3> QED BY <2>2, <2>4, <3>1, Zenon DEF TakesOff
  <2>8. I(U) \in SUBSET T /\ g[x] \in I(U) /\ I(U) \ {g[x]} = I(rest)
    BY <2>2, <2>4, <2>5
  <2>9. q[I(U)] = q[I(U) \ {g[x]}] + v[g[x]]
    <3> DEFINE J == I(U)
    <3>1. J \in SUBSET T /\ g[x] \in J
      BY <2>8
    <3> HIDE DEF J
    <3>2. q[J] = q[J \ {g[x]}] + v[g[x]]
      <4>1. TakesOff(q, T, v)
        BY SumRemoves
      <4> QED BY <3>1, <4>1, Zenon DEF TakesOff
    <3> QED BY <3>2 DEF J
  <2>10. v[g[x]] = w[x]
    BY <2>5
  <2> QED BY <2>2, <2>6, <2>7, <2>8, <2>9, <2>10
<1>3. q[I(S)] = p[S]
  BY <1>2
<1> QED BY <1>3

\* What SameEpisode says of two hits, by their places in the list.
LEMMA SameEpisodeIs ==
  ASSUME NEW D, NEW hits \in [D -> HitRecords], NEW N \in Nat, NEW order, Lists(order, N, D),
         NEW f, f = [n \in 1 .. N |-> hits[order[n]]],
         NEW a \in 1 .. N, NEW b \in 1 .. N
  PROVE  /\ SameEpisode(hits, order[a], order[b]) <=> Close(f, N, a, b)
         /\ SameEpisode(hits, order[b], order[a]) <=> SameEpisode(hits, order[a], order[b])
<1> DEFINE i == order[a]
           j == order[b]
           own(k) == {x \in Range(hits) : x.market = hits[k].market
                                          /\ x.direction = hits[k].direction}
           between(x, y, t) == Min({x, y}) <= t /\ t < Max({x, y})
           cut(k, t) == \E x, y \in own(k) : x.at <= t /\ t < y.at /\ y.at - x.at <= Gap
           met(t) == \E p, q \in 1 .. N : /\ Alike(f[p], f[a]) /\ Alike(f[q], f[a])
                                          /\ f[p].at <= t /\ t < f[q].at /\ f[q].at - f[p].at <= Gap
<1>1. /\ \A n \in 1 .. N : order[n] \in D /\ f[n] = hits[order[n]]
      /\ \A k \in D : \E n \in 1 .. N : order[n] = k
  BY DEF Lists
<1>2. f[a] = hits[i] /\ f[b] = hits[j]
  BY <1>1
<1>3. Range(hits) = {hits[k] : k \in D}
  BY DEF Range
<1>4. SameEpisode(hits, i, j) <=>
        /\ Alike(hits[i], hits[j])
        /\ \A t \in Times : between(hits[i].at, hits[j].at, t) => cut(i, t)
  BY DEF SameEpisode, Alike
<1>5. SameEpisode(hits, j, i) <=>
        /\ Alike(hits[j], hits[i])
        /\ \A t \in Times : between(hits[j].at, hits[i].at, t) => cut(j, t)
  BY DEF SameEpisode, Alike
<1>6. Close(f, N, a, b) <=>
        /\ Alike(f[a], f[b])
        /\ \A t \in Times : between(f[a].at, f[b].at, t) => met(t)
  BY DEF Close
<1>7. \A x, y, t : between(x, y, t) <=> between(y, x, t)
  <2>1. \A x, y : {x, y} = {y, x}
    OBVIOUS
  <2> QED BY <2>1
<1>8. Alike(hits[i], hits[j]) => own(i) = own(j)
  BY DEF Alike
<1>9. \A t : cut(i, t) <=> met(t)
  <2>1. \A x : x \in own(i) <=> \E p \in 1 .. N : x = f[p] /\ Alike(f[p], f[a])
    BY <1>1, <1>2, <1>3 DEF Alike
  <2> HIDE DEF own
  <2> QED BY <2>1
<1>10. Alike(hits[i], hits[j]) <=> Alike(hits[j], hits[i])
  BY DEF Alike
<1> HIDE DEF between, met, i, j
<1>11. Alike(hits[i], hits[j]) => \A t : cut(i, t) <=> cut(j, t)
  BY <1>8
<1> HIDE DEF cut
<1>12. SameEpisode(hits, i, j) <=> Close(f, N, a, b)
  BY <1>2, <1>4, <1>6, <1>9
<1>13. SameEpisode(hits, j, i) <=> SameEpisode(hits, i, j)
  BY <1>4, <1>5, <1>7, <1>10, <1>11
<1> QED BY <1>12, <1>13 DEF i, j

\* Two hits are of one episode if and only if none starts between them.
LEMMA SameEpisodeIsJoined ==
  ASSUME NEW D, NEW hits \in [D -> HitRecords], NEW N \in Nat, NEW order, Lists(order, N, D),
         NEW f, f = [n \in 1 .. N |-> hits[order[n]]], Listed(f, N),
         NEW a \in 1 .. N, NEW b \in 1 .. N
  PROVE  SameEpisode(hits, order[a], order[b]) <=> Joined(Starts(f, N), a, b)
<1>1. CASE a <= b
  <2>1. Close(f, N, a, b) <=> Joined(Starts(f, N), a, b)
    BY <1>1, CloseIsJoined
  <2>2. SameEpisode(hits, order[a], order[b]) <=> Close(f, N, a, b)
    BY SameEpisodeIs
  <2> QED BY <2>1, <2>2
<1>2. CASE b <= a
  <2>1. Close(f, N, b, a) <=> Joined(Starts(f, N), b, a)
    BY <1>2, CloseIsJoined
  <2>2. SameEpisode(hits, order[b], order[a]) <=> Close(f, N, b, a)
    BY SameEpisodeIs
  <2>3. SameEpisode(hits, order[b], order[a]) <=> SameEpisode(hits, order[a], order[b])
    BY SameEpisodeIs
  <2>4. Joined(Starts(f, N), b, a) <=> Joined(Starts(f, N), a, b)
    BY JoinedIsEquivalence
  <2> QED BY <2>1, <2>2, <2>3, <2>4
<1>3. a <= b \/ b <= a
  OBVIOUS
<1> QED BY <1>1, <1>2, <1>3

-----------------------------------------------------------------------------
(* EpisodeSlice for hits that are in some order.                           *)

\* The starts, the stable ones among them, and the least profit of an episode.
StartsIn(hits, order) ==
    {n \in DOMAIN order : n = 1 \/ ~Continues(hits[order[n - 1]], hits[order[n]])}

StableIn(hits, order) ==
    {n \in StartsIn(hits, order) : EndIn(StartsIn(hits, order), Len(order), n) > n}

LeastFrom(hits, order, n) ==
    Min({hits[order[m]].profit : m \in n .. EndIn(StartsIn(hits, order), Len(order), n)})

SumFrom(hits, order, S) == MapThenSumSet(LAMBDA n : LeastFrom(hits, order, n), S)

\* EpisodeSlice works on the places of the hits in their order.
LEMMA SliceIs ==
  ASSUME NEW hits, NEW order, order = Order(hits, Before)
  PROVE  EpisodeSlice(hits) =
            [episodes |-> Cardinality(StableIn(hits, order)),
             markets |-> Cardinality({hits[order[n]].market : n \in StableIn(hits, order)}),
             profit |-> SumFrom(hits, order, StableIn(hits, order))]
BY DEF EpisodeSlice, StableIn, StartsIn, EndIn, LeastFrom, SumFrom

\* x is the sum of the weights w over S.
HasSum(S, w, x) == \E p \in [SUBSET S -> Int] : IsSum(p, S, w) /\ p[S] = x

\* w is the least profit of each start, or of each class.
WeighsStarts(w, hits, order, S) == \A n \in S : w[n] = LeastFrom(hits, order, n)

\* The sum over starts is a sum.
LEMMA SumOfStarts ==
  ASSUME NEW hits, NEW order, NEW S, IsFiniteSet(S), NEW w \in [S -> Int],
         WeighsStarts(w, hits, order, S)
  PROVE  HasSum(S, w, SumFrom(hits, order, S))
<1> DEFINE Step(f, t) == IF t = {} THEN 0
                         ELSE LeastFrom(hits, order, CHOOSE x \in t : TRUE) + f[t \ {CHOOSE x \in t : TRUE}]
           h == CHOOSE f : f = [t \in SUBSET S |-> Step(f, t)]
<1>1. SumFrom(hits, order, S) = h[S]
  BY DEF SumFrom, MapThenSumSet, MapThenFoldSet
<1>2. PICK p \in [SUBSET S -> Int] : IsSum(p, S, w)
  BY SumExists
<1>3. p = [t \in SUBSET S |-> Step(p, t)]
  <2>1. \A t \in SUBSET S : p[t] = Step(p, t)
    <3> SUFFICES ASSUME NEW t \in SUBSET S PROVE p[t] = Step(p, t)
      OBVIOUS
    <3>1. p[t] = SumStep(p, w, t)
      BY <1>2 DEF IsSum
    <3>2. t # {} => Chosen(t) \in S
      BY ChosenIsElement
    <3> QED BY <3>1, <3>2 DEF SumStep, Chosen, WeighsStarts
  <2> HIDE DEF Step
  <2> QED BY <2>1
<1>4. h = [t \in SUBSET S |-> Step(h, t)]
  <2> HIDE DEF Step
  <2> QED BY <1>3, Zenon
<1> HIDE DEF h
<1>5. ASSUME NEW t \in SUBSET S PROVE h[t] = SumStep(h, w, t)
  <2>1. h[t] = Step(h, t)
    <3> HIDE DEF Step
    <3> QED BY <1>4
  <2>2. t # {} => Chosen(t) \in S
    BY ChosenIsElement
  <2> QED BY <2>1, <2>2 DEF SumStep, Chosen, WeighsStarts
<1>6. p[S] = h[S]
  <2> HIDE DEF Step
  <2> QED BY <1>2, <1>5, SumUnique
<1> QED BY <1>1, <1>2, <1>6 DEF HasSum

LeastOf(hits, class) == Min({hits[i].profit : i \in class})

SumOver(hits, S) == MapThenSumSet(LAMBDA class : Min({hits[i].profit : i \in class}), S)

WeighsClasses(w, hits, S) == \A class \in S : w[class] = LeastOf(hits, class)

\* So is the sum over classes.
LEMMA SumOfClasses ==
  ASSUME NEW hits, NEW S, IsFiniteSet(S), NEW w \in [S -> Int],
         WeighsClasses(w, hits, S)
  PROVE  HasSum(S, w, SumOver(hits, S))
<1> DEFINE Step(f, t) == IF t = {} THEN 0
                         ELSE LeastOf(hits, CHOOSE x \in t : TRUE) + f[t \ {CHOOSE x \in t : TRUE}]
           h == CHOOSE f : f = [t \in SUBSET S |-> Step(f, t)]
<1>1. SumOver(hits, S) = h[S]
  BY DEF SumOver, MapThenSumSet, MapThenFoldSet, LeastOf
<1>2. PICK p \in [SUBSET S -> Int] : IsSum(p, S, w)
  BY SumExists
<1>3. p = [t \in SUBSET S |-> Step(p, t)]
  <2>1. \A t \in SUBSET S : p[t] = Step(p, t)
    <3> SUFFICES ASSUME NEW t \in SUBSET S PROVE p[t] = Step(p, t)
      OBVIOUS
    <3>1. p[t] = SumStep(p, w, t)
      BY <1>2 DEF IsSum
    <3>2. t # {} => Chosen(t) \in S
      BY ChosenIsElement
    <3> QED BY <3>1, <3>2 DEF SumStep, Chosen, WeighsClasses
  <2> HIDE DEF Step
  <2> QED BY <2>1
<1>4. h = [t \in SUBSET S |-> Step(h, t)]
  <2> HIDE DEF Step
  <2> QED BY <1>3, Zenon
<1> HIDE DEF h
<1>5. ASSUME NEW t \in SUBSET S PROVE h[t] = SumStep(h, w, t)
  <2>1. h[t] = Step(h, t)
    <3> HIDE DEF Step
    <3> QED BY <1>4
  <2>2. t # {} => Chosen(t) \in S
    BY ChosenIsElement
  <2> QED BY <2>1, <2>2 DEF SumStep, Chosen, WeighsClasses
<1>6. p[S] = h[S]
  <2> HIDE DEF Step
  <2> QED BY <1>2, <1>5, SumUnique
<1> QED BY <1>1, <1>2, <1>6 DEF HasSum

\* The classes of hits that belong together, and those of more than one hit.
ClassesOf(hits) == {{j \in DOMAIN hits : SameEpisode(hits, i, j)} : i \in DOMAIN hits}
StableOf(hits) == {class \in ClassesOf(hits) : Cardinality(class) > 1}

\* Starts and classes that belong to each other add up to the same.
LEMMA SumsAgree ==
  ASSUME NEW hits, NEW order, NEW S, IsFiniteSet(S), NEW g, NEW T, IsFiniteSet(T),
         T = {g[n] : n \in S}, \A n, k \in S : g[n] = g[k] => n = k,
         \A n \in S : LeastFrom(hits, order, n) = LeastOf(hits, g[n]) /\ LeastOf(hits, g[n]) \in Int
  PROVE  SumFrom(hits, order, S) = SumOver(hits, T) /\ SumOver(hits, T) \in Int
<1>a. PICK w : w = [n \in S |-> LeastFrom(hits, order, n)]
  OBVIOUS
<1>b. PICK v : v = [c \in T |-> LeastOf(hits, c)]
  OBVIOUS
<1>1. w \in [S -> Int] /\ v \in [T -> Int] /\ \A n \in S : v[g[n]] = w[n]
  BY <1>a, <1>b
<1>2. WeighsStarts(w, hits, order, S) /\ WeighsClasses(v, hits, T)
  BY <1>a, <1>b DEF WeighsStarts, WeighsClasses
<1>3. HasSum(S, w, SumFrom(hits, order, S))
  BY <1>1, <1>2, SumOfStarts
<1>4. HasSum(T, v, SumOver(hits, T))
  BY <1>1, <1>2, SumOfClasses
<1>5. PICK p : IsSum(p, S, w) /\ p[S] = SumFrom(hits, order, S)
  BY <1>3 DEF HasSum
<1>6. PICK q : IsSum(q, T, v) /\ q[T] = SumOver(hits, T)
  BY <1>4 DEF HasSum
<1>7. q[T] = p[S]
  BY <1>1, <1>5, <1>6, SumAlong
<1>8. q[T] \in Int
  BY <1>6 DEF IsSum
<1> QED BY <1>5, <1>6, <1>7, <1>8

\* episode_slice counts and adds up the classes of hits that belong together.
LEMMA EpisodesAre ==
  ASSUME NEW D, IsFiniteSet(D), D \subseteq Int, NEW hits \in [D -> HitRecords]
  PROVE  /\ EpisodeSlice(hits) =
              [episodes |-> Cardinality(StableOf(hits)),
               markets |-> Cardinality({hits[i].market : i \in UNION StableOf(hits)}),
               profit |-> SumOver(hits, StableOf(hits))]
         /\ Cardinality(StableOf(hits)) \in Nat /\ SumOver(hits, StableOf(hits)) \in Int
<1>0. PICK order : order = Order(hits, Before)
  OBVIOUS
<1> DEFINE N == Cardinality(D)
           f == [n \in 1 .. N |-> hits[order[n]]]
           starts == Starts(f, N)
           S == StableIn(hits, order)
           class == [i \in D |-> {j \in D : SameEpisode(hits, i, j)}]
           T == StableOf(hits)
           End(n) == EndIn(starts, N, n)
<1>1. /\ Listed(f, N) /\ N \in Nat /\ Lists(order, N, D)
      /\ DOMAIN order = 1 .. N /\ Len(order) = N
  <2> DEFINE o == Order(hits, Before)
  <2>1. /\ Listed([n \in 1 .. N |-> hits[o[n]]], N)
        /\ o \in [1 .. N -> D] /\ DOMAIN o = 1 .. N /\ Len(o) = N
        /\ \A a, b \in 1 .. N : o[a] = o[b] => a = b
        /\ \A i \in D : \E a \in 1 .. N : o[a] = i
    BY HitsListed
  <2>2. order = o
    BY <1>0
  <2> HIDE DEF o
  <2> QED BY <2>1, <2>2, FS_CardinalityType DEF Lists
<1>2. EpisodeSlice(hits) =
        [episodes |-> Cardinality(S),
         markets |-> Cardinality({hits[order[n]].market : n \in S}),
         profit |-> SumFrom(hits, order, S)]
  BY <1>0, SliceIs
<1>3. DOMAIN hits = D
  OBVIOUS
<1> HIDE DEF N
<1>4. \A n \in 1 .. N : f[n] = hits[order[n]] /\ order[n] \in D /\ hits[order[n]] \in HitRecords
  BY <1>1 DEF Lists
<1>5. starts \subseteq 1 .. N /\ (N > 0 => 1 \in starts) /\ StartsIn(hits, order) = starts
  <2>1. starts \subseteq 1 .. N /\ (N > 0 => 1 \in starts)
    BY <1>1 DEF Starts
  <2>2. ASSUME NEW n \in 1 .. N, n # 1
        PROVE  Continues(f[n - 1], f[n]) <=> Continues(hits[order[n - 1]], hits[order[n]])
    <3>1. n - 1 \in 1 .. N
      BY <1>1, <2>2
    <3> QED BY <1>4, <3>1
  <2>3. StartsIn(hits, order) = starts
    BY <1>1, <2>2 DEF StartsIn, Starts
  <2> QED BY <2>1, <2>3
<1>6. IsClassing(class, D, order, N, starts)
  <2>1. \A i \in D : class[i] \subseteq D
    OBVIOUS
  <2>2. ASSUME NEW a \in 1 .. N, NEW b \in 1 .. N
        PROVE  order[b] \in class[order[a]] <=> Joined(starts, a, b)
    <3>1. order[b] \in class[order[a]] <=> SameEpisode(hits, order[a], order[b])
      BY <1>4
    <3>2. SameEpisode(hits, order[a], order[b]) <=> Joined(starts, a, b)
      BY <1>1, SameEpisodeIsJoined
    <3> QED BY <3>1, <3>2
  <2> QED BY <2>1, <2>2 DEF IsClassing
<1>7. \A i \in D : \A j \in class[i] : j \in D /\ hits[j].market = hits[i].market
  BY DEF SameEpisode
<1>8. ClassesOf(hits) = {class[i] : i \in D}
  BY <1>3 DEF ClassesOf
<1>9. T = {x \in {class[i] : i \in D} : Cardinality(x) > 1}
  BY <1>8 DEF StableOf
<1> HIDE DEF class, f, starts
<1>10. /\ {class[i] : i \in D} = {class[order[n]] : n \in starts}
       /\ \A n \in starts :
              /\ EndIn(starts, N, n) \in n .. N
              /\ class[order[n]] = {order[m] : m \in n .. EndIn(starts, N, n)}
              /\ Cardinality(class[order[n]]) = (EndIn(starts, N, n) + 1) - n
       /\ \A n, k \in starts : class[order[n]] = class[order[k]] => n = k
  <2>1. AreEpisodes(class, D, order, N, starts)
    BY ONLY <1>1, <1>5, <1>6, ClassesAre
  <2> QED BY <2>1 DEF AreEpisodes
<1>11. S = {n \in starts : End(n) > n}
  BY <1>1, <1>5 DEF StableIn
<1>12. \A n \in S : n \in starts /\ n \in 1 .. N /\ n \in Int /\ End(n) \in n .. N
  <2> SUFFICES ASSUME NEW n \in S PROVE n \in starts /\ n \in 1 .. N /\ n \in Int /\ End(n) \in n .. N
    OBVIOUS
  <2>1. n \in starts /\ n \in 1 .. N
    BY <1>5, <1>11
  <2> QED BY <1>1, <1>10, <2>1
<1>13. \A n \in starts : Cardinality(class[order[n]]) > 1 <=> n \in S
  <2> SUFFICES ASSUME NEW n \in starts PROVE Cardinality(class[order[n]]) > 1 <=> n \in S
    OBVIOUS
  <2>1. End(n) \in n .. N /\ Cardinality(class[order[n]]) = (End(n) + 1) - n /\ n \in 1 .. N
    BY <1>5, <1>10
  <2>2. End(n) \in Int /\ n \in Int
    BY <1>1, <2>1
  <2>3. n \in S <=> End(n) > n
    BY <1>11
  <2> HIDE DEF End
  <2> QED BY <2>1, <2>2, <2>3
<1> DEFINE g == [n \in S |-> class[order[n]]]
<1>14. T = {g[n] : n \in S}
  <2>1. T \subseteq {g[n] : n \in S}
    BY <1>9, <1>10, <1>13
  <2>2. \A n \in S : class[order[n]] \in T
    BY <1>9, <1>10, <1>12, <1>13
  <2> QED BY <2>1, <2>2
<1>15. \A n, k \in S : g[n] = g[k] => n = k
  BY <1>10, <1>12
<1>16. IsFiniteSet(S)
  <2>1. IsFiniteSet(1 .. N)
    BY <1>1, FS_Interval
  <2>2. S \subseteq 1 .. N
    BY <1>12
  <2> QED BY <2>1, <2>2, FS_Subset
<1>17. \A n \in S : g[n] = class[order[n]] /\ g[n] = {order[m] : m \in n .. End(n)}
  BY <1>10, <1>12
<1>18. \A n \in S : \A m \in n .. End(n) : m \in 1 .. N
  BY <1>1, <1>12
<1> HIDE DEF g, S, T
<1>19. IsFiniteSet(T) /\ Cardinality(T) = Cardinality(S)
  <2>1. g \in Bijection(S, T)
    <3>1. g \in Surjection(S, T)
      BY <1>14 DEF Surjection, g
    <3>2. g \in Injection(S, T)
      BY <1>14, <1>15 DEF Injection, IsInjective, g
    <3> QED BY <3>1, <3>2 DEF Bijection
  <2> QED BY <1>16, <2>1, FS_Bijection DEF ExistsBijection
<1>20. {hits[order[n]].market : n \in S} = {hits[i].market : i \in UNION T}
  <2>1. ASSUME NEW n \in S PROVE \E i \in UNION T : hits[order[n]].market = hits[i].market
    <3>1. g[n] \in T
      BY <1>14
    <3>2. n \in n .. End(n)
      BY <1>12
    <3>3. order[n] \in g[n]
      BY <1>17, <3>2
    <3> QED BY <3>1, <3>3
  <2>2. ASSUME NEW i \in UNION T PROVE \E n \in S : hits[i].market = hits[order[n]].market
    <3>1. PICK n \in S : i \in g[n]
      BY <1>14
    <3>2. order[n] \in D /\ i \in class[order[n]]
      BY <1>4, <1>12, <1>17, <3>1
    <3> QED BY <1>7, <3>2
  <2> QED BY <2>1, <2>2
<1>21. \A n \in S : LeastFrom(hits, order, n) = LeastOf(hits, g[n]) /\ LeastOf(hits, g[n]) \in Int
  <2> SUFFICES ASSUME NEW n \in S
               PROVE  LeastFrom(hits, order, n) = LeastOf(hits, g[n]) /\ LeastOf(hits, g[n]) \in Int
    OBVIOUS
  <2> DEFINE P == {hits[order[m]].profit : m \in n .. End(n)}
             profit == [m \in n .. End(n) |-> hits[order[m]].profit]
  <2>1. LeastFrom(hits, order, n) = Min(P)
    BY <1>1, <1>5 DEF LeastFrom
  <2>2. {hits[i].profit : i \in g[n]} = P
    BY <1>17
  <2>3. IsFiniteSet(P)
    <3> DEFINE M == n .. End(n)
    <3>1. IsFiniteSet(M)
      <4>1. End(n) \in Int /\ n \in Int
        BY <1>1, <1>12
      <4> QED BY <4>1, FS_Interval
    <3>2. P = {profit[m] : m \in M}
      OBVIOUS
    <3> HIDE DEF P, M, profit
    <3> QED BY <3>1, <3>2, FiniteImage
  <2>4. P # {} /\ \A x \in P : x \in Int
    <3>1. n \in n .. End(n)
      BY <1>12
    <3>2. \A m \in n .. End(n) : hits[order[m]].profit \in Int
      BY <1>4, <1>18 DEF HitRecords
    <3> QED BY <3>1, <3>2
  <2> HIDE DEF P
  <2>5. Min(P) \in Int
    BY <2>3, <2>4, MinIsElement
  <2> QED BY <2>1, <2>2, <2>5 DEF LeastOf
<1>22. SumFrom(hits, order, S) = SumOver(hits, T) /\ SumOver(hits, T) \in Int
  BY <1>14, <1>15, <1>16, <1>19, <1>21, SumsAgree
<1>23. Cardinality(T) \in Nat
  BY <1>19, FS_CardinalityType
<1> QED BY <1>2, <1>19, <1>20, <1>22, <1>23 DEF T

\* The hits of a candidate have a market, a direction, a time and a profit.
LEMMA HitsType ==
  ASSUME NEW observations \in Seq(Observations), NEW c \in 1 .. Candidates,
         NEW part, NEW first, NEW last
  PROVE  LET hits == HitsIn(Hits(c, observations), part, first, last)
         IN /\ hits \in [DOMAIN hits -> HitRecords]
            /\ IsFiniteSet(DOMAIN hits) /\ DOMAIN hits \subseteq Int
<1> DEFINE Found(i) == Best(c, observations[i].a.quote, observations[i].b.quote)
           best(i) == CHOOSE o \in Found(i) : TRUE
           all == Hits(c, observations)
           D == {j \in DOMAIN observations : Found(j) # {}}
           E == {i \in DOMAIN all : InPart(part, Split(first, last, all[i].at))}
           hits == HitsIn(all, part, first, last)
<1>1. all = [i \in D |-> [market |-> observations[i].market, at |-> observations[i].at,
                          direction |-> best(i).direction, profit |-> best(i).profit]]
  BY DEF Hits
<1>2. \A i \in D : best(i) \in [direction : Directions, profit : Int]
  <2> SUFFICES ASSUME NEW i \in D PROVE best(i) \in [direction : Directions, profit : Int]
    OBVIOUS
  <2>1. observations[i] \in Observations
    OBVIOUS
  <2>2. observations[i].a.quote \in Quotes /\ observations[i].b.quote \in Quotes
    BY <2>1 DEF Observations, Snapshots
  <2>3. Found(i) \subseteq [direction : Directions, profit : Int]
    BY <2>2, BestAssumption
  <2>4. best(i) \in Found(i)
    OBVIOUS
  <2> QED BY <2>3, <2>4
<1>3. \A i \in D : observations[i].market \in Nat /\ observations[i].at \in Times
  <2>1. \A i \in D : observations[i] \in Observations
    OBVIOUS
  <2> QED BY <2>1, SummaryAssumption DEF Observations
<1>4. D \subseteq DOMAIN observations
  OBVIOUS
<1> HIDE DEF D, best
<1>5. all \in [D -> HitRecords]
  <2>1. \A i \in D : [market |-> observations[i].market, at |-> observations[i].at,
                      direction |-> best(i).direction, profit |-> best(i).profit] \in HitRecords
    BY <1>2, <1>3 DEF HitRecords
  <2> QED BY <1>1, <2>1
<1>6. hits = [i \in E |-> all[i]]
  BY DEF HitsIn, Restrict
<1> HIDE DEF all
<1>7. E \subseteq D
  BY <1>5
<1> HIDE DEF hits, E
<1>8. DOMAIN hits = E /\ hits \in [E -> HitRecords]
  BY <1>5, <1>6, <1>7
<1>9. IsFiniteSet(E) /\ E \subseteq Int
  <2>1. PICK n \in Nat : n = Len(observations)
    OBVIOUS
  <2>2. DOMAIN observations = 1 .. n
    BY <2>1
  <2>3. IsFiniteSet(1 .. n)
    BY FS_Interval
  <2>4. E \subseteq 1 .. n
    BY <1>4, <1>7, <2>2
  <2>5. E \subseteq Int
    BY <2>4
  <2> QED BY <2>3, <2>4, <2>5, FS_Subset
<1> QED BY <1>8, <1>9 DEF hits, all

\* Among candidates that qualify there is one that is at least as good as all of them.
LEMMA BestExists ==
  ASSUME NEW Q, IsFiniteSet(Q), Q # {}, NEW slices,
         \A c \in Q : slices[c]["validation"].profit \in Int /\ slices[c]["validation"].episodes \in Int
  PROVE  \E c \in Q : \A d \in Q : AtLeastAsGood(slices[c], slices[d])
<1> DEFINE profit == [c \in Q |-> slices[c]["validation"].profit]
           episodes == [c \in Q |-> slices[c]["validation"].episodes]
           P == {profit[c] : c \in Q}
           R == {c \in Q : profit[c] = Max(P)}
           E == {episodes[c] : c \in R}
<1>1. \A c \in Q : profit[c] \in Int /\ episodes[c] \in Int
  OBVIOUS
<1>2. \A c, d \in Q : \/ profit[c] > profit[d]
                      \/ profit[c] = profit[d] /\ episodes[c] >= episodes[d]
                      => AtLeastAsGood(slices[c], slices[d])
  BY DEF AtLeastAsGood
<1> HIDE DEF profit, episodes
<1>3. Max(P) \in P /\ \A y \in P : Max(P) >= y
  <2>1. IsFiniteSet(P)
    BY FiniteImage
  <2>2. P # {} /\ \A x \in P : x \in Int
    BY <1>1
  <2> HIDE DEF P
  <2> QED BY <2>1, <2>2, MaxIsElement
<1>4. R # {} /\ \A c \in R : c \in Q
  BY <1>3
<1>5. \A c \in R, d \in Q : profit[c] >= profit[d]
  BY <1>3
<1>6. \A c \in R, d \in Q : profit[c] = profit[d] => d \in R
  OBVIOUS
<1>7. IsFiniteSet(R)
  BY FS_Subset
<1> HIDE DEF R
<1>8. Max(E) \in E /\ \A y \in E : Max(E) >= y
  <2>1. IsFiniteSet(E)
    BY <1>7, FiniteImage
  <2>2. E # {} /\ \A x \in E : x \in Int
    BY <1>1, <1>4
  <2> HIDE DEF E
  <2> QED BY <2>1, <2>2, MaxIsElement
<1>9. PICK c \in R : episodes[c] = Max(E)
  BY <1>8
<1>10. \A d \in R : episodes[c] >= episodes[d]
  BY <1>8, <1>9
<1>11. ASSUME NEW d \in Q PROVE AtLeastAsGood(slices[c], slices[d])
  <2>1. c \in Q /\ profit[c] >= profit[d] /\ profit[c] \in Int /\ profit[d] \in Int
    BY <1>1, <1>4, <1>5
  <2>2. profit[c] = profit[d] => episodes[c] >= episodes[d]
    BY <1>6, <1>10
  <2> QED BY <1>2, <2>1, <2>2
<1> QED BY <1>4, <1>11

\* The episodes of the slices reported are the classes of hits that belong together,
\* those of a single hit left out, each with its least profit (episode_slice).
THEOREM EpisodesAreOfThoseTogether == Spec => []EpisodesBelongTogether
<1>1. SumInv => EpisodesBelongTogether
  <2> SUFFICES ASSUME SumInv, Done("replay"), report.selected # NoCandidate, NEW part \in Parts
               PROVE  LET hits == ReportedHits(report.selected.candidate, part)
                      IN report.selected.slices[part] =
                           [episodes |-> Cardinality(StableOf(hits)),
                            markets |-> Cardinality({hits[i].market : i \in UNION StableOf(hits)}),
                            profit |-> SumOver(hits, StableOf(hits))]
    BY DEF EpisodesBelongTogether, StableOf, ClassesOf, SumOver
  <2> DEFINE observations == ByTime(acc.observations)
             first == Head(observations).at
             last == Last(observations).at
             hitsOf == [c \in 1 .. Candidates |-> Hits(c, observations)]
             slices == [c \in 1 .. Candidates |-> SlicesOf(hitsOf[c], first, last)]
             Q == {c \in 1 .. Candidates : Qualifies(slices[c])}
             B == {c \in Q : \A d \in Q : AtLeastAsGood(slices[c], slices[d])}
             In(c, p) == HitsIn(Hits(c, observations), p, first, last)
  <2>1. acc \in AccRecords /\ status = "done" /\ command = "replay" /\ report = Printed
    BY DEF SumInv, Types, Accs, Done
  <2>2. report.selected = Replayed /\ Replayed # NoCandidate
    BY <2>1 DEF Printed
  <2>3. observations \in Seq(Observations)
    <3>1. acc.observations \in Seq(Observations) /\ \A o \in Observations : o.at \in Int
      <4>1. MaxTime \in Nat
        BY SummaryAssumption
      <4> QED BY <2>1, <4>1 DEF AccRecords, ObservationLists, Observations, Times
    <3> QED BY <3>1, ByTimeIs
  <2>4. Replayed = SelectCandidate(hitsOf, first, last)
    BY <2>2 DEF Replayed
  <2> HIDE DEF observations
  <2>5. \A c \in 1 .. Candidates, p \in Parts : slices[c][p] = EpisodeSlice(In(c, p))
    BY DEF SlicesOf
  <2>6. /\ Q # {}
        /\ Replayed = [candidate |-> Max(B), slices |-> slices[Max(B)],
                       pass |-> HoldoutPass(slices[Max(B)])]
    BY <2>2, <2>4 DEF SelectCandidate
  <2> HIDE DEF slices, first, last, hitsOf
  <2>7. \A c \in 1 .. Candidates, p \in Parts :
           /\ slices[c][p] = [episodes |-> Cardinality(StableOf(In(c, p))),
                              markets |-> Cardinality({In(c, p)[i].market : i \in UNION StableOf(In(c, p))}),
                              profit |-> SumOver(In(c, p), StableOf(In(c, p)))]
           /\ slices[c][p].episodes \in Int /\ slices[c][p].profit \in Int
    <3> SUFFICES ASSUME NEW c \in 1 .. Candidates, NEW p \in Parts
                 PROVE  /\ slices[c][p] = [episodes |-> Cardinality(StableOf(In(c, p))),
                              markets |-> Cardinality({In(c, p)[i].market : i \in UNION StableOf(In(c, p))}),
                              profit |-> SumOver(In(c, p), StableOf(In(c, p)))]
                        /\ slices[c][p].episodes \in Int /\ slices[c][p].profit \in Int
      OBVIOUS
    <3> DEFINE h == In(c, p)
    <3>1. /\ h \in [DOMAIN h -> HitRecords]
          /\ IsFiniteSet(DOMAIN h) /\ DOMAIN h \subseteq Int
      BY <2>3, HitsType
    <3>2. slices[c][p] = EpisodeSlice(h)
      BY <2>5
    <3> HIDE DEF h
    <3>3. /\ EpisodeSlice(h) =
              [episodes |-> Cardinality(StableOf(h)),
               markets |-> Cardinality({h[i].market : i \in UNION StableOf(h)}),
               profit |-> SumOver(h, StableOf(h))]
          /\ Cardinality(StableOf(h)) \in Nat /\ SumOver(h, StableOf(h)) \in Int
      BY <3>1, EpisodesAre
    <3>4. /\ slices[c][p] = [episodes |-> Cardinality(StableOf(h)),
               markets |-> Cardinality({h[i].market : i \in UNION StableOf(h)}),
               profit |-> SumOver(h, StableOf(h))]
          /\ slices[c][p].episodes \in Int /\ slices[c][p].profit \in Int
      BY <3>2, <3>3
    <3> QED BY <3>4 DEF h
  <2>8. Max(B) \in 1 .. Candidates
    <3>1. Candidates \in Nat
      BY ReportAssumption
    <3>2. IsFiniteSet(1 .. Candidates)
      BY <3>1, FS_Interval
    <3>3. IsFiniteSet(Q) /\ \A c \in Q : c \in 1 .. Candidates
      BY <3>2, FS_Subset
    <3>4. \A c \in Q : slices[c]["validation"].profit \in Int /\ slices[c]["validation"].episodes \in Int
      BY <2>7, <3>3 DEF Parts
    <3> HIDE DEF Q
    <3>5. B # {} /\ IsFiniteSet(B) /\ \A c \in B : c \in 1 .. Candidates /\ c \in Int
      <4>1. \E c \in Q : \A d \in Q : AtLeastAsGood(slices[c], slices[d])
        BY <2>6, <3>3, <3>4, BestExists
      <4> QED BY <3>1, <3>3, <4>1, FS_Subset
    <3> HIDE DEF B
    <3> QED BY <3>5, MaxIsElement
  <2> DEFINE c == Max(B)
             hits == ReportedHits(c, part)
  <2>9. report.selected.candidate = c /\ report.selected.slices = slices[c]
    BY <2>2, <2>6
  <2>10. hits = In(c, part)
    BY DEF ReportedHits, observations, first, last
  <2>11. c \in 1 .. Candidates
    BY <2>8
  <2> HIDE DEF c
  <2> DEFINE h == In(c, part)
  <2>12. slices[c][part] = [episodes |-> Cardinality(StableOf(h)),
                            markets |-> Cardinality({h[i].market : i \in UNION StableOf(h)}),
                            profit |-> SumOver(h, StableOf(h))]
    BY <2>7, <2>11
  <2>13. ReportedHits(report.selected.candidate, part) = h
    BY <2>9, <2>10
  <2> HIDE DEF h, slices
  <2> QED BY <2>9, <2>12, <2>13
<1> QED BY <1>1, SumInvHolds, PTL
=============================================================================
