--------------------------- MODULE ConnectionsProofs ---------------------------
(***************************************************************************)
(* What the assignment of assets to connections keeps (ShardAssignments),  *)
(* proved along the two ways it is used.  In MarketFeed any lists reach    *)
(* it, and the tasks behind the connections fill the books (clob.rs): the  *)
(* limit of every connection, the pairs, and the books.  In Subscriptions  *)
(* the lists come from discoveries (gamma.rs, service.rs): what a          *)
(* discovery misses while the listing changes under it, and that what it   *)
(* found is subscribed.  The names of MarketFeed's specification begin     *)
(* with Feed; Spec is that of Subscriptions.                               *)
(***************************************************************************)
EXTENDS MarketFeed, Subscriptions, FiniteFolds, SequenceTheorems

-----------------------------------------------------------------------------
(* Markets and their assets.                                               *)

OutcomeIds == 1 .. Outcomes

\* The assets of a set of markets.
LEMMA AssetsAreProducts ==
  ASSUME NEW S
  PROVE  AssetsOf(S) = S \X OutcomeIds
<1>1. \A m \in S : Range(Pair(m)) = {<<m, i>> : i \in OutcomeIds}
  BY DEF Range, Pair, OutcomeIds
<1> QED BY <1>1 DEF AssetsOf

\* Finitely many markets have finitely many assets, Outcomes of them each.
LEMMA AssetsCount ==
  ASSUME NEW S, IsFiniteSet(S)
  PROVE  /\ IsFiniteSet(AssetsOf(S)) /\ Cardinality(S) \in Nat
         /\ Cardinality(AssetsOf(S)) = Outcomes * Cardinality(S)
<1>1. Outcomes \in Nat
  BY ShardAssumption
<1>2. IsFiniteSet(OutcomeIds) /\ Cardinality(OutcomeIds) = Outcomes
  BY <1>1, FS_Interval DEF OutcomeIds
<1>3. /\ IsFiniteSet(S \X OutcomeIds) /\ Cardinality(S) \in Nat
      /\ Cardinality(S \X OutcomeIds) = Cardinality(S) * Cardinality(OutcomeIds)
  BY <1>2, FS_Product, FS_CardinalityType
<1> QED BY <1>1, <1>2, <1>3, AssetsAreProducts

\* There is a shard, and at most as many as it takes to carry all assets.
LEMMA ShardsAre ==
  /\ ShardCount \in Nat \ {0} /\ IsFiniteSet(Shards) /\ \A k \in Shards : k \in Int
  /\ ShardCount * MaxPerShard >= MaxTotal
<1>1. MaxPerShard \in Nat \ {0} /\ MaxTotal \in Nat /\ MaxTotal >= MaxPerShard
  BY ShardAssumption
<1>2. PICK n \in Nat : n = ShardCount /\ n >= 1 /\ n * MaxPerShard >= MaxTotal
  <2> DEFINE d == MaxTotal + MaxPerShard - 1
             q == d \div MaxPerShard
             r == d % MaxPerShard
  <2>1. d \in Nat /\ q \in Int /\ r \in Int /\ d = q * MaxPerShard + r /\ 0 <= r /\ r < MaxPerShard
    BY <1>1
  <2>2. q * MaxPerShard >= MaxTotal
    BY <1>1, <2>1
  <2>3. q >= 1
    <3> SUFFICES ASSUME q <= 0 PROVE FALSE
      BY <2>1
    <3>1. q * MaxPerShard <= 0
      <4> HIDE DEF q
      <4> QED BY <1>1, <2>1
    <3> QED BY <1>1, <2>2, <3>1
  <2> QED BY <2>1, <2>2, <2>3 DEF ShardCount
<1>3. IsFiniteSet(1 .. n)
  BY <1>2, FS_Interval
<1> QED BY <1>2, <1>3 DEF Shards

-----------------------------------------------------------------------------
(* Placing pairs.                                                          *)

Placings == UNION {[D -> Shards] : D \in SUBSET Assets}

\* No shard carries too much, and the assets of a market are on one shard or on none.
IsSound(a) ==
    /\ \A k \in Shards : Cardinality(OnShard(a, k)) <= MaxPerShard
    /\ \A x \in DOMAIN a : \A i \in OutcomeIds :
           <<x[1], i>> \in DOMAIN a /\ a[<<x[1], i>>] = a[x]

Sound == {a \in Placings : IsSound(a)}

\* The shape of a placing, and of the assets.
LEMMA PlacingShape ==
  ASSUME NEW a
  PROVE  /\ a \in Placings <=> DOMAIN a \subseteq Assets /\ a \in [DOMAIN a -> Shards]
         /\ \A x \in Assets : x = <<x[1], x[2]>> /\ x[1] \in Markets /\ x[2] \in OutcomeIds
         /\ \A m \in Markets, i \in OutcomeIds : <<m, i>> \in Assets
<1>1. Assets = Markets \X OutcomeIds
  BY AssetsAreProducts DEF Assets
<1>2. a \in Placings => DOMAIN a \subseteq Assets /\ a \in [DOMAIN a -> Shards]
  BY DEF Placings
<1>3. DOMAIN a \subseteq Assets /\ a \in [DOMAIN a -> Shards] => a \in Placings
  BY DEF Placings
<1> QED BY <1>1, <1>2, <1>3

\* What is on a shard is a finite set of assets.
LEMMA LoadsAreFinite ==
  ASSUME NEW a \in Placings
  PROVE  /\ IsFiniteSet(DOMAIN a)
         /\ \A k : IsFiniteSet(OnShard(a, k)) /\ Cardinality(OnShard(a, k)) \in Nat
<1>1. IsFiniteSet(Assets)
  BY AssetsCount, ShardAssumption DEF Assets
<1>2. IsFiniteSet(DOMAIN a)
  BY <1>1, PlacingShape, FS_Subset
<1> QED BY <1>2, FS_Subset, FS_CardinalityType DEF OnShard

\* The retain takes whole pairs.
LEMMA KeptIsSound ==
  ASSUME assigned \in Sound, NEW S \in SUBSET Markets
  PROVE  Kept(S) \in Sound /\ DOMAIN Kept(S) \subseteq AssetsOf(S)
<1> DEFINE b == Kept(S)
<1>1. /\ DOMAIN b = DOMAIN assigned \intersect AssetsOf(S)
      /\ \A x \in DOMAIN b : b[x] = assigned[x]
  BY DEF Kept, Restrict
<1>2. b = [x \in DOMAIN b |-> b[x]]
  BY DEF Kept, Restrict
<1> HIDE DEF b
<1>3. assigned \in Placings /\ IsSound(assigned)
  BY DEF Sound
<1>4. b \in Placings
  BY <1>1, <1>2, <1>3, PlacingShape
<1>5. \A k \in Shards : Cardinality(OnShard(b, k)) <= MaxPerShard
  <2> TAKE k \in Shards
  <2>1. OnShard(b, k) \subseteq OnShard(assigned, k)
    BY <1>1 DEF OnShard
  <2>2. Cardinality(OnShard(b, k)) <= Cardinality(OnShard(assigned, k))
    BY <1>3, <2>1, LoadsAreFinite, FS_Subset
  <2>3. Cardinality(OnShard(assigned, k)) <= MaxPerShard
    BY <1>3 DEF IsSound
  <2> QED BY <1>3, <1>4, <2>2, <2>3, LoadsAreFinite, ShardAssumption
<1>6. ASSUME NEW x \in DOMAIN b, NEW i \in OutcomeIds
      PROVE  <<x[1], i>> \in DOMAIN b /\ b[<<x[1], i>>] = b[x]
  <2>1. x \in S \X OutcomeIds /\ x \in DOMAIN assigned
    BY <1>1, AssetsAreProducts
  <2>2. <<x[1], i>> \in AssetsOf(S)
    BY <2>1, AssetsAreProducts
  <2>3. <<x[1], i>> \in DOMAIN assigned /\ assigned[<<x[1], i>>] = assigned[x]
    BY <1>3, <2>1 DEF IsSound
  <2> QED BY <1>1, <2>2, <2>3
<1> QED BY <1>1, <1>4, <1>5, <1>6 DEF b, Sound, IsSound

\* A pair that has no shard yet is placed as a whole.
LEMMA PlaceIsSound ==
  ASSUME NEW a \in Sound, NEW m \in Markets, ~(Range(Pair(m)) \subseteq DOMAIN a),
         NEW k \in Room(a, Pair(m))
  PROVE  /\ Place(a, Pair(m), k) \in Sound
         /\ DOMAIN Place(a, Pair(m), k) = DOMAIN a \union AssetsOf({m})
<1> DEFINE b == Place(a, Pair(m), k)
           P == Range(Pair(m))
<1>1. P = {<<m, i>> : i \in OutcomeIds} /\ P = AssetsOf({m})
  BY DEF Range, Pair, OutcomeIds, AssetsOf
<1>2. a \in Placings /\ IsSound(a) /\ k \in Shards
  BY DEF Sound, Room
<1>3. DOMAIN a \intersect P = {}
  <2> SUFFICES ASSUME NEW i \in OutcomeIds, <<m, i>> \in DOMAIN a PROVE FALSE
    BY <1>1
  <2>1. \A j \in OutcomeIds : <<m, j>> \in DOMAIN a
    BY <1>2 DEF IsSound
  <2> QED BY <1>1, <2>1
<1>4. /\ DOMAIN b = DOMAIN a \union P
      /\ b = [x \in DOMAIN b |-> b[x]]
      /\ \A x \in DOMAIN a : b[x] = a[x]
      /\ \A x \in P : b[x] = k
  <2>1. b = [x \in DOMAIN a \union P |-> IF x \in DOMAIN a THEN a[x] ELSE k]
    BY DEF Place
  <2> HIDE DEF b, P
  <2> QED BY <1>3, <2>1
<1> HIDE DEF b, P
<1>5. b \in Placings
  <2>1. P \subseteq Assets
    BY <1>1, PlacingShape
  <2> QED BY <1>2, <1>4, <2>1, PlacingShape
<1>6. ASSUME NEW j \in Shards PROVE Cardinality(OnShard(b, j)) <= MaxPerShard
  <2>1. IsFiniteSet(P) /\ Cardinality(P) = Outcomes
    <3>1. IsFiniteSet({m}) /\ Cardinality({m}) = 1
      BY FS_Singleton
    <3>2. IsFiniteSet(AssetsOf({m})) /\ Cardinality(AssetsOf({m})) = Outcomes * Cardinality({m})
      BY <3>1, AssetsCount
    <3>3. Outcomes * 1 = Outcomes
      BY ShardAssumption
    <3> QED BY ONLY <1>1, <3>1, <3>2, <3>3
  <2>2. CASE j # k
    <3>1. OnShard(b, j) = OnShard(a, j)
      BY <1>3, <1>4, <2>2 DEF OnShard
    <3> QED BY <1>2, <3>1 DEF IsSound
  <2>3. CASE j = k
    <3>1. OnShard(b, j) = OnShard(a, j) \union P /\ OnShard(a, j) \intersect P = {}
      BY <1>3, <1>4, <2>3 DEF OnShard
    <3>2. Cardinality(OnShard(a, j)) + Outcomes <= MaxPerShard
      <4>1. Pair(m) \in [1 .. Outcomes -> Assets] /\ Outcomes \in Nat
        BY ShardAssumption, PlacingShape DEF Pair, OutcomeIds
      <4>2. Len(Pair(m)) = Outcomes
        BY <4>1
      <4> QED BY <2>3, <4>2 DEF Room
    <3>3. Cardinality(OnShard(a, j) \union P) =
             Cardinality(OnShard(a, j)) + Cardinality(P) - Cardinality(OnShard(a, j) \intersect P)
      BY <1>2, <2>1, LoadsAreFinite, FS_Union
    <3>4. Cardinality({}) = 0
      BY FS_EmptySet
    <3>5. Cardinality(OnShard(a, j)) \in Nat /\ Outcomes \in Nat /\ MaxPerShard \in Nat
      BY <1>2, LoadsAreFinite, ShardAssumption
    <3>6. Cardinality(OnShard(b, j)) = Cardinality(OnShard(a, j)) + Outcomes - 0
      BY ONLY <2>1, <3>1, <3>3, <3>4
    <3> QED BY ONLY <3>2, <3>5, <3>6
  <2> QED BY <2>2, <2>3
<1>7. ASSUME NEW x \in DOMAIN b, NEW i \in OutcomeIds
      PROVE  <<x[1], i>> \in DOMAIN b /\ b[<<x[1], i>>] = b[x]
  <2>1. CASE x \in DOMAIN a
    BY <1>2, <1>4, <2>1 DEF IsSound
  <2>2. CASE x \in P
    <3>1. x[1] = m
      BY <1>1, <2>2
    <3>2. <<m, i>> \in P
      BY <1>1
    <3> QED BY <1>4, <2>2, <3>1, <3>2
  <2> QED BY <1>4, <2>1, <2>2
<1> QED BY <1>1, <1>4, <1>5, <1>6, <1>7 DEF b, Sound, IsSound

-----------------------------------------------------------------------------
(* The loop over the pairs.                                                *)

\* When all shards carry c assets each, the assets on the first j shards are j times
\* as many.
LEMMA FullShards ==
  ASSUME NEW a \in Placings, NEW c \in Nat, \A k \in Shards : Cardinality(OnShard(a, k)) = c
  PROVE  Cardinality(DOMAIN a) = ShardCount * c
<1> DEFINE UpTo(j) == {x \in DOMAIN a : a[x] <= j}
           B == {j \in 0 .. ShardCount : Cardinality(UpTo(j)) # j * c}
<1>1. ShardCount \in Nat
  BY ShardsAre
<1>2. a \in [DOMAIN a -> Shards] /\ IsFiniteSet(DOMAIN a)
  BY PlacingShape, LoadsAreFinite
<1>3. \A j : IsFiniteSet(UpTo(j)) /\ Cardinality(UpTo(j)) \in Nat
  BY <1>2, FS_Subset, FS_CardinalityType
<1>4. UpTo(0) = {} /\ UpTo(ShardCount) = DOMAIN a
  BY <1>1, <1>2 DEF Shards
<1>5. ASSUME NEW j \in 0 .. ShardCount, j # 0
      PROVE  Cardinality(UpTo(j)) = Cardinality(UpTo(j - 1)) + c
  <2>1. j \in Shards /\ j - 1 \in 0 .. ShardCount /\ j \in Int
    BY <1>1, <1>5 DEF Shards
  <2>2. UpTo(j) = UpTo(j - 1) \union OnShard(a, j) /\ UpTo(j - 1) \intersect OnShard(a, j) = {}
    BY <1>1, <1>2, <2>1 DEF OnShard, Shards
  <2> HIDE DEF UpTo
  <2>3. Cardinality(UpTo(j)) = Cardinality(UpTo(j - 1)) + Cardinality(OnShard(a, j))
                                 - Cardinality(UpTo(j - 1) \intersect OnShard(a, j))
    BY <1>3, <2>2, LoadsAreFinite, FS_Union
  <2>4. Cardinality({}) = 0
    BY FS_EmptySet
  <2>5. Cardinality(OnShard(a, j)) = c
    BY <2>1
  <2>6. Cardinality(UpTo(j - 1)) \in Nat
    BY <1>3
  <2>7. Cardinality(UpTo(j)) = Cardinality(UpTo(j - 1)) + Cardinality(OnShard(a, j)) - Cardinality({})
    BY <2>2, <2>3, Zenon
  <2> QED BY <1>1, <2>4, <2>5, <2>6, <2>7
<1> HIDE DEF UpTo
<1>6. B = {}
  <2> SUFFICES ASSUME B # {} PROVE FALSE
    OBVIOUS
  <2>1. IsFiniteSet(0 .. ShardCount)
    BY <1>1, FS_Interval
  <2>2. IsFiniteSet(B) /\ \A j \in B : j \in Int
    BY <1>1, <2>1, FS_Subset
  <2>3. PICK j \in B : \A i \in B : j <= i
    BY <2>2, LeastExists
  <2>4. j # 0
    <3>1. 0 * c = 0 /\ Cardinality({}) = 0
      BY <1>1, FS_EmptySet
    <3>2. Cardinality(UpTo(0)) = 0 * c
      BY <1>4, <3>1
    <3>3. Cardinality(UpTo(j)) # j * c
      BY <2>3
    <3> QED BY <3>2, <3>3
  <2>5. j - 1 \in 0 .. ShardCount /\ j - 1 \notin B
    BY <1>1, <2>3, <2>4
  <2>6. Cardinality(UpTo(j - 1)) = (j - 1) * c
    BY <2>5
  <2>7. Cardinality(UpTo(j)) = (j - 1) * c + c
    BY <1>5, <2>3, <2>4, <2>6
  <2>8. (j - 1) * c + c = j * c
    BY <1>1, <2>3
  <2> QED BY <2>3, <2>7, <2>8
<1> QED BY <1>1, <1>4, <1>6

\* A list that fits finds room for every pair, however the assets kept of earlier
\* lists are spread: no shard ever carries half a pair.
LEMMA RoomIsLeft ==
  ASSUME NEW S \in SUBSET Markets, Fits(S),
         NEW a \in Sound, DOMAIN a \subseteq AssetsOf(S), NEW m \in S,
         ~(Range(Pair(m)) \subseteq DOMAIN a)
  PROVE  Room(a, Pair(m)) # {}
<1> SUFFICES ASSUME Room(a, Pair(m)) = {} PROVE FALSE
  OBVIOUS
<1>1. a \in Placings /\ IsSound(a)
  BY DEF Sound
<1>2. Outcomes \in Nat \ {0} /\ MaxPerShard \in Nat
  BY ShardAssumption
<1>3. PICK c \in Nat : /\ c = MaxPerShard \div Outcomes
                       /\ Outcomes * c <= MaxPerShard /\ MaxPerShard < Outcomes * c + Outcomes
  <2> DEFINE q == MaxPerShard \div Outcomes
             r == MaxPerShard % Outcomes
  <2>1. q \in Int /\ r \in Int /\ MaxPerShard = Outcomes * q + r /\ 0 <= r /\ r < Outcomes
    BY <1>2
  <2>2. q >= 0
    BY <1>2
  <2> HIDE DEF q, r
  <2> QED BY <1>2, <2>1, <2>2 DEF q
<1>4. Len(Pair(m)) = Outcomes
  <2>1. Pair(m) \in [1 .. Outcomes -> Assets]
    BY <1>2, PlacingShape DEF Pair, OutcomeIds
  <2> QED BY <1>2, <2>1
<1>5. ASSUME NEW k \in Shards PROVE Cardinality(OnShard(a, k)) = Outcomes * c
  <2> DEFINE M == {n \in Markets : \E i \in OutcomeIds : <<n, i>> \in OnShard(a, k)}
  <2>1. OnShard(a, k) = M \X OutcomeIds
    <3>1. OnShard(a, k) \subseteq Assets
      BY <1>1, PlacingShape DEF OnShard
    <3>2. \A x \in OnShard(a, k) : x \in M \X OutcomeIds
      BY <3>1, PlacingShape
    <3>3. \A n \in M, i \in OutcomeIds : <<n, i>> \in OnShard(a, k)
      <4> TAKE n \in M, i \in OutcomeIds
      <4>1. PICK j \in OutcomeIds : <<n, j>> \in OnShard(a, k)
        OBVIOUS
      <4>2. <<n, j>> \in DOMAIN a /\ a[<<n, j>>] = k /\ <<n, j>>[1] = n
        BY <4>1 DEF OnShard
      <4>3. <<n, i>> \in DOMAIN a /\ a[<<n, i>>] = a[<<n, j>>]
        BY <1>1, <4>2 DEF IsSound
      <4> QED BY <4>2, <4>3 DEF OnShard
    <3> QED BY <3>2, <3>3
  <2>2. IsFiniteSet(M)
    BY ShardAssumption, FS_Subset
  <2> HIDE DEF M
  <2>3. Cardinality(OnShard(a, k)) = Outcomes * Cardinality(M) /\ Cardinality(M) \in Nat
    BY <2>1, <2>2, AssetsAreProducts, AssetsCount
  <2>4. Cardinality(OnShard(a, k)) <= MaxPerShard
    BY <1>1 DEF IsSound
  <2>5. Cardinality(OnShard(a, k)) + Outcomes > MaxPerShard
    <3>1. ~(Cardinality(OnShard(a, k)) + Outcomes <= MaxPerShard)
      BY <1>4 DEF Room
    <3> QED BY <1>2, <2>3, <3>1
  <2>6. Cardinality(M) = c
    <3> DEFINE p == Cardinality(M)
    <3>1. p \in Nat /\ Outcomes * p <= MaxPerShard /\ Outcomes * p + Outcomes > MaxPerShard
      BY <2>3, <2>4, <2>5
    <3> HIDE DEF p
    <3>2. Outcomes * p + Outcomes = Outcomes * (p + 1)
      BY <1>2, <3>1
    <3>3. p <= c
      <4> SUFFICES ASSUME p >= c + 1 PROVE FALSE
        BY <1>3, <3>1
      <4>1. PICK e \in Nat : p = c + 1 + e
        <5>1. p - c - 1 \in Nat /\ p = c + 1 + (p - c - 1)
          BY <1>3, <3>1
        <5> QED BY <5>1
      <4>2. Outcomes * p = Outcomes * c + Outcomes + Outcomes * e /\ Outcomes * e >= 0
        BY <1>2, <1>3, <4>1
      <4> QED BY <1>2, <1>3, <3>1, <4>2
    <3>4. p + 1 > c
      <4> SUFFICES ASSUME p + 1 <= c PROVE FALSE
        BY <1>3, <3>1
      <4>1. PICK e \in Nat : c = p + 1 + e
        <5>1. c - p - 1 \in Nat /\ c = p + 1 + (c - p - 1)
          BY <1>3, <3>1
        <5> QED BY <5>1
      <4>2. Outcomes * c = Outcomes * p + Outcomes + Outcomes * e /\ Outcomes * e >= 0
        BY <3>1, <1>2, <4>1
      <4> QED BY <1>2, <1>3, <3>1, <4>2
    <3> QED BY <1>3, <3>1, <3>3, <3>4 DEF p
  <2> QED BY <1>3, <2>3, <2>6
<1>6. Cardinality(DOMAIN a) = ShardCount * (Outcomes * c)
  <2>1. Outcomes * c \in Nat
    BY <1>3, <1>2
  <2> QED BY <1>1, <1>5, <2>1, FullShards
<1>7. /\ IsFiniteSet(AssetsOf(S)) /\ Cardinality(AssetsOf(S)) = Outcomes * Cardinality(S)
      /\ Cardinality(S) \in Nat
  BY AssetsCount, ShardAssumption, FS_Subset
<1>8. Cardinality(DOMAIN a) <= Cardinality(AssetsOf(S))
  BY <1>7, FS_Subset
<1>9. Cardinality(DOMAIN a) = Cardinality(AssetsOf(S))
  <2>1. ShardCount \in Nat /\ Cardinality(S) <= ShardCount * c
    BY <1>3, ShardsAre DEF Fits
  <2>2. PICK e \in Nat : ShardCount * c = Cardinality(S) + e
    <3>1. ShardCount * c \in Nat
      BY <1>3, <2>1
    <3>2. ShardCount * c - Cardinality(S) \in Nat
      BY <1>7, <2>1, <3>1
    <3> QED BY <1>7, <3>1, <3>2
  <2>3. ShardCount * (Outcomes * c) = Outcomes * (ShardCount * c)
    BY <1>2, <1>3, <2>1
  <2>4. Outcomes * (Cardinality(S) + e) = Outcomes * Cardinality(S) + Outcomes * e
        /\ Outcomes * e >= 0 /\ Outcomes * Cardinality(S) \in Nat /\ Outcomes * e \in Nat
    BY <1>2, <1>7, <2>2
  <2> QED BY <1>6, <1>7, <1>8, <2>2, <2>3, <2>4
<1>10. DOMAIN a = AssetsOf(S)
  BY <1>7, <1>9, FS_Subset
<1>11. Range(Pair(m)) \subseteq AssetsOf(S)
  BY DEF AssetsOf
<1> QED BY <1>10, <1>11

\* What the loop over the pairs of S goes through.
Turns(S) ==
    {acc \in [assigned : Sound, failed : BOOLEAN] :
        /\ DOMAIN acc.assigned \subseteq AssetsOf(S)
        /\ Fits(S) => ~acc.failed}

\* A turn of the loop.
LEMMA TurnIsSound ==
  ASSUME NEW S \in SUBSET Markets, NEW acc \in Turns(S), NEW m \in S
  PROVE  AssignPair(acc, Pair(m)) \in Turns(S)
<1> DEFINE a == acc.assigned
           room == Room(a, Pair(m))
           choice == Preferred(a, Pair(m)) \intersect room
           k == IF choice # {} THEN Min(choice) ELSE Min(room)
<1>1. /\ acc \in [assigned : Sound, failed : BOOLEAN] /\ a \in Sound
      /\ DOMAIN a \subseteq AssetsOf(S)
      /\ Fits(S) => ~acc.failed
  BY DEF Turns
<1>2. CASE acc.failed \/ Range(Pair(m)) \subseteq DOMAIN a
  BY <1>2 DEF AssignPair
<1>3. CASE ~acc.failed /\ ~(Range(Pair(m)) \subseteq DOMAIN a) /\ room = {}
  <2>1. ~Fits(S)
    BY <1>1, <1>3, RoomIsLeft
  <2>2. AssignPair(acc, Pair(m)) = [acc EXCEPT !.failed = TRUE]
    BY <1>3 DEF AssignPair
  <2>3. [acc EXCEPT !.failed = TRUE] \in [assigned : Sound, failed : BOOLEAN]
        /\ [acc EXCEPT !.failed = TRUE].assigned = a
    BY <1>1
  <2> QED BY <1>1, <2>1, <2>2, <2>3 DEF Turns
<1>4. CASE ~acc.failed /\ ~(Range(Pair(m)) \subseteq DOMAIN a) /\ room # {}
  <2> DEFINE b == Place(a, Pair(m), k)
  <2>1. k \in room
    <3>1. IsFiniteSet(room) /\ IsFiniteSet(choice) /\ \A x \in room : x \in Int
      BY ShardsAre, FS_Subset DEF Room
    <3> HIDE DEF room
    <3>2. choice # {} => Min(choice) \in choice
      <4> HIDE DEF choice
      <4>1. choice \subseteq room
        BY DEF choice
      <4> QED BY <3>1, <4>1, MinIsElement
    <3>3. Min(room) \in room
      BY <1>4, <3>1, MinIsElement
    <3> QED BY <3>2, <3>3
  <2>2. AssignPair(acc, Pair(m)) = [acc EXCEPT !.assigned = b]
    BY <1>4 DEF AssignPair
  <2> HIDE DEF k
  <2>3. b \in Sound /\ DOMAIN b = DOMAIN a \union AssetsOf({m})
    BY <1>1, <1>4, <2>1, PlaceIsSound
  <2>4. AssetsOf({m}) \subseteq AssetsOf(S)
    BY DEF AssetsOf
  <2> HIDE DEF b
  <2>5. [acc EXCEPT !.assigned = b] \in [assigned : Sound, failed : BOOLEAN]
        /\ [acc EXCEPT !.assigned = b].assigned = b
        /\ [acc EXCEPT !.assigned = b].failed = acc.failed
    BY <1>1, <2>3
  <2> QED BY <1>1, <2>2, <2>3, <2>4, <2>5 DEF Turns
<1> QED BY <1>2, <1>3, <1>4

\* InOrder lists the markets of S, each at its rank.
LEMMA InOrderLists ==
  ASSUME NEW S \in SUBSET Markets
  PROVE  /\ Cardinality(S) \in Nat
         /\ InOrder(S) \in [1 .. Cardinality(S) -> S]
         /\ DOMAIN InOrder(S) = 1 .. Cardinality(S)
         /\ \A i \in DOMAIN InOrder(S) : InOrder(S)[i] \in S
         /\ \A m \in S : \E i \in DOMAIN InOrder(S) : InOrder(S)[i] = m
<1>1. IsFiniteSet(S) /\ \A m \in S : m \in Int
  <2>1. IsFiniteSet(Markets) /\ Markets \subseteq Nat
    BY ShardAssumption
  <2>2. IsFiniteSet(S)
    BY <2>1, FS_Subset
  <2>3. \A m \in S : m \in Int
    BY <2>1
  <2> QED BY <2>2, <2>3
<1>2. PICK n \in Nat : n = Cardinality(S)
  BY <1>1, RanksAre
<1> DEFINE rank == [m \in S |-> Cardinality(LessThan(S, m))]
           At(i) == CHOOSE m \in S : Cardinality({l \in S : l < m}) = i - 1
<1>3. /\ \A m \in S : rank[m] \in 0 .. n - 1
      /\ \A l, m \in S : l < m => rank[l] < rank[m]
      /\ \A i \in 0 .. n - 1 : \E m \in S : rank[m] = i
  BY <1>1, <1>2, RanksAre
<1>4. \A m \in S : rank[m] = Cardinality({l \in S : l < m})
  BY DEF LessThan
<1> HIDE DEF rank
<1>5. \A i \in 1 .. n : At(i) \in S /\ rank[At(i)] = i - 1
  <2> TAKE i \in 1 .. n
  <2>1. i - 1 \in 0 .. n - 1
    BY <1>2
  <2>2. \E m \in S : Cardinality({l \in S : l < m}) = i - 1
    BY <1>3, <1>4, <2>1
  <2>3. At(i) \in S /\ Cardinality({l \in S : l < At(i)}) = i - 1
    BY <2>2, Zenon
  <2> QED BY <1>4, <2>3
<1>6. InOrder(S) = [i \in 1 .. n |-> At(i)]
  BY <1>2 DEF InOrder
<1>7. ASSUME NEW m \in S PROVE \E i \in 1 .. n : At(i) = m
  <2> DEFINE i == rank[m] + 1
  <2>1. i \in 1 .. n /\ i - 1 = rank[m] /\ rank[m] \in Int
    BY <1>2, <1>3
  <2>2. At(i) \in S /\ rank[At(i)] = rank[m]
    BY <1>5, <2>1
  <2> HIDE DEF At, i
  <2>3. ~(At(i) < m) /\ ~(m < At(i))
    <3>1. At(i) < m => rank[At(i)] < rank[m]
      BY <1>3, <2>2
    <3>2. m < At(i) => rank[m] < rank[At(i)]
      BY <1>3, <2>2
    <3> QED BY <2>1, <2>2, <3>1, <3>2
  <2>4. At(i) \in Int /\ m \in Int
    BY <1>1, <2>2
  <2>5. At(i) = m
    BY <2>3, <2>4
  <2> QED BY <2>1, <2>5
<1>8. DOMAIN InOrder(S) = 1 .. n /\ \A i \in 1 .. n : InOrder(S)[i] = At(i)
  BY <1>6
<1>9. InOrder(S) \in [1 .. n -> S]
  <2> HIDE DEF At
  <2> QED BY <1>5, <1>6
<1> HIDE DEF At
<1> QED BY <1>2, <1>5, <1>7, <1>8, <1>9

\* Whatever list comes, the loop leaves a sound placing; and it comes to its end when
\* the list is not too long and shards are for whole pairs.
LEMMA EachIsSound ==
  ASSUME assigned \in Sound, NEW S \in SUBSET Markets
  PROVE  AssignEach(S) \in Turns(S)
<1> DEFINE order == InOrder(S)
           D == DOMAIN order
           V == Turns(S)
           base == [assigned |-> Kept(S), failed |-> FALSE]
           Turn(acc, i) == AssignPair(acc, Pair(order[i]))
           Step(f, t) == IF t = {} THEN base ELSE Turn(f[t \ {Max(t)}], Max(t))
           h == CHOOSE f : f = [t \in SUBSET D |-> Step(f, t)]
           F == [p \in D \X V |-> Turn(p[2], p[1])]
           choice == [t \in SUBSET D |-> Max(t)]
<1>1. AssignEach(S) = h[D]
  BY DEF AssignEach, FoldLeft, MapThenFoldSet
<1>2. PICK n \in Nat : n = Cardinality(S)
  BY InOrderLists
<1>3. D = 1 .. n /\ \A i \in D : order[i] \in S
  BY <1>2, InOrderLists
<1>4. IsFiniteSet(D) /\ \A i \in D : i \in Int
  BY <1>2, <1>3, FS_Interval
<1>5. base \in V
  BY KeptIsSound DEF Turns
<1>6. \A acc \in V : \A i \in D : Turn(acc, i) \in V
  BY <1>3, TurnIsSound
<1> HIDE DEF V, base, Turn, order, D
<1>7. \A t \in SUBSET D : t # {} => Max(t) \in t
  BY <1>4, FS_Subset, MaxIsElement
<1>8. PICK g \in [SUBSET D -> V] : IsFold(g, D, base, F, choice)
  <2>1. F \in [D \X V -> V]
    BY <1>6
  <2>2. Picks(choice, D)
    BY <1>7 DEF Picks
  <2> HIDE DEF F, choice
  <2> QED BY <1>4, <1>5, <2>1, <2>2, FoldExists
<1>9. g = [t \in SUBSET D |-> Step(g, t)]
  <2> SUFFICES ASSUME NEW t \in SUBSET D PROVE g[t] = Step(g, t)
    OBVIOUS
  <2>1. g[t] = IF t = {} THEN base ELSE F[<<choice[t], g[t \ {choice[t]}]>>]
    BY <1>8 DEF IsFold
  <2>2. t # {} => Max(t) \in D /\ g[t \ {Max(t)}] \in V
    BY <1>7
  <2> QED BY <2>1, <2>2
<1>10. h = [t \in SUBSET D |-> Step(h, t)]
  <2> HIDE DEF Step
  <2> QED BY <1>9, Zenon
<1> HIDE DEF h
<1>11. h[D] \in V
  <2> DEFINE B == {t \in SUBSET D : h[t] \notin V}
  <2> SUFFICES ASSUME B # {} PROVE FALSE
    BY DEF B
  <2>1. PICK t \in B : \A u \in SUBSET t : u \in B => u = t
    <3> HIDE DEF B
    <3>1. B \in SUBSET (SUBSET D)
      BY DEF B
    <3> QED BY <1>4, <3>1, SmallestSubset
  <2>2. t \in SUBSET D /\ h[t] = Step(h, t)
    BY <1>10, <2>1, Zenon
  <2>3. t # {}
    BY <1>5, <2>1, <2>2
  <2>4. Max(t) \in t /\ t \ {Max(t)} \notin B
    BY <1>7, <2>1, <2>2, <2>3
  <2>5. h[t \ {Max(t)}] \in V
    BY <2>2, <2>4
  <2> QED BY <1>6, <2>1, <2>2, <2>3, <2>4, <2>5
<1> QED BY <1>1, <1>11 DEF V

-----------------------------------------------------------------------------
(* The assignments.                                                        *)

\* What is assigned, and what the shards were told last, is sound.
AssignInv ==
    /\ assigned \in Sound
    /\ \E a \in Sound : shards = [k \in Shards |-> OnShard(a, k)]
    /\ rejected \in {"no", "too_many", "no_capacity"}

\* At the start no asset is on a shard, and no shard was told of one.
LEMMA InitAssignInv ==
  ASSUME AssignInit
  PROVE  AssignInv
<1> DEFINE a == [x \in {} |-> 0]
<1>1. a \in Placings
  BY PlacingShape
<1>2. \A k \in Shards : OnShard(a, k) = {}
  BY DEF OnShard
<1>3. \A k \in Shards : Cardinality(OnShard(a, k)) <= MaxPerShard
  <2>1. Cardinality({}) = 0
    BY FS_EmptySet
  <2> QED BY <1>2, <2>1, ShardAssumption
<1>4. IsSound(a)
  BY <1>3 DEF IsSound
<1> QED BY <1>1, <1>2, <1>4 DEF AssignInit, AssignInv, Sound

\* A list is rejected or told to the shards as a sound placing; it is not rejected for
\* want of a place when it fits.
LEMMA AssignKeeps ==
  ASSUME AssignInv, NEW S \in SUBSET Markets, Assign(S)
  PROVE  AssignInv' /\ (rejected' = "no_capacity" => ~Fits(S))
<1>1. PICK end \in Turns(S) : end = AssignEach(S)
  BY EachIsSound DEF AssignInv
<1>2. end \in [assigned : Sound, failed : BOOLEAN]
  BY DEF Turns
<1>3. CASE Outcomes * Cardinality(S) > MaxTotal
  <2>1. rejected' = "too_many" /\ UNCHANGED <<assigned, shards>>
    BY <1>3 DEF Assign
  <2> QED BY <2>1 DEF AssignInv
<1>4. CASE ~(Outcomes * Cardinality(S) > MaxTotal)
  <2>1. /\ assigned' = end.assigned
        /\ rejected' = IF end.failed THEN "no_capacity" ELSE "no"
        /\ shards' = IF end.failed THEN shards
                     ELSE [k \in Shards |-> OnShard(end.assigned, k)]
    BY <1>1, <1>4 DEF Assign
  <2>2. Fits(S) => ~end.failed
    BY DEF Turns
  <2>3. end.assigned \in Sound /\ end.failed \in BOOLEAN
    BY <1>2
  <2>4. \E a \in Sound : shards' = [k \in Shards |-> OnShard(a, k)]
    BY <2>1, <2>3 DEF AssignInv
  <2>5. /\ rejected' \in {"no", "too_many", "no_capacity"}
        /\ rejected' = "no_capacity" => ~Fits(S)
    BY <2>1, <2>2
  <2> QED BY <2>1, <2>3, <2>4, <2>5 DEF AssignInv
<1> QED BY <1>3, <1>4

\* Assignments are of their type, within the limit of every shard, and of whole pairs.
LEMMA AssignmentsHold ==
  ASSUME AssignInv
  PROVE  /\ AssignTypeOK /\ WithinCapacity /\ PairsTogether
         /\ shards \in [Shards -> SUBSET Assets]
<1>1. PICK a \in Sound : shards = [k \in Shards |-> OnShard(a, k)]
  BY DEF AssignInv
<1>2. a \in Placings /\ IsSound(a) /\ assigned \in Placings
  BY DEF Sound, AssignInv
<1>3. /\ DOMAIN a \subseteq Assets /\ a \in [DOMAIN a -> Shards]
      /\ DOMAIN assigned \subseteq Assets /\ assigned \in [DOMAIN assigned -> Shards]
  BY <1>2, PlacingShape
<1>4. \A k \in Shards : shards[k] = {x \in DOMAIN a : a[x] = k}
  BY <1>1 DEF OnShard
<1>5. shards \in [Shards -> SUBSET Assets]
  BY <1>1, <1>3 DEF OnShard
<1>6. AssignTypeOK
  <2>1. Range(assigned) \subseteq Shards
    BY <1>3 DEF Range
  <2> QED BY <1>3, <1>5, <2>1 DEF AssignTypeOK, AssignInv
<1>7. WithinCapacity
  <2>1. \A k \in Shards : Cardinality(shards[k]) <= MaxPerShard
    BY <1>1, <1>2 DEF IsSound
  <2> QED BY <1>4, <2>1 DEF WithinCapacity
<1>8. PairsTogether
  <2> SUFFICES ASSUME NEW m \in Markets, NEW k \in Shards, Range(Pair(m)) \intersect shards[k] # {}
               PROVE  Range(Pair(m)) \subseteq shards[k]
    BY DEF PairsTogether
  <2>1. Range(Pair(m)) = {<<m, i>> : i \in OutcomeIds}
    BY DEF Range, Pair, OutcomeIds
  <2>2. PICK j \in OutcomeIds : <<m, j>> \in shards[k]
    BY <2>1
  <2>3. <<m, j>> \in DOMAIN a /\ a[<<m, j>>] = k /\ <<m, j>>[1] = m
    BY <1>4, <2>2
  <2>4. \A i \in OutcomeIds : <<m, i>> \in DOMAIN a /\ a[<<m, i>>] = k
    BY <1>2, <2>3 DEF IsSound
  <2> QED BY <1>4, <2>1, <2>4
<1> QED BY <1>5, <1>6, <1>7, <1>8

\* With room for whole pairs only (2 assets each in the code) every list within
\* max_total_assets fits.
LEMMA WholePairsFit ==
  ASSUME NEW c \in Nat, MaxPerShard = Outcomes * c,
         NEW S \in SUBSET Markets, Outcomes * Cardinality(S) <= MaxTotal
  PROVE  Fits(S)
<1>1. Outcomes \in Nat \ {0} /\ MaxPerShard \in Nat /\ ShardCount \in Nat /\ MaxTotal \in Nat
  BY ShardAssumption, ShardsAre
<1>2. Cardinality(S) \in Nat
  BY ShardAssumption, FS_Subset, FS_CardinalityType
<1>3. MaxPerShard \div Outcomes = c
  <2> DEFINE q == MaxPerShard \div Outcomes
             r == MaxPerShard % Outcomes
  <2>1. q \in Int /\ r \in Int /\ Outcomes * c = Outcomes * q + r /\ 0 <= r /\ r < Outcomes
    BY <1>1
  <2> HIDE DEF q, r
  <2>2. Outcomes * (c - q) = r
    BY <1>1, <2>1
  <2>3. c - q < 1
    <3> SUFFICES ASSUME c - q >= 1 PROVE FALSE
      BY <2>1
    <3>1. PICK e \in Nat : c - q = 1 + e
      <4>1. c - q - 1 \in Nat /\ c - q = 1 + (c - q - 1)
        BY <2>1
      <4> QED BY <4>1
    <3>2. Outcomes * (c - q) = Outcomes + Outcomes * e /\ Outcomes * e >= 0
      BY <1>1, <3>1
    <3> QED BY <1>1, <2>1, <2>2, <3>2
  <2>4. c - q >= 0
    <3> SUFFICES ASSUME c - q <= -1 PROVE FALSE
      BY <2>1
    <3>1. PICK e \in Nat : c - q = -1 - e
      <4>1. q - c - 1 \in Nat /\ c - q = -1 - (q - c - 1)
        BY <2>1
      <4> QED BY <4>1
    <3>2. Outcomes * (c - q) = -Outcomes - Outcomes * e /\ Outcomes * e >= 0
      BY <1>1, <3>1
    <3> QED BY <1>1, <2>1, <2>2, <3>2
  <2> QED BY <2>1, <2>3, <2>4 DEF q
<1>4. Cardinality(S) <= ShardCount * c
  <2> SUFFICES ASSUME Cardinality(S) >= ShardCount * c + 1 PROVE FALSE
    BY <1>1, <1>2
  <2>1. PICK e \in Nat : Cardinality(S) = ShardCount * c + 1 + e
    <3>1. ShardCount * c \in Nat
      BY <1>1
    <3>2. Cardinality(S) - ShardCount * c - 1 \in Nat
          /\ Cardinality(S) = ShardCount * c + 1 + (Cardinality(S) - ShardCount * c - 1)
      BY <1>2, <3>1
    <3> QED BY <3>2
  <2>2. Outcomes * Cardinality(S) = Outcomes * (ShardCount * c) + Outcomes + Outcomes * e
        /\ Outcomes * e >= 0
    <3>1. ShardCount * c \in Nat
      BY <1>1
    <3> QED BY <1>1, <2>1, <3>1
  <2>3. Outcomes * (ShardCount * c) = ShardCount * MaxPerShard
    BY <1>1
  <2> QED BY <1>1, <2>2, <2>3, ShardsAre
<1> QED BY <1>3, <1>4 DEF Fits

-----------------------------------------------------------------------------
(* Frames and books.                                                       *)

\* The n-th state of a book has its type, and the next change makes it the next.
LEMMA VenueBookType ==
  ASSUME NEW n \in Versions
  PROVE  /\ VenueBook(n) \in [Sides -> Versions]
         /\ n # 0 => [VenueBook(n - 1) EXCEPT ![n % 2] = n] = VenueBook(n)
<1>1. MaxVersion \in Nat /\ n \in Nat /\ n <= MaxVersion
  BY FeedAssumption DEF Versions
<1>2. VenueBook(n) \in [Sides -> Versions]
  BY <1>1 DEF VenueBook, Sides, Versions
<1>3. ASSUME n # 0 PROVE [VenueBook(n - 1) EXCEPT ![n % 2] = n] = VenueBook(n)
  <2> DEFINE old == VenueBook(n - 1)
             new == VenueBook(n)
  <2>1. n - 1 \in Nat /\ n % 2 \in Sides
    BY <1>1, <1>3 DEF Sides
  <2>2. \A l \in Sides : l # n % 2 => l = (n - 1) % 2
    BY <1>1, <1>3 DEF Sides
  <2>3. old \in [Sides -> Int] /\ new \in [Sides -> Int]
    BY <1>1, <2>1 DEF VenueBook
  <2>4. new[n % 2] = n
    BY <2>1 DEF VenueBook
  <2>5. ASSUME NEW l \in Sides, l # n % 2 PROVE new[l] = n - 1 /\ old[l] = n - 1
    BY <1>3, <2>2, <2>5 DEF VenueBook
  <2> HIDE DEF old, new
  <2>6. [old EXCEPT ![n % 2] = n] = new
    BY <2>1, <2>3, <2>4, <2>5
  <2> QED BY <2>6 DEF old, new
<1> QED BY <1>2, <1>3

\* The venue answers a subscription with one snapshot of every asset.
LEMMA SnapshotsList ==
  ASSUME venue \in [Assets -> Versions], NEW S \in SUBSET Assets
  PROVE  /\ Snapshots(S) \in Seq(Frames) /\ Len(Snapshots(S)) \in Nat
         /\ \A i \in 1 .. Len(Snapshots(S)) :
               LET f == Snapshots(S)[i]
               IN f.asset \in S /\ f.kind = "book" /\ f.version = venue[f.asset]
         /\ \A a \in S : \E i \in 1 .. Len(Snapshots(S)) :
               /\ Snapshots(S)[i].asset = a
               /\ \A l \in 1 .. Len(Snapshots(S)) : Snapshots(S)[l].asset = a => l = i
<1>1. IsFiniteSet(S)
  BY AssetsCount, ShardAssumption, FS_Subset DEF Assets
<1> DEFINE f == SetToSeq(S)
           q == Snapshots(S)
<1>2. PICK n \in Nat : n = Cardinality(S)
  BY <1>1, FS_CardinalityType
<1>3. /\ f \in [1 .. n -> S]
      /\ \A i, j \in 1 .. n : f[i] = f[j] => i = j
      /\ \A x \in S : \E i \in 1 .. n : f[i] = x
  BY <1>1, <1>2, SetToSeqLists
<1>4. q = [i \in 1 .. n |-> Snapshot(f[i])]
  BY <1>2 DEF Snapshots
<1> HIDE DEF f, q
<1>5. \A a \in Assets : Snapshot(a) \in Frames /\ Snapshot(a).asset = a
                        /\ Snapshot(a).kind = "book" /\ Snapshot(a).version = venue[a]
  BY DEF Snapshot, Frames
<1>6. q \in Seq(Frames) /\ Len(q) = n /\ \A i \in 1 .. n : q[i] = Snapshot(f[i])
  <2>1. q \in [1 .. n -> Frames]
    BY <1>3, <1>4, <1>5
  <2> QED BY <1>4, <2>1
<1>7. \A i \in 1 .. n : q[i].asset = f[i] /\ q[i].asset \in S /\ q[i].kind = "book"
                        /\ q[i].version = venue[q[i].asset]
  BY <1>3, <1>5, <1>6
<1>8. \A a \in S : \E i \in 1 .. n : q[i].asset = a /\ \A l \in 1 .. n : q[l].asset = a => l = i
  <2> TAKE a \in S
  <2>1. PICK i \in 1 .. n : f[i] = a
    BY <1>3
  <2>2. \A l \in 1 .. n : f[l] = a => l = i
    BY <1>3, <2>1
  <2> QED BY <1>7, <2>1, <2>2
<1> QED BY <1>6, <1>7, <1>8 DEF q

\* What apply_frame makes of the books: the book of the frame's asset may change, and
\* only if it is subscribed.
LEMMA AppliedShape ==
  ASSUME NEW k, NEW f, books = [x \in DOMAIN books |-> books[x]]
  PROVE  LET bs == Applied(f, k)
         IN /\ bs = [x \in DOMAIN bs |-> bs[x]]
            /\ DOMAIN bs \subseteq DOMAIN books \union (subscribed[k] \intersect {f.asset})
            /\ \A x \in DOMAIN bs : x # f.asset => bs[x] = books[x]
            /\ f.asset \notin subscribed[k] => bs = books
            /\ f.asset \in subscribed[k] /\ f.kind = "book" => bs[f.asset] = VenueBook(f.version)
            /\ f.asset \in subscribed[k] /\ f.kind # "book" =>
                  /\ DOMAIN bs = DOMAIN books
                  /\ f.asset \in DOMAIN books =>
                        bs[f.asset] = [books[f.asset] EXCEPT ![f.version % 2] = f.version]
<1> DEFINE bs == Applied(f, k)
           stored == Stored(f.asset, VenueBook(f.version))
<1>1. /\ stored = [x \in DOMAIN stored |-> stored[x]]
      /\ DOMAIN stored = DOMAIN books \union {f.asset}
      /\ stored[f.asset] = VenueBook(f.version)
      /\ \A x \in DOMAIN books : x # f.asset => stored[x] = books[x]
  BY DEF Stored
<1>2. CASE f.asset \notin subscribed[k]
  BY <1>2 DEF Applied
<1>3. CASE f.asset \in subscribed[k] /\ f.kind = "book"
  <2>1. bs = stored
    BY <1>3 DEF Applied
  <2> HIDE DEF stored, bs
  <2> QED BY <1>1, <1>3, <2>1 DEF bs
<1>4. CASE f.asset \in subscribed[k] /\ f.kind # "book"
  <2>1. bs = IF f.asset \notin DOMAIN books THEN books
             ELSE [books EXCEPT ![f.asset][f.version % 2] = f.version]
    BY <1>4 DEF Applied, Changed
  <2> HIDE DEF bs
  <2> QED BY <1>4, <2>1 DEF bs
<1> QED BY <1>2, <1>3, <1>4

-----------------------------------------------------------------------------
(* The tasks.                                                              *)

\* Every variable of the feed has its type, and a shard that is not connected has
\* nothing that depends on a connection.
FeedType ==
    /\ offered \in SUBSET Markets /\ offeredNew \in BOOLEAN
    /\ shardNew \in SUBSET Shards /\ connected \in SUBSET Shards
    /\ subscribed \in [Shards -> SUBSET Assets]
    /\ pending \in [Shards -> {Nothing} \union {<<S>> : S \in SUBSET Assets}]
    /\ frames \in [Shards -> Seq(Frames)]
    /\ drops \in Nat
    /\ DOMAIN books \subseteq Assets /\ books \in [DOMAIN books -> [Sides -> Versions]]
    /\ venue \in [Assets -> Versions] /\ shared \in SUBSET Assets
    /\ \A k \in Shards \ connected :
          subscribed[k] = {} /\ pending[k] = Nothing /\ frames[k] = <<>>

\* As long as no connection is lost no book is without a subscription.
BooksInv == drops = 0 => \A a \in DOMAIN books : \E k \in Shards : a \in subscribed[k]

FeedInv == AssignInv /\ FeedType /\ BooksInv

\* At the start no connection is up and there is no book.
LEMMA InitFeedInv == FeedInit => FeedInv
<1> SUFFICES ASSUME FeedInit PROVE FeedInv
  OBVIOUS
<1>1. AssignInv
  BY InitAssignInv DEF FeedInit
<1>2. 0 \in Versions
  BY FeedAssumption DEF Versions
<1>3. <<>> \in Seq(Frames)
  OBVIOUS
<1>4. FeedType
  BY <1>2, <1>3 DEF FeedInit, FeedType
<1>5. BooksInv
  BY DEF FeedInit, BooksInv
<1> QED BY <1>1, <1>4, <1>5 DEF FeedInv

\* AssignInv and BooksInv speak of few variables.
LEMMA AssignStays ==
  ASSUME AssignInv, UNCHANGED assignVars
  PROVE  AssignInv'
BY DEF AssignInv, assignVars

\* A list that waits to be assigned changes no shard.
LEMMA OfferKeeps ==
  ASSUME FeedInv, Offer
  PROVE  FeedInv'
<1>1. AssignInv'
  BY AssignStays DEF FeedInv, Offer
<1>2. FeedType'
  BY DEF FeedInv, FeedType, Offer, taskVars
<1>3. BooksInv'
  BY DEF FeedInv, BooksInv, Offer, taskVars
<1> QED BY <1>1, <1>2, <1>3 DEF FeedInv

\* The assigning task changes what the shards are told, not what they did.
LEMMA AssignOfferedKeeps ==
  ASSUME FeedInv, AssignOffered
  PROVE  FeedInv'
<1>1. AssignInv'
  BY AssignKeeps DEF FeedInv, FeedType, AssignOffered
<1>2. FeedType'
  BY DEF FeedInv, FeedType, AssignOffered, taskVars
<1>3. BooksInv'
  BY DEF FeedInv, BooksInv, AssignOffered, taskVars
<1> QED BY <1>1, <1>2, <1>3 DEF FeedInv

\* A new connection subscribes to what its shard was told last.
LEMMA ConnectKeeps ==
  ASSUME FeedInv, NEW k \in Shards, Connect(k)
  PROVE  FeedInv'
<1>1. AssignInv'
  BY AssignStays DEF FeedInv, Connect
<1>2. shards[k] \in SUBSET Assets
  BY AssignmentsHold DEF FeedInv
<1>3. Snapshots(shards[k]) \in Seq(Frames)
  BY <1>2, SnapshotsList DEF FeedInv, FeedType
<1>4. FeedType'
  BY <1>2, <1>3 DEF FeedInv, FeedType, Connect, Asks, targetVars
<1>5. BooksInv'
  <2>1. subscribed[k] = {} /\ subscribed \in [Shards -> SUBSET Assets]
    BY DEF FeedInv, FeedType, Connect
  <2>2. \A j \in Shards : subscribed[j] \subseteq subscribed'[j]
    BY <2>1 DEF Connect
  <2> QED BY <2>2 DEF FeedInv, BooksInv, Connect
<1> QED BY <1>1, <1>4, <1>5 DEF FeedInv

\* A lost connection is subscribed to nothing.
LEMMA DisconnectKeeps ==
  ASSUME FeedInv, NEW k \in Shards, Disconnect(k)
  PROVE  FeedInv'
<1>1. AssignInv'
  BY AssignStays DEF FeedInv, Disconnect
<1>2. FeedType'
  BY DEF FeedInv, FeedType, Disconnect, targetVars
<1>3. BooksInv'
  <2>1. drops' # 0
    BY DEF FeedInv, FeedType, Disconnect
  <2> QED BY <2>1 DEF BooksInv
<1> QED BY <1>1, <1>2, <1>3 DEF FeedInv

\* A shard that is told another list sends the difference first,
LEMMA SendDifferenceKeeps ==
  ASSUME FeedInv, NEW k \in Shards, SendDifference(k)
  PROVE  FeedInv'
<1>1. AssignInv'
  BY AssignStays DEF FeedInv, SendDifference
<1>2. shards[k] \in SUBSET Assets
  BY AssignmentsHold DEF FeedInv
<1>3. frames[k] \o Snapshots(shards[k] \ subscribed[k]) \in Seq(Frames)
  <2>1. Snapshots(shards[k] \ subscribed[k]) \in Seq(Frames)
    BY <1>2, SnapshotsList DEF FeedInv, FeedType
  <2>2. frames[k] \in Seq(Frames)
    BY DEF FeedInv, FeedType
  <2> QED BY <2>1, <2>2, ConcatProperties
<1>4. FeedType'
  BY <1>2, <1>3 DEF FeedInv, FeedType, SendDifference, Asks, targetVars
<1>5. BooksInv'
  BY DEF FeedInv, BooksInv, SendDifference
<1> QED BY <1>1, <1>4, <1>5 DEF FeedInv

\* and removes the books of what it no longer maintains afterwards.
LEMMA ApplyDifferenceKeeps ==
  ASSUME FeedInv, NEW k \in Shards, ApplyDifference(k)
  PROVE  FeedInv'
<1>1. AssignInv'
  BY AssignStays DEF FeedInv, ApplyDifference
<1>2. PICK S \in SUBSET Assets : pending[k] = <<S>>
  BY DEF FeedInv, FeedType, ApplyDifference
<1>3. subscribed' = [subscribed EXCEPT ![k] = S]
  BY <1>2 DEF ApplyDifference
<1>4. /\ DOMAIN books' = DOMAIN books \ (subscribed[k] \ S)
      /\ books' = [a \in DOMAIN books' |-> books[a]]
  BY <1>2 DEF ApplyDifference, Without, Restrict
<1>5. FeedType'
  BY <1>3, <1>4 DEF FeedInv, FeedType, ApplyDifference, targetVars
<1>6. BooksInv'
  <2> SUFFICES ASSUME drops = 0, NEW a \in DOMAIN books' PROVE \E j \in Shards : a \in subscribed'[j]
    BY DEF BooksInv, ApplyDifference
  <2>1. PICK j \in Shards : a \in subscribed[j]
    BY <1>4 DEF FeedInv, BooksInv
  <2>2. subscribed \in [Shards -> SUBSET Assets]
    BY DEF FeedInv, FeedType
  <2>3. a \in subscribed'[j]
    BY <1>3, <1>4, <2>1, <2>2
  <2> QED BY <2>3
<1> QED BY <1>1, <1>5, <1>6 DEF FeedInv

\* A frame adds a book only of an asset its shard is subscribed to.
LEMMA ReceiveKeeps ==
  ASSUME FeedInv, NEW k \in Shards, Receive(k)
  PROVE  FeedInv'
<1> DEFINE f == Head(frames[k])
           bs == Applied(f, k)
<1>1. AssignInv'
  BY AssignStays DEF FeedInv, Receive
<1>2. frames[k] \in Seq(Frames) /\ frames[k] # <<>>
  BY DEF FeedInv, FeedType, Receive
<1>3. f \in Frames /\ Tail(frames[k]) \in Seq(Frames)
  BY <1>2, HeadTailProperties
<1>4. /\ f.asset \in Assets /\ f.version \in Versions /\ f.version \in Int
      /\ f.version % 2 \in Sides /\ subscribed[k] \subseteq Assets
  BY <1>3 DEF Frames, Versions, Sides, FeedInv, FeedType
<1>5. /\ books = [x \in DOMAIN books |-> books[x]]
      /\ DOMAIN books \subseteq Assets /\ \A x \in DOMAIN books : books[x] \in [Sides -> Versions]
  BY DEF FeedInv, FeedType
<1> HIDE DEF f
<1>6. /\ bs = [x \in DOMAIN bs |-> bs[x]]
      /\ DOMAIN bs \subseteq DOMAIN books \union (subscribed[k] \intersect {f.asset})
      /\ \A x \in DOMAIN bs : x # f.asset => bs[x] = books[x]
      /\ f.asset \notin subscribed[k] => bs = books
      /\ f.asset \in subscribed[k] /\ f.kind = "book" => bs[f.asset] = VenueBook(f.version)
      /\ f.asset \in subscribed[k] /\ f.kind # "book" =>
            /\ DOMAIN bs = DOMAIN books
            /\ f.asset \in DOMAIN books =>
                  bs[f.asset] = [books[f.asset] EXCEPT ![f.version % 2] = f.version]
  BY <1>5, AppliedShape
<1>7. books' = bs /\ frames' = [frames EXCEPT ![k] = Tail(@)]
  BY DEF Receive, f
<1> HIDE DEF bs
<1>8. DOMAIN bs \subseteq Assets
  BY <1>4, <1>5, <1>6
<1>9. \A x \in DOMAIN bs : bs[x] \in [Sides -> Versions]
  <2> TAKE x \in DOMAIN bs
  <2>1. CASE x # f.asset
    <3>1. x \in DOMAIN books
      BY <1>6, <2>1
    <3> QED BY <1>5, <1>6, <2>1, <3>1
  <2>2. CASE x = f.asset /\ f.asset \in subscribed[k] /\ f.kind = "book"
    BY <1>4, <1>6, <2>2, VenueBookType
  <2>3. CASE x = f.asset /\ f.asset \in subscribed[k] /\ f.kind # "book"
    <3>1. f.asset \in DOMAIN books /\ books[f.asset] \in [Sides -> Versions]
      BY <1>5, <1>6, <2>3
    <3>2. [books[f.asset] EXCEPT ![f.version % 2] = f.version] \in [Sides -> Versions]
      BY <1>4, <3>1
    <3> QED BY <1>6, <2>3, <3>1, <3>2
  <2>4. CASE f.asset \notin subscribed[k]
    BY <1>5, <1>6, <2>4
  <2> QED BY <2>1, <2>2, <2>3, <2>4
<1>10. FeedType'
  BY <1>3, <1>6, <1>7, <1>8, <1>9 DEF FeedInv, FeedType, Receive, targetVars
<1>11. BooksInv'
  BY <1>6, <1>7 DEF FeedInv, BooksInv, Receive
<1> QED BY <1>1, <1>10, <1>11 DEF FeedInv

\* A change at the venue is one more version of one book.
LEMMA VenueMoves ==
  ASSUME FeedType, NEW a \in Assets, VenueChanges(a)
  PROVE  /\ venue[a] + 1 \in Versions /\ venue' \in [Assets -> Versions]
         /\ venue' = [venue EXCEPT ![a] = @ + 1]
<1>1. venue \in [Assets -> Nat] /\ IsFiniteSet(Assets) /\ MaxVersion \in Nat
  BY AssetsCount, ShardAssumption, FeedAssumption DEF FeedType, Versions, Assets
<1>2. venue[a] <= SumFunction(venue) /\ SumFunction(venue) \in Nat
  BY <1>1, SumFunctionType
<1>3. venue[a] < MaxVersion
  BY <1>1, <1>2 DEF VenueChanges
<1>4. venue[a] + 1 \in Versions
  BY <1>1, <1>3 DEF Versions
<1> QED BY <1>4 DEF VenueChanges, FeedType

\* A change at the venue is sent to those subscribed.
LEMMA VenueChangesKeeps ==
  ASSUME FeedInv, NEW a \in Assets, VenueChanges(a)
  PROVE  FeedInv'
<1> DEFINE change == [asset |-> a, kind |-> "price_change", version |-> venue[a] + 1]
<1>1. AssignInv'
  BY AssignStays DEF FeedInv, VenueChanges
<1>2. venue[a] + 1 \in Versions /\ venue' \in [Assets -> Versions]
  BY VenueMoves DEF FeedInv
<1>3. change \in Frames
  BY <1>2 DEF Frames
<1>4. frames' = [k \in Shards |-> IF k \in connected /\ a \in AtVenue(k)
                                  THEN Append(frames[k], change) ELSE frames[k]]
  BY DEF VenueChanges
<1> HIDE DEF change
<1>5. frames' \in [Shards -> Seq(Frames)] /\ \A k \in Shards \ connected : frames'[k] = frames[k]
  <2>1. \A k \in Shards : frames[k] \in Seq(Frames)
    BY DEF FeedInv, FeedType
  <2> QED BY <1>3, <1>4, <2>1
<1>6. FeedType'
  BY <1>2, <1>5 DEF FeedInv, FeedType, VenueChanges, targetVars
<1>7. BooksInv'
  BY DEF FeedInv, BooksInv, VenueChanges
<1> QED BY <1>1, <1>6, <1>7 DEF FeedInv

\* Every step keeps the invariant, whatever the tasks do in between.
LEMMA NextFeedInv == FeedInv /\ [FeedNext]_feedVars => FeedInv'
<1> SUFFICES ASSUME FeedInv, [FeedNext]_feedVars PROVE FeedInv'
  OBVIOUS
<1>1. CASE Offer
  BY <1>1, OfferKeeps
<1>2. CASE AssignOffered
  BY <1>2, AssignOfferedKeeps
<1>3. ASSUME NEW k \in Shards, Task(k) \/ Disconnect(k) PROVE FeedInv'
  BY <1>3, ConnectKeeps, SendDifferenceKeeps, ApplyDifferenceKeeps, ReceiveKeeps,
     DisconnectKeeps DEF Task
<1>4. ASSUME NEW a \in Assets, VenueChanges(a) PROVE FeedInv'
  BY <1>4, VenueChangesKeeps
<1>5. CASE UNCHANGED feedVars
  <2>1. AssignInv'
    BY <1>5, AssignStays DEF FeedInv, feedVars
  <2>2. FeedType' /\ BooksInv'
    BY <1>5 DEF FeedInv, FeedType, BooksInv, feedVars, targetVars, taskVars
  <2> QED BY <2>1, <2>2 DEF FeedInv
<1> QED BY <1>1, <1>2, <1>3, <1>4, <1>5 DEF FeedNext

\* The invariant holds in every reachable state.
LEMMA FeedInvariant == FeedSpec => []FeedInv
BY InitFeedInv, NextFeedInv, PTL DEF FeedSpec

-----------------------------------------------------------------------------
(* What the feed promises on any number of connections.                    *)

\* Every variable of the assigning task, the shard tasks and the books has its type.
THEOREM FeedTypeCorrect == FeedSpec => []FeedTypeOK
<1>1. FeedInv => FeedTypeOK
  <2> SUFFICES ASSUME FeedInv PROVE FeedTypeOK
    OBVIOUS
  <2>1. AssignTypeOK
    BY AssignmentsHold DEF FeedInv
  <2>2. Range(books) \subseteq [Sides -> Versions]
    BY DEF FeedInv, FeedType, Range
  <2> QED BY <2>1, <2>2 DEF FeedInv, FeedType, FeedTypeOK
<1> QED BY <1>1, FeedInvariant, PTL

\* ShardAssignments::assign never sends a connection more than
\* max_assets_per_connection assets, or two connections the same one.
THEOREM CapacityHolds == FeedSpec => []WithinCapacity
<1>1. FeedInv => WithinCapacity
  BY AssignmentsHold DEF FeedInv
<1> QED BY <1>1, FeedInvariant, PTL

\* ShardAssignments::assign never separates the assets of a market.
THEOREM PairsStayTogether == FeedSpec => []PairsTogether
<1>1. FeedInv => PairsTogether
  BY AssignmentsHold DEF FeedInv
<1> QED BY <1>1, FeedInvariant, PTL

\* ShardAssignments::assign finds room for every list that fits empty connections,
\* whatever it retained of the lists before, of those that failed too.  With an even
\* max_assets_per_connection that is every list within max_total_assets (WholePairsFit).
THEOREM ListsThatFitArePlaced ==
  FeedSpec => [](~offeredNew /\ rejected = "no_capacity" => ~Fits(offered))
<1> DEFINE P == ~offeredNew /\ rejected = "no_capacity" => ~Fits(offered)
<1>1. FeedInit => P
  BY DEF FeedInit, AssignInit
<1>2. FeedInv /\ P /\ [FeedNext]_feedVars => P'
  <2> SUFFICES ASSUME FeedInv, P, [FeedNext]_feedVars PROVE P'
    OBVIOUS
  <2>1. CASE AssignOffered
    <3>1. rejected' = "no_capacity" => ~Fits(offered)
      BY <2>1, AssignKeeps DEF FeedInv, FeedType, AssignOffered
    <3> QED BY <2>1, <3>1 DEF AssignOffered, Fits
  <2>2. CASE Offer
    BY <2>2 DEF Offer
  <2>3. ASSUME UNCHANGED <<offered, offeredNew, rejected>> PROVE P'
    BY <2>3 DEF Fits
  <2>4. ASSUME NEW k \in Shards, Task(k) \/ Disconnect(k) PROVE P'
    BY <2>3, <2>4 DEF Task, Connect, SendDifference, ApplyDifference, Receive, Disconnect,
       targetVars, assignVars
  <2>5. ASSUME NEW a \in Assets, VenueChanges(a) PROVE P'
    BY <2>3, <2>5 DEF VenueChanges, targetVars, assignVars
  <2>6. CASE UNCHANGED feedVars
    BY <2>3, <2>6 DEF feedVars, targetVars, assignVars
  <2> QED BY <2>1, <2>2, <2>4, <2>5, <2>6 DEF FeedNext
<1> QED BY <1>1, <1>2, FeedInvariant, PTL DEF FeedSpec

\* While no connection is lost every book in the shared map has a task that keeps it
\* current, although tasks on several shards store and remove books.
THEOREM BooksHaveTasks == FeedSpec => []BooksAreSubscribed
<1>1. FeedInv => BooksAreSubscribed
  BY DEF FeedInv, BooksInv, BooksAreSubscribed
<1> QED BY <1>1, FeedInvariant, PTL

-----------------------------------------------------------------------------
(* The order of frames.                                                    *)

\* No frame between the i-th and the j-th is about a.
Apart(q, i, j, a) == \A l \in i + 1 .. j - 1 : q[l].asset # a

Holds(bs, a, v) == a \in DOMAIN bs => bs[a] = VenueBook(v)

\* When all frames before the i-th are received the book of a, if there is one, is in
\* its state v: the last frame about a says so or, without one, the book is already.
After(q, bs, i, a, v) ==
    \/ \E j \in 1 .. i - 1 : q[j].asset = a /\ q[j].version = v /\ Apart(q, j, i, a)
    \/ Apart(q, 0, i, a) /\ Holds(bs, a, v)

\* Frames that follow make no difference, nor do books that are removed.
LEMMA AfterPrefix ==
  ASSUME NEW q, NEW r, NEW bs, NEW cs, NEW i \in Nat, NEW a, NEW v, After(q, bs, i, a, v),
         \A l \in 1 .. i - 1 : r[l] = q[l],
         Holds(bs, a, v) => Holds(cs, a, v)
  PROVE  After(r, cs, i, a, v)
<1>1. CASE Apart(q, 0, i, a) /\ Holds(bs, a, v)
  BY <1>1 DEF After, Apart
<1>2. ASSUME NEW j \in 1 .. i - 1, q[j].asset = a, q[j].version = v, Apart(q, j, i, a)
      PROVE  After(r, cs, i, a, v)
  <2>1. r[j].asset = a /\ r[j].version = v
    BY <1>2
  <2>2. \A l \in j + 1 .. i - 1 : r[l].asset # a
    BY <1>2 DEF Apart
  <2> QED BY <2>1, <2>2 DEF After, Apart
<1> QED BY <1>1, <1>2 DEF After

\* Frames about other assets make no difference.
LEMMA AfterOthers ==
  ASSUME NEW q, NEW bs, NEW i \in Nat, NEW n \in Nat, i <= n, NEW a, NEW v, After(q, bs, i, a, v),
         \A l \in i .. n - 1 : q[l].asset # a
  PROVE  After(q, bs, n, a, v)
<1>1. CASE Apart(q, 0, i, a) /\ Holds(bs, a, v)
  <2>1. \A l \in 1 .. n - 1 : l \in 0 + 1 .. i - 1 \/ l \in i .. n - 1
    OBVIOUS
  <2> QED BY <1>1, <2>1 DEF After, Apart
<1>2. ASSUME NEW j \in 1 .. i - 1, q[j].asset = a, q[j].version = v, Apart(q, j, i, a)
      PROVE  After(q, bs, n, a, v)
  <2>1. \A l \in j + 1 .. n - 1 : l \in j + 1 .. i - 1 \/ l \in i .. n - 1
    OBVIOUS
  <2>2. \A l \in j + 1 .. n - 1 : q[l].asset # a
    BY <1>2, <2>1 DEF Apart
  <2>3. j \in 1 .. n - 1
    OBVIOUS
  <2> QED BY <1>2, <2>2, <2>3 DEF After, Apart
<1> QED BY <1>1, <1>2 DEF After

\* Receiving the first frame makes no difference, when the book becomes what it says.
LEMMA AfterFirst ==
  ASSUME NEW q \in Seq(Frames), q # <<>>, NEW bs, NEW cs,
         NEW i \in 2 .. Len(q) + 1, NEW a, NEW v, After(q, bs, i, a, v),
         q[1].asset = a => Holds(cs, a, q[1].version),
         q[1].asset # a /\ Holds(bs, a, v) => Holds(cs, a, v)
  PROVE  After(Tail(q), cs, i - 1, a, v)
<1> DEFINE t == Tail(q)
<1>1. Len(q) \in Nat /\ \A l \in 1 .. Len(q) - 1 : t[l] = q[l + 1]
  BY HeadTailProperties
<1> HIDE DEF t
<1>2. ASSUME NEW j \in 0 .. i - 1, Apart(q, j, i, a), NEW l \in 1 .. i - 2, l >= j
      PROVE  t[l].asset # a
  <2>1. l + 1 \in j + 1 .. i - 1 /\ l \in 1 .. Len(q) - 1
    BY <1>1, <1>2
  <2> QED BY <1>1, <1>2, <2>1 DEF Apart
<1>3. CASE Apart(q, 0, i, a) /\ Holds(bs, a, v)
  <2>1. q[1].asset # a
    <3>1. 1 \in 0 + 1 .. i - 1
      BY <1>1
    <3> QED BY <1>3, <3>1 DEF Apart
  <2>2. Apart(t, 0, i - 1, a)
    BY <1>1, <1>2, <1>3 DEF Apart
  <2> QED BY <1>3, <2>1, <2>2 DEF After, t
<1>4. ASSUME NEW j \in 1 .. i - 1, q[j].asset = a, q[j].version = v, Apart(q, j, i, a)
      PROVE  After(t, cs, i - 1, a, v)
  <2>1. CASE j = 1
    <3>1. Apart(t, 0, i - 1, a)
      BY <1>1, <1>2, <1>4, <2>1 DEF Apart
    <3>2. Holds(cs, a, v)
      BY <1>4, <2>1
    <3> QED BY <3>1, <3>2 DEF After
  <2>2. CASE j > 1
    <3>1. j - 1 \in 1 .. (i - 1) - 1 /\ t[j - 1] = q[j]
      <4>1. j - 1 \in 1 .. Len(q) - 1 /\ (j - 1) + 1 = j
        BY <1>1, <2>2
      <4> QED BY <1>1, <2>2, <4>1
    <3>2. \A l \in (j - 1) + 1 .. (i - 1) - 1 : t[l].asset # a
      BY <1>1, <1>2, <1>4, <2>2
    <3> QED BY <1>4, <3>1, <3>2 DEF After, Apart
  <2> QED BY <2>1, <2>2
<1> QED BY <1>3, <1>4 DEF After, t

-----------------------------------------------------------------------------
(* Books that one connection at a time carries.                            *)

\* No two connections carry the same asset, but those counted as shared.
Alone ==
    \A a \in Assets \ shared : \A j, k \in Shards : Carries(j, a) /\ Carries(k, a) => j = k

\* A change follows the state that it changes ...
Chained(k) ==
    \A i \in 1 .. Len(frames[k]) :
        frames[k][i].kind = "price_change" /\ frames[k][i].asset \notin shared =>
            /\ frames[k][i].version # 0
            /\ After(frames[k], books, i, frames[k][i].asset, frames[k][i].version - 1)

\* ... up to the venue's state of every asset it has to send ...
UpToDate(k) ==
    \A a \in AtVenue(k) \ shared : After(frames[k], books, Len(frames[k]) + 1, a, venue[a])

\* ... and no further.
NoFuture(k) ==
    \A i \in 1 .. Len(frames[k]) : frames[k][i].version <= venue[frames[k][i].asset]

\* Nothing comes for a book that is left over from a connection that was lost.
NoStray(k) ==
    \A a \in DOMAIN books \ (subscribed[k] \union AtVenue(k) \union shared) :
        \A i \in 1 .. Len(frames[k]) : frames[k][i].asset # a

InOrderOn(k) == Chained(k) /\ UpToDate(k) /\ NoFuture(k) /\ NoStray(k)

OrderInv == BookIsReal /\ Alone /\ \A k \in Shards : InOrderOn(k)

\* The types the frames and books of a shard have.
LEMMA OrderTypes ==
  ASSUME FeedType, NEW k \in Shards
  PROVE  /\ frames[k] \in Seq(Frames) /\ Len(frames[k]) \in Nat
         /\ \A i \in 1 .. Len(frames[k]) :
               /\ frames[k][i].asset \in Assets /\ frames[k][i].version \in Versions
               /\ frames[k][i].kind \in {"book", "price_change"}
         /\ venue \in [Assets -> Versions] /\ Versions \subseteq Nat
         /\ subscribed[k] \in SUBSET Assets /\ AtVenue(k) \in SUBSET Assets
         /\ pending[k] = Nothing => AtVenue(k) = subscribed[k]
<1>1. frames[k] \in Seq(Frames) /\ subscribed[k] \in SUBSET Assets
      /\ pending[k] \in {Nothing} \union {<<S>> : S \in SUBSET Assets}
      /\ venue \in [Assets -> Versions]
  BY DEF FeedType
<1>2. Len(frames[k]) \in Nat /\ \A i \in 1 .. Len(frames[k]) : frames[k][i] \in Frames
  BY <1>1, ElementOfSeq, LenProperties
<1>3. AtVenue(k) \in SUBSET Assets
  <2>1. ASSUME pending[k] # Nothing PROVE pending[k][1] \in SUBSET Assets
    <3>1. PICK S \in SUBSET Assets : pending[k] = <<S>>
      BY <1>1, <2>1
    <3> QED BY <3>1
  <2> QED BY <1>1, <2>1 DEF AtVenue
<1>4. Versions \subseteq Nat
  BY FeedAssumption DEF Versions
<1> QED BY <1>1, <1>2, <1>3, <1>4 DEF Frames, AtVenue

\* At the start there are neither books nor frames.
LEMMA InitOrder == FeedInit => OrderInv
<1> SUFFICES ASSUME FeedInit PROVE OrderInv
  OBVIOUS
<1>1. DOMAIN books = {}
  BY DEF FeedInit
<1>2. ASSUME NEW k \in Shards
      PROVE  frames[k] = <<>> /\ Len(frames[k]) = 0 /\ AtVenue(k) = {} /\ subscribed[k] = {}
  BY DEF FeedInit, AtVenue
<1>3. ASSUME NEW k \in Shards PROVE InOrderOn(k)
  BY <1>1, <1>2 DEF InOrderOn, Chained, UpToDate, NoFuture, NoStray
<1>4. Alone
  BY <1>2 DEF Alone, Carries
<1> QED BY <1>1, <1>3, <1>4 DEF OrderInv, BookIsReal

\* Steps that touch no frame, no book and no subscription.
LEMMA OrderStays ==
  ASSUME OrderInv, UNCHANGED <<frames, books, venue, subscribed, pending, shared>>
  PROVE  OrderInv'
BY DEF OrderInv, Alone, Carries, InOrderOn, Chained, UpToDate, NoFuture, NoStray, BookIsReal,
       AtVenue

\* A connection that asks for an asset another carries makes it a shared one.
LEMMA AskingKeepsAlone ==
  ASSUME Alone, NEW k \in Shards, NEW S, Asks(k, S),
         \A a \in Assets, j \in Shards : Carries(j, a)' => Carries(j, a) \/ (j = k /\ a \in S)
  PROVE  Alone'
<1> SUFFICES ASSUME NEW a \in Assets, a \notin shared', NEW i \in Shards, NEW j \in Shards,
                    Carries(i, a)', Carries(j, a)', i # j
             PROVE  FALSE
  BY DEF Alone
<1>1. a \notin shared /\ (a \in S => \A l \in Shards \ {k} : ~Carries(l, a))
  BY DEF Asks
<1>2. Carries(i, a) \/ (i = k /\ a \in S)
  OBVIOUS
<1>3. Carries(j, a) \/ (j = k /\ a \in S)
  OBVIOUS
<1>4. ~(Carries(i, a) /\ Carries(j, a))
  BY <1>1 DEF Alone
<1> QED BY <1>1, <1>2, <1>3, <1>4

\* Who asks for nothing carries no more.
LEMMA AloneStays ==
  ASSUME Alone, shared' = shared,
         \A a \in Assets, j \in Shards : Carries(j, a)' => Carries(j, a)
  PROVE  Alone'
BY DEF Alone

\* A shard that takes no part in a step stays in order when the step changes no book
\* that the shard carries, unless it is a shared one.
LEMMA OthersInOrder ==
  ASSUME FeedType, NEW j \in Shards, InOrderOn(j), venue' = venue, shared \subseteq shared',
         frames'[j] = frames[j], subscribed'[j] = subscribed[j], pending'[j] = pending[j],
         \A a \in Assets \ shared' :
            Carries(j, a) => /\ \A v : Holds(books, a, v) => Holds(books', a, v)
                             /\ a \in DOMAIN books' => a \in DOMAIN books,
         DOMAIN books' \subseteq Assets
  PROVE  InOrderOn(j)'
<1> DEFINE q == frames[j]
<1>1. /\ AtVenue(j)' = AtVenue(j) /\ AtVenue(j) \in SUBSET Assets /\ Len(q) \in Nat
      /\ \A i \in 1 .. Len(q) : q[i].asset \in Assets
  BY OrderTypes DEF AtVenue
<1>2. /\ \A i \in 1 .. Len(q) : Carries(j, q[i].asset)
      /\ \A a \in AtVenue(j) : Carries(j, a)
  <2>1. DOMAIN q = 1 .. Len(q)
    BY OrderTypes, LenProperties
  <2> QED BY <2>1 DEF Carries
<1>3. ASSUME NEW i \in Nat, NEW a \in Assets \ shared', NEW v, Carries(j, a),
             After(q, books, i, a, v)
      PROVE  After(q, books', i, a, v)
  <2>1. Holds(books, a, v) => Holds(books', a, v)
    BY <1>3
  <2> HIDE DEF q
  <2> QED BY <1>3, <2>1, AfterPrefix
<1>4. Chained(j)'
  <2> SUFFICES ASSUME NEW i \in 1 .. Len(q), q[i].kind = "price_change", q[i].asset \notin shared'
               PROVE  q[i].version # 0 /\ After(q, books', i, q[i].asset, q[i].version - 1)
    BY DEF Chained
  <2>1. q[i].version # 0 /\ After(q, books, i, q[i].asset, q[i].version - 1)
    BY DEF InOrderOn, Chained
  <2> QED BY <1>1, <1>2, <1>3, <2>1
<1>5. UpToDate(j)'
  <2> SUFFICES ASSUME NEW a \in AtVenue(j), a \notin shared'
               PROVE  After(q, books', Len(q) + 1, a, venue[a])
    BY <1>1 DEF UpToDate
  <2>1. After(q, books, Len(q) + 1, a, venue[a])
    BY DEF InOrderOn, UpToDate
  <2>2. a \in Assets /\ Carries(j, a) /\ Len(q) + 1 \in Nat
    BY <1>1, <1>2
  <2> QED BY <1>3, <2>1, <2>2
<1>6. NoFuture(j)'
  BY DEF InOrderOn, NoFuture
<1>7. NoStray(j)'
  <2> SUFFICES ASSUME NEW a \in DOMAIN books', a \notin subscribed[j] \union AtVenue(j),
                      a \notin shared', NEW i \in 1 .. Len(q), q[i].asset = a
               PROVE  FALSE
    BY <1>1 DEF NoStray
  <2>1. a \in DOMAIN books
    BY <1>2
  <2> QED BY <2>1 DEF InOrderOn, NoStray
<1> QED BY <1>4, <1>5, <1>6, <1>7 DEF InOrderOn

\* So does it when the step changes no book at all.
LEMMA OthersUndisturbed ==
  ASSUME FeedType, OrderInv, NEW k \in Shards, UNCHANGED <<venue, books>>, shared \subseteq shared',
         \A j \in Shards : j # k => /\ frames'[j] = frames[j] /\ subscribed'[j] = subscribed[j]
                                    /\ pending'[j] = pending[j]
  PROVE  \A j \in Shards : j # k => InOrderOn(j)'
<1> SUFFICES ASSUME NEW j \in Shards, j # k PROVE InOrderOn(j)'
  OBVIOUS
<1>1. InOrderOn(j) /\ DOMAIN books' \subseteq Assets
  BY DEF OrderInv, FeedType
<1>2. \A a \in Assets : (\A v : Holds(books, a, v) => Holds(books', a, v))
                        /\ (a \in DOMAIN books' => a \in DOMAIN books)
  BY DEF Holds
<1>3. frames'[j] = frames[j] /\ subscribed'[j] = subscribed[j] /\ pending'[j] = pending[j]
  OBVIOUS
<1> QED BY <1>1, <1>2, <1>3, OthersInOrder

\* A connection is made: snapshots of all its assets are on their way.
LEMMA ConnectOrder ==
  ASSUME FeedInv, OrderInv, NEW k \in Shards, Connect(k)
  PROVE  OrderInv'
<1> DEFINE q == Snapshots(shards[k])
<1>1. FeedType /\ shards[k] \in SUBSET Assets
  BY AssignmentsHold DEF FeedInv
<1>2. /\ frames'[k] = q /\ subscribed'[k] = shards[k] /\ pending'[k] = Nothing
      /\ UNCHANGED <<books, venue>> /\ Asks(k, shards[k]) /\ shared \subseteq shared'
      /\ \A j \in Shards : j # k => /\ frames'[j] = frames[j] /\ subscribed'[j] = subscribed[j]
                                    /\ pending'[j] = pending[j]
  BY <1>1 DEF FeedType, Connect, Asks
<1>3. AtVenue(k)' = shards[k]
  BY <1>2 DEF AtVenue
<1>4. /\ q \in Seq(Frames) /\ Len(q) \in Nat
      /\ \A i \in 1 .. Len(q) :
            q[i].asset \in shards[k] /\ q[i].kind = "book" /\ q[i].version = venue[q[i].asset]
      /\ \A a \in shards[k] : \E i \in 1 .. Len(q) :
            q[i].asset = a /\ \A l \in 1 .. Len(q) : q[l].asset = a => l = i
  BY <1>1, SnapshotsList DEF FeedType
<1> HIDE DEF q
<1>5. Chained(k)'
  BY <1>2, <1>4 DEF Chained
<1>6. UpToDate(k)'
  <2> SUFFICES ASSUME NEW a \in shards[k] PROVE After(q, books, Len(q) + 1, a, venue[a])
    BY <1>2, <1>3 DEF UpToDate
  <2>1. PICK i \in 1 .. Len(q) : q[i].asset = a /\ \A l \in 1 .. Len(q) : q[l].asset = a => l = i
    BY <1>4
  <2>2. Apart(q, i, Len(q) + 1, a)
    BY <1>4, <2>1 DEF Apart
  <2> QED BY <1>4, <2>1, <2>2 DEF After
<1>7. NoFuture(k)'
  <2>1. \A a \in Assets : venue[a] <= venue[a]
    BY <1>1 DEF FeedType, Versions
  <2> QED BY <1>1, <1>2, <1>4, <2>1 DEF NoFuture
<1>8. NoStray(k)'
  BY <1>2, <1>3, <1>4 DEF NoStray
<1>9. BookIsReal'
  BY <1>2 DEF OrderInv, BookIsReal
<1>10. Alone'
  <2>1. ASSUME NEW a \in Assets, NEW j \in Shards, Carries(j, a)'
        PROVE  Carries(j, a) \/ (j = k /\ a \in shards[k])
    <3>1. CASE j # k
      BY <1>2, <2>1, <3>1 DEF Carries, AtVenue
    <3>2. CASE j = k
      <4>1. \A i \in DOMAIN q : q[i].asset \in shards[k]
        BY <1>4, LenProperties
      <4> QED BY <1>2, <1>3, <2>1, <3>2, <4>1 DEF Carries
    <3> QED BY <3>1, <3>2
  <2> QED BY <1>2, <2>1, AskingKeepsAlone DEF OrderInv
<1>11. \A j \in Shards : j # k => InOrderOn(j)'
  BY <1>1, <1>2, OthersUndisturbed
<1> QED BY <1>5, <1>6, <1>7, <1>8, <1>9, <1>10, <1>11 DEF OrderInv, InOrderOn

\* A lost connection leaves no frames, and its books as they are.
LEMMA DisconnectOrder ==
  ASSUME FeedInv, OrderInv, NEW k \in Shards, Disconnect(k)
  PROVE  OrderInv'
<1>1. /\ frames'[k] = <<>> /\ subscribed'[k] = {} /\ pending'[k] = Nothing
      /\ UNCHANGED <<books, venue, shared>>
      /\ \A j \in Shards : j # k => /\ frames'[j] = frames[j] /\ subscribed'[j] = subscribed[j]
                                    /\ pending'[j] = pending[j]
  BY DEF FeedInv, FeedType, Disconnect
<1>2. Len(frames'[k]) = 0 /\ AtVenue(k)' = {}
  BY <1>1 DEF AtVenue
<1>3. InOrderOn(k)'
  BY <1>1, <1>2 DEF InOrderOn, Chained, UpToDate, NoFuture, NoStray
<1>4. BookIsReal'
  BY <1>1 DEF OrderInv, BookIsReal
<1>5. Alone'
  <2>1. \A a \in Assets, j \in Shards : Carries(j, a)' => Carries(j, a)
    BY <1>1, <1>2 DEF Carries, AtVenue
  <2> QED BY <1>1, <2>1, AloneStays DEF OrderInv
<1>6. \A j \in Shards : j # k => InOrderOn(j)'
  BY <1>1, OthersUndisturbed DEF FeedInv
<1> QED BY <1>3, <1>4, <1>5, <1>6 DEF OrderInv

\* Snapshots of the added assets are appended to what is on its way.
LEMMA SendDifferenceOrder ==
  ASSUME FeedInv, OrderInv, NEW k \in Shards, SendDifference(k)
  PROVE  OrderInv'
<1> DEFINE added == shards[k] \ subscribed[k]
           q == frames[k]
           s == Snapshots(added)
           r == q \o s
<1>1. FeedType /\ shards[k] \in SUBSET Assets /\ InOrderOn(k)
  BY AssignmentsHold DEF FeedInv, OrderInv
<1>2. /\ frames'[k] = r /\ subscribed'[k] = subscribed[k] /\ pending'[k] = <<shards[k]>>
      /\ pending[k] = Nothing /\ UNCHANGED <<books, venue>>
      /\ Asks(k, added) /\ shared \subseteq shared'
      /\ \A j \in Shards : j # k => /\ frames'[j] = frames[j] /\ subscribed'[j] = subscribed[j]
                                    /\ pending'[j] = pending[j]
  BY <1>1 DEF FeedType, SendDifference, Asks
<1>3. AtVenue(k)' = shards[k] /\ AtVenue(k) = subscribed[k]
  BY <1>2 DEF AtVenue, Nothing
<1>4. /\ s \in Seq(Frames) /\ Len(s) \in Nat
      /\ \A i \in 1 .. Len(s) :
            s[i].asset \in added /\ s[i].kind = "book" /\ s[i].version = venue[s[i].asset]
      /\ \A a \in added : \E i \in 1 .. Len(s) :
            s[i].asset = a /\ \A l \in 1 .. Len(s) : s[l].asset = a => l = i
  <2>1. added \in SUBSET Assets /\ venue \in [Assets -> Versions]
    BY <1>1 DEF FeedType
  <2> HIDE DEF added
  <2> QED BY <2>1, SnapshotsList
<1>5. q \in Seq(Frames) /\ Len(q) \in Nat
  BY <1>1, OrderTypes
<1> HIDE DEF q, s
<1>6. PICK m \in Nat, n \in Nat : m = Len(q) /\ n = Len(s)
  BY <1>4, <1>5
<1>7. /\ Len(r) = m + n
      /\ \A i \in 1 .. m : r[i] = q[i]
      /\ \A i \in m + 1 .. m + n : r[i] = s[i - m] /\ i - m \in 1 .. n
  <2>1. Len(r) = m + n /\ \A i \in 1 .. m + n : r[i] = IF i <= m THEN q[i] ELSE s[i - m]
    BY <1>4, <1>5, <1>6, ConcatProperties
  <2> HIDE DEF r
  <2> QED BY <1>6, <2>1
<1> HIDE DEF r
<1>8. \A i \in 1 .. m + n : i \notin 1 .. m => r[i].kind = "book" /\ r[i].asset \in added
  <2> HIDE DEF added
  <2> TAKE i \in 1 .. m + n
  <2>1. i \notin 1 .. m => i \in m + 1 .. m + n
    BY <1>6
  <2>2. \A l \in 1 .. n : s[l].kind = "book" /\ s[l].asset \in added
    BY <1>4, <1>6
  <2>3. i \in m + 1 .. m + n => r[i] = s[i - m] /\ i - m \in 1 .. n
    BY <1>7
  <2> QED BY <2>1, <2>2, <2>3
<1> HIDE DEF added
<1>9. Chained(k)'
  <2> SUFFICES ASSUME NEW i \in 1 .. m + n, r[i].kind = "price_change",
                      r[i].asset \notin shared'
               PROVE  r[i].version # 0 /\ After(r, books, i, r[i].asset, r[i].version - 1)
    BY <1>2, <1>7 DEF Chained
  <2>1. i \in 1 .. m /\ r[i] = q[i]
    BY <1>7, <1>8
  <2>2. r[i].version # 0 /\ After(q, books, i, r[i].asset, r[i].version - 1)
    BY <1>1, <1>2, <1>6, <2>1 DEF InOrderOn, Chained, q
  <2>3. \A l \in 1 .. i - 1 : l \in 1 .. m
    BY <1>6, <2>1
  <2>4. \A l \in 1 .. i - 1 : r[l] = q[l]
    BY <1>7, <2>3
  <2> QED BY <2>2, <2>4, AfterPrefix
<1>10. UpToDate(k)'
  <2> SUFFICES ASSUME NEW a \in shards[k], a \notin shared'
               PROVE  After(r, books, m + n + 1, a, venue[a])
    BY <1>2, <1>3, <1>7 DEF UpToDate
  <2>1. CASE a \in subscribed[k]
    <3>1. After(q, books, m + 1, a, venue[a])
      BY <1>1, <1>2, <1>3, <1>6, <2>1 DEF InOrderOn, UpToDate, q
    <3>2. After(r, books, m + 1, a, venue[a])
      <4>1. \A l \in 1 .. (m + 1) - 1 : r[l] = q[l]
        BY <1>7
      <4> QED BY <3>1, <4>1, AfterPrefix
    <3>3. \A l \in m + 1 .. (m + n + 1) - 1 : r[l].asset # a
      <4> TAKE l \in m + 1 .. (m + n + 1) - 1
      <4>1. l \in m + 1 .. m + n
        BY <1>6
      <4>2. r[l] = s[l - m] /\ l - m \in 1 .. Len(s)
        BY <1>6, <1>7, <4>1
      <4>3. r[l].asset \in added
        BY <1>4, <4>2
      <4> QED BY <2>1, <4>3 DEF added
    <3> QED BY <3>2, <3>3, AfterOthers
  <2>2. CASE a \notin subscribed[k]
    <3>1. PICK i \in 1 .. n : s[i].asset = a /\ \A l \in 1 .. n : s[l].asset = a => l = i
      BY <1>4, <1>6, <2>2 DEF added
    <3>2. m + i \in m + 1 .. m + n /\ r[m + i] = s[i]
      <4>1. m + i \in m + 1 .. m + n /\ (m + i) - m = i
        BY <1>6
      <4> QED BY <1>7, <4>1
    <3>3. \A l \in (m + i) + 1 .. (m + n + 1) - 1 : r[l].asset # a
      <4> TAKE l \in (m + i) + 1 .. (m + n + 1) - 1
      <4>1. l \in m + 1 .. m + n /\ l - m # i
        BY <3>1
      <4> QED BY <1>7, <3>1, <4>1
    <3>4. r[m + i].version = venue[a]
      BY <1>4, <1>6, <3>1, <3>2
    <3>5. m + i \in 1 .. (m + n + 1) - 1
      BY <3>2
    <3> QED BY <3>1, <3>2, <3>3, <3>4, <3>5 DEF After, Apart
  <2> QED BY <2>1, <2>2
<1>11. NoFuture(k)'
  <2> SUFFICES ASSUME NEW i \in 1 .. m + n PROVE r[i].version <= venue[r[i].asset]
    BY <1>2, <1>7 DEF NoFuture
  <2>1. CASE i \in 1 .. m
    BY <1>1, <1>6, <1>7, <2>1 DEF InOrderOn, NoFuture, q
  <2>2. CASE i \in m + 1 .. m + n
    <3>1. r[i] = s[i - m] /\ i - m \in 1 .. Len(s)
      BY <1>6, <1>7, <2>2
    <3>2. r[i].version = venue[r[i].asset] /\ r[i].asset \in Assets
      BY <1>1, <1>4, <3>1 DEF added
    <3>3. venue[r[i].asset] \in Nat
      BY <1>1, <3>2, FeedAssumption DEF FeedType, Versions
    <3> QED BY <3>2, <3>3
  <2> QED BY <2>1, <2>2
<1>12. NoStray(k)'
  <2> SUFFICES ASSUME NEW a \in DOMAIN books \ (subscribed[k] \union shards[k] \union shared'),
                      NEW i \in 1 .. m + n
               PROVE  r[i].asset # a
    BY <1>2, <1>3, <1>7 DEF NoStray
  <2>1. CASE i \in 1 .. m
    BY <1>1, <1>2, <1>3, <1>6, <1>7, <2>1 DEF InOrderOn, NoStray, q
  <2>2. CASE i \notin 1 .. m
    BY <1>8, <2>2 DEF added
  <2> QED BY <2>1, <2>2
<1>13. BookIsReal'
  BY <1>2 DEF OrderInv, BookIsReal
<1>14. Alone'
  <2>1. ASSUME NEW a \in Assets, NEW j \in Shards, Carries(j, a)'
        PROVE  Carries(j, a) \/ (j = k /\ a \in added)
    <3>1. CASE j # k
      BY <1>2, <2>1, <3>1 DEF Carries, AtVenue
    <3>2. ASSUME j = k, a \in subscribed[k] \union shards[k]
          PROVE  Carries(j, a) \/ (j = k /\ a \in added)
      BY <3>2 DEF Carries, added
    <3>3. ASSUME j = k, NEW i \in DOMAIN r, r[i].asset = a
          PROVE  Carries(j, a) \/ (j = k /\ a \in added)
      <4>1. DOMAIN q = 1 .. m /\ i \in 1 .. m + n
        BY <1>4, <1>5, <1>6, <1>7, <3>3, LenProperties DEF r
      <4>2. CASE i \in 1 .. m
        BY <1>7, <3>3, <4>1, <4>2 DEF Carries, q
      <4>3. CASE i \notin 1 .. m
        BY <1>8, <3>3, <4>1, <4>3
      <4> QED BY <4>2, <4>3
    <3> QED BY <1>2, <1>3, <2>1, <3>1, <3>2, <3>3 DEF Carries
  <2> QED BY <1>2, <2>1, AskingKeepsAlone DEF OrderInv
<1>15. \A j \in Shards : j # k => InOrderOn(j)'
  BY <1>1, <1>2, OthersUndisturbed
<1> QED BY <1>9, <1>10, <1>11, <1>12, <1>13, <1>14, <1>15 DEF OrderInv, InOrderOn

\* The books of the dropped assets go, and the task follows the venue again.
LEMMA ApplyDifferenceOrder ==
  ASSUME FeedInv, OrderInv, NEW k \in Shards, ApplyDifference(k)
  PROVE  OrderInv'
<1> DEFINE q == frames[k]
<1>1. FeedType /\ InOrderOn(k) /\ Len(q) \in Nat
  BY OrderTypes DEF FeedInv, OrderInv
<1>2. PICK S \in SUBSET Assets : pending[k] = <<S>>
  BY <1>1 DEF FeedType, ApplyDifference
<1>3. /\ frames' = frames /\ venue' = venue /\ subscribed'[k] = S /\ pending'[k] = Nothing
      /\ AtVenue(k) = S /\ shared' = shared
      /\ \A j \in Shards : j # k => subscribed'[j] = subscribed[j] /\ pending'[j] = pending[j]
  BY <1>1, <1>2 DEF FeedType, ApplyDifference, AtVenue
<1>4. AtVenue(k)' = S
  BY <1>3 DEF AtVenue
<1>5. /\ DOMAIN books' = DOMAIN books \ (subscribed[k] \ S)
      /\ \A a \in DOMAIN books' : books'[a] = books[a]
  BY <1>2 DEF ApplyDifference, Without, Restrict
<1>6. \A a, v : Holds(books, a, v) => Holds(books', a, v)
  BY <1>5 DEF Holds
<1>7. ASSUME NEW i \in Nat, NEW a, NEW v, After(q, books, i, a, v)
      PROVE  After(q, books', i, a, v)
  BY <1>6, <1>7, AfterPrefix
<1>8. Chained(k)'
  <2> SUFFICES ASSUME NEW i \in 1 .. Len(q), q[i].kind = "price_change", q[i].asset \notin shared
               PROVE  q[i].version # 0 /\ After(q, books', i, q[i].asset, q[i].version - 1)
    BY <1>3 DEF Chained
  <2>1. q[i].version # 0 /\ After(q, books, i, q[i].asset, q[i].version - 1)
    BY <1>1 DEF InOrderOn, Chained
  <2> QED BY <1>1, <1>7, <2>1
<1>9. UpToDate(k)'
  <2> SUFFICES ASSUME NEW a \in S \ shared PROVE After(q, books', Len(q) + 1, a, venue[a])
    BY <1>3, <1>4 DEF UpToDate
  <2>1. After(q, books, Len(q) + 1, a, venue[a])
    BY <1>1, <1>3 DEF InOrderOn, UpToDate
  <2> QED BY <1>1, <1>7, <2>1
<1>10. NoFuture(k)'
  BY <1>1, <1>3 DEF InOrderOn, NoFuture
<1>11. NoStray(k)'
  BY <1>1, <1>3, <1>4, <1>5 DEF InOrderOn, NoStray
<1>12. BookIsReal'
  BY <1>3, <1>5 DEF OrderInv, BookIsReal
<1>13. Alone'
  <2>1. \A a \in Assets, j \in Shards : Carries(j, a)' => Carries(j, a)
    BY <1>3, <1>4 DEF Carries, AtVenue
  <2> QED BY <1>3, <2>1, AloneStays DEF OrderInv
<1>14. ASSUME NEW j \in Shards, j # k PROVE InOrderOn(j)'
  <2>1. /\ DOMAIN books' \subseteq Assets /\ InOrderOn(j)
        /\ \A a \in Assets : (\A v : Holds(books, a, v) => Holds(books', a, v))
                             /\ (a \in DOMAIN books' => a \in DOMAIN books)
    BY <1>1, <1>5, <1>6 DEF FeedType, OrderInv
  <2>2. /\ frames'[j] = frames[j] /\ subscribed'[j] = subscribed[j] /\ pending'[j] = pending[j]
        /\ shared \subseteq shared'
    BY <1>3, <1>14
  <2> QED BY <1>1, <1>3, <2>1, <2>2, OthersInOrder
<1> QED BY <1>8, <1>9, <1>10, <1>11, <1>12, <1>13, <1>14 DEF OrderInv, InOrderOn

\* What the first frame says becomes the state of the book, if there is one.
LEMMA FirstFrameHolds ==
  ASSUME FeedInv, OrderInv, NEW k \in Shards, Receive(k)
  PROVE  LET f == frames[k][1]
         IN /\ f.asset \notin shared => Holds(books', f.asset, f.version)
            /\ DOMAIN books' \subseteq DOMAIN books \union (subscribed[k] \intersect {f.asset})
            /\ \A a \in DOMAIN books' : a # f.asset => books'[a] = books[a]
            /\ f.asset \notin subscribed[k] => books' = books
<1> DEFINE q == frames[k]
           f == q[1]
           bs == Applied(f, k)
<1>1. FeedType /\ InOrderOn(k)
  BY DEF FeedInv, OrderInv
<1>2. q \in Seq(Frames) /\ q # <<>> /\ pending[k] = Nothing
  BY <1>1, OrderTypes DEF Receive
<1>3. Head(q) = f /\ 1 \in 1 .. Len(q)
  <2>1. Len(q) \in Nat \ {0}
    BY <1>2, EmptySeq
  <2> QED BY <1>2, <2>1
<1>4. /\ f.version \in Versions /\ f.kind \in {"book", "price_change"}
      /\ AtVenue(k) = subscribed[k] /\ f.version \in Nat
  BY <1>1, <1>2, <1>3, OrderTypes
<1>5. books' = bs
  BY <1>3 DEF Receive
<1>6. books = [x \in DOMAIN books |-> books[x]]
  BY <1>1 DEF FeedType
<1> HIDE DEF f
<1>7. /\ bs = [x \in DOMAIN bs |-> bs[x]]
      /\ DOMAIN bs \subseteq DOMAIN books \union (subscribed[k] \intersect {f.asset})
      /\ \A x \in DOMAIN bs : x # f.asset => bs[x] = books[x]
      /\ f.asset \notin subscribed[k] => bs = books
      /\ f.asset \in subscribed[k] /\ f.kind = "book" => bs[f.asset] = VenueBook(f.version)
      /\ f.asset \in subscribed[k] /\ f.kind # "book" =>
            /\ DOMAIN bs = DOMAIN books
            /\ f.asset \in DOMAIN books =>
                  bs[f.asset] = [books[f.asset] EXCEPT ![f.version % 2] = f.version]
  BY <1>6, AppliedShape
<1> HIDE DEF bs
<1>8. ASSUME f.asset \notin shared PROVE Holds(bs, f.asset, f.version)
  <2>1. CASE f.asset \notin subscribed[k]
    <3>1. f.asset \notin DOMAIN books
      <4> SUFFICES ASSUME f.asset \in DOMAIN books PROVE FALSE
        OBVIOUS
      <4>1. \A i \in 1 .. Len(q) : q[i].asset # f.asset
        BY <1>1, <1>4, <1>8, <2>1 DEF InOrderOn, NoStray
      <4> QED BY <1>3, <4>1 DEF f
    <3> QED BY <1>7, <2>1, <3>1 DEF Holds
  <2>2. CASE f.asset \in subscribed[k] /\ f.kind = "book"
    BY <1>7, <2>2 DEF Holds
  <2>3. CASE f.asset \in subscribed[k] /\ f.kind # "book" /\ f.asset \in DOMAIN books
    <3>1. f.version # 0 /\ After(q, books, 1, f.asset, f.version - 1)
      BY <1>1, <1>3, <1>4, <1>8, <2>3 DEF InOrderOn, Chained, f
    <3>2. Holds(books, f.asset, f.version - 1)
      BY <3>1 DEF After
    <3>3. books[f.asset] = VenueBook(f.version - 1)
      BY <2>3, <3>2 DEF Holds
    <3>4. [VenueBook(f.version - 1) EXCEPT ![f.version % 2] = f.version] = VenueBook(f.version)
      BY <1>4, <3>1, VenueBookType
    <3> QED BY <1>7, <2>3, <3>3, <3>4 DEF Holds
  <2>4. CASE f.asset \in subscribed[k] /\ f.kind # "book" /\ f.asset \notin DOMAIN books
    BY <1>7, <2>4 DEF Holds
  <2> QED BY <2>1, <2>2, <2>3, <2>4
<1> QED BY <1>5, <1>7, <1>8 DEF f

\* The first frame brings the book of its asset to the state the others go on from.
LEMMA ReceiveOrder ==
  ASSUME FeedInv, OrderInv, NEW k \in Shards, Receive(k)
  PROVE  OrderInv'
<1> DEFINE q == frames[k]
           f == q[1]
           t == Tail(q)
<1>1. FeedType /\ InOrderOn(k)
  BY DEF FeedInv, OrderInv
<1>2. q \in Seq(Frames) /\ q # <<>> /\ pending[k] = Nothing
  BY <1>1, OrderTypes DEF Receive
<1>3. /\ frames'[k] = t /\ subscribed' = subscribed /\ pending' = pending /\ venue' = venue
      /\ AtVenue(k) = subscribed[k] /\ AtVenue(k)' = subscribed[k] /\ shared' = shared
      /\ \A j \in Shards : j # k => frames'[j] = frames[j]
  BY <1>1, <1>2 DEF FeedType, Receive, AtVenue
<1>4. PICK n \in Nat : n = Len(t) /\ Len(q) = n + 1 /\ \A i \in 1 .. n : t[i] = q[i + 1]
  <2>1. Len(q) \in Nat /\ Len(t) = Len(q) - 1 /\ t \in Seq(Frames)
        /\ \A i \in 1 .. Len(t) : t[i] = q[i + 1]
    BY <1>2, HeadTailProperties, LenProperties
  <2>2. Len(t) \in Nat
    BY <2>1, LenProperties
  <2> HIDE DEF q, t
  <2> QED BY <2>1, <2>2
<1>5. /\ f.asset \notin shared => Holds(books', f.asset, f.version)
      /\ DOMAIN books' \subseteq DOMAIN books \union (subscribed[k] \intersect {f.asset})
      /\ \A a \in DOMAIN books' : a # f.asset => books'[a] = books[a]
      /\ f.asset \notin subscribed[k] => books' = books
  BY FirstFrameHolds
<1> HIDE DEF t
<1>6. \A a, v : a # f.asset /\ Holds(books, a, v) => Holds(books', a, v)
  BY <1>5 DEF Holds
<1>7. ASSUME NEW i \in 2 .. n + 2, NEW a, a \notin shared, NEW v, After(q, books, i, a, v)
      PROVE  After(t, books', i - 1, a, v)
  <2>1. f.asset = a => Holds(books', a, f.version)
    BY <1>5, <1>7
  <2>2. f.asset # a /\ Holds(books, a, v) => Holds(books', a, v)
    BY <1>6
  <2>3. i \in 2 .. Len(q) + 1
    BY <1>4
  <2> HIDE DEF q
  <2> QED BY <1>2, <1>7, <2>1, <2>2, <2>3, AfterFirst DEF t
<1>8. Chained(k)'
  <2> SUFFICES ASSUME NEW i \in 1 .. n, t[i].kind = "price_change", t[i].asset \notin shared
               PROVE  t[i].version # 0 /\ After(t, books', i, t[i].asset, t[i].version - 1)
    BY <1>3, <1>4 DEF Chained
  <2>1. i + 1 \in 1 .. Len(q) /\ i + 1 \in 2 .. n + 2 /\ (i + 1) - 1 = i /\ t[i] = q[i + 1]
    <3> HIDE DEF q
    <3> QED BY <1>4
  <2>2. t[i].version # 0 /\ After(q, books, i + 1, t[i].asset, t[i].version - 1)
    BY <1>1, <2>1 DEF InOrderOn, Chained
  <2>3. After(t, books', (i + 1) - 1, t[i].asset, t[i].version - 1)
    BY <1>7, <2>1, <2>2
  <2> QED BY <2>1, <2>2, <2>3
<1>9. UpToDate(k)'
  <2> SUFFICES ASSUME NEW a \in subscribed[k] \ shared PROVE After(t, books', n + 1, a, venue[a])
    BY <1>3, <1>4 DEF UpToDate
  <2>1. After(q, books, n + 2, a, venue[a])
    <3>1. After(q, books, Len(q) + 1, a, venue[a])
      BY <1>1, <1>3 DEF InOrderOn, UpToDate
    <3>2. Len(q) + 1 = n + 2
      BY <1>4
    <3> QED BY <3>1, <3>2
  <2>2. n + 2 \in 2 .. n + 2 /\ (n + 2) - 1 = n + 1
    OBVIOUS
  <2>3. After(t, books', (n + 2) - 1, a, venue[a])
    BY <1>7, <2>1, <2>2
  <2> QED BY <2>2, <2>3
<1>10. NoFuture(k)'
  <2> SUFFICES ASSUME NEW i \in 1 .. n PROVE t[i].version <= venue[t[i].asset]
    BY <1>3, <1>4 DEF NoFuture
  <2>1. i + 1 \in 1 .. Len(q) /\ t[i] = q[i + 1]
    BY <1>4
  <2> QED BY <1>1, <2>1 DEF InOrderOn, NoFuture
<1>11. NoStray(k)'
  <2> SUFFICES ASSUME NEW a \in DOMAIN books' \ (subscribed[k] \union shared), NEW i \in 1 .. n
               PROVE  t[i].asset # a
    BY <1>3, <1>4 DEF NoStray
  <2>1. i + 1 \in 1 .. Len(q) /\ t[i] = q[i + 1]
    BY <1>4
  <2>2. a \in DOMAIN books
    BY <1>5
  <2> QED BY <1>1, <1>3, <2>1, <2>2 DEF InOrderOn, NoStray
<1>12. BookIsReal'
  <2> SUFFICES ASSUME NEW a \in DOMAIN books' \ shared
               PROVE  \E v \in 0 .. venue[a] : books'[a] = VenueBook(v)
    BY <1>3 DEF BookIsReal
  <2>1. CASE a # f.asset
    <3>1. a \in DOMAIN books /\ books'[a] = books[a]
      BY <1>5, <2>1
    <3> QED BY <3>1 DEF OrderInv, BookIsReal
  <2>2. CASE a = f.asset
    <3>1. 1 \in 1 .. Len(q)
      BY <1>4
    <3>2. f.version <= venue[a] /\ f.version \in Nat /\ venue[a] \in Nat
      BY <1>1, <2>2, <3>1, OrderTypes DEF InOrderOn, NoFuture
    <3>3. books'[a] = VenueBook(f.version)
      BY <1>5, <2>2 DEF Holds
    <3> QED BY <3>2, <3>3
  <2> QED BY <2>1, <2>2
<1>13. Alone'
  <2>1. \A i \in DOMAIN t : i \in 1 .. n /\ i + 1 \in DOMAIN q /\ t[i] = q[i + 1]
    <3>1. DOMAIN t = 1 .. n /\ DOMAIN q = 1 .. n + 1
      BY <1>2, <1>4, HeadTailProperties, LenProperties DEF t
    <3> QED BY <1>4, <3>1
  <2>2. \A a \in Assets, j \in Shards : Carries(j, a)' => Carries(j, a)
    BY <1>3, <2>1 DEF Carries, AtVenue
  <2> QED BY <1>3, <2>2, AloneStays DEF OrderInv
<1>14. ASSUME NEW j \in Shards, j # k PROVE InOrderOn(j)'
  <2>1. ASSUME NEW a \in Assets \ shared', Carries(j, a)
        PROVE  /\ \A v : Holds(books, a, v) => Holds(books', a, v)
               /\ a \in DOMAIN books' => a \in DOMAIN books
    <3>1. a \notin subscribed[k]
      <4>1. ~Carries(k, a)
        BY <1>3, <1>14, <2>1 DEF OrderInv, Alone
      <4> QED BY <4>1 DEF Carries
    <3>2. CASE a = f.asset
      BY <1>5, <3>1, <3>2
    <3>3. CASE a # f.asset
      BY <1>5, <1>6, <3>3
    <3> QED BY <3>2, <3>3
  <2>2. DOMAIN books' \subseteq Assets /\ InOrderOn(j)
    BY <1>1, <1>5 DEF FeedType, OrderInv
  <2>3. /\ frames'[j] = frames[j] /\ subscribed'[j] = subscribed[j] /\ pending'[j] = pending[j]
        /\ shared \subseteq shared' /\ venue' = venue
    BY <1>3, <1>14
  <2> QED BY <1>1, <2>1, <2>2, <2>3, OthersInOrder
<1> QED BY <1>8, <1>9, <1>10, <1>11, <1>12, <1>13, <1>14 DEF OrderInv, InOrderOn

\* A change is told after all that it follows.
LEMMA VenueChangesOrder ==
  ASSUME FeedInv, OrderInv, NEW b \in Assets, VenueChanges(b)
  PROVE  OrderInv'
<1>1. FeedType
  BY DEF FeedInv
<1>2. /\ venue[b] + 1 \in Versions /\ venue' = [venue EXCEPT ![b] = @ + 1]
      /\ UNCHANGED <<books, subscribed, pending, connected, shared>>
  BY <1>1, VenueMoves DEF VenueChanges
<1>3. \A a \in Assets : /\ venue[a] \in Nat /\ venue[a] <= venue'[a] /\ venue'[a] \in Nat
                        /\ a # b => venue'[a] = venue[a]
  <2>1. \A a \in Assets : venue[a] \in Nat
    BY <1>1, FeedAssumption DEF FeedType, Versions
  <2> QED BY <1>1, <1>2, <2>1 DEF FeedType
<1>4. ASSUME NEW k \in Shards PROVE InOrderOn(k)'
  <2> DEFINE q == frames[k]
             change == [asset |-> b, kind |-> "price_change", version |-> venue[b] + 1]
             r == frames'[k]
  <2>1. InOrderOn(k) /\ AtVenue(k)' = AtVenue(k)
    BY <1>2 DEF OrderInv, AtVenue
  <2>2. /\ q \in Seq(Frames) /\ AtVenue(k) \in SUBSET Assets
        /\ \A i \in 1 .. Len(q) : q[i].asset \in Assets /\ q[i].version \in Nat
    BY <1>1, OrderTypes
  <2>3. b \in AtVenue(k) => k \in connected
    BY <1>1 DEF FeedType, AtVenue
  <2>4. PICK n \in Nat : n = Len(q)
    BY <2>2, LenProperties
  <2>5. r = IF b \in AtVenue(k) THEN Append(q, change) ELSE q
    BY <2>3 DEF VenueChanges
  <2>6. change \in Frames
    BY <1>2 DEF Frames
  <2>7. PICK m \in Nat : /\ m = Len(r) /\ (m = n \/ m = n + 1)
                         /\ m = n <=> b \notin AtVenue(k)
                         /\ \A i \in 1 .. n : r[i] = q[i]
                         /\ m = n + 1 => r[n + 1] = change
    <3> HIDE DEF change
    <3>1. CASE b \in AtVenue(k)
      <4>1. Len(r) = n + 1 /\ \A i \in 1 .. n + 1 : r[i] = IF i <= n THEN q[i] ELSE change
        BY <2>2, <2>4, <2>5, <2>6, <3>1, AppendProperties
      <4>2. n + 1 \in Nat /\ n + 1 # n /\ n + 1 \in 1 .. n + 1
        OBVIOUS
      <4>3. Len(r) = n + 1 /\ (\A i \in 1 .. n : r[i] = q[i]) /\ r[n + 1] = change
        BY <4>1, <4>2
      <4> HIDE DEF q, r
      <4> QED BY <3>1, <4>2, <4>3
    <3>2. CASE b \notin AtVenue(k)
      BY <2>4, <2>5, <3>2
    <3> QED BY <3>1, <3>2
  <2> HIDE DEF q, r
  <2>8. ASSUME NEW i \in 1 .. n + 1, NEW a, NEW v, After(q, books, i, a, v)
        PROVE  After(r, books, i, a, v)
    <3>1. \A l \in 1 .. i - 1 : r[l] = q[l]
      BY <2>7
    <3> QED BY <2>8, <3>1, AfterPrefix
  <2>9. Chained(k)'
    <3> SUFFICES ASSUME NEW i \in 1 .. m, r[i].kind = "price_change", r[i].asset \notin shared
                 PROVE  r[i].version # 0 /\ After(r, books, i, r[i].asset, r[i].version - 1)
      BY <1>2, <2>7 DEF Chained, r
    <3>1. CASE i \in 1 .. n
      <4>1. r[i].version # 0 /\ After(q, books, i, r[i].asset, r[i].version - 1)
        BY <2>1, <2>4, <2>7, <3>1 DEF InOrderOn, Chained, q
      <4> QED BY <2>8, <3>1, <4>1
    <3>2. CASE i \notin 1 .. n
      <4>1. m = n + 1 /\ i = n + 1 /\ b \in AtVenue(k)
        BY <2>7, <3>2
      <4>2. r[i].asset = b /\ r[i].version = venue[b] + 1
        BY <2>7, <4>1
      <4>3. After(q, books, n + 1, b, venue[b])
        BY <2>1, <2>4, <4>1, <4>2 DEF InOrderOn, UpToDate, q
      <4>4. After(r, books, i, b, venue[b])
        BY <2>8, <4>1, <4>3
      <4>5. (venue[b] + 1) - 1 = venue[b] /\ venue[b] + 1 # 0
        BY <1>3
      <4> QED BY <4>2, <4>4, <4>5
    <3> QED BY <3>1, <3>2
  <2>10. UpToDate(k)'
    <3> SUFFICES ASSUME NEW a \in AtVenue(k) \ shared PROVE After(r, books, m + 1, a, venue'[a])
      BY <1>2, <2>1, <2>7 DEF UpToDate, r
    <3>1. CASE a = b
      <4>1. r[n + 1].asset = b /\ r[n + 1].version = venue'[a] /\ m = n + 1
        BY <1>1, <1>2, <2>7, <3>1 DEF FeedType
      <4>2. Apart(r, n + 1, m + 1, a)
        BY <4>1 DEF Apart
      <4> QED BY <3>1, <4>1, <4>2 DEF After
    <3>2. CASE a # b
      <4>1. After(q, books, n + 1, a, venue[a])
        BY <2>1, <2>4 DEF InOrderOn, UpToDate, q
      <4>2. After(r, books, n + 1, a, venue[a])
        BY <2>8, <4>1
      <4>3. \A l \in n + 1 .. (m + 1) - 1 : r[l].asset # a
        BY <2>7, <3>2
      <4>4. n + 1 <= m + 1 /\ n + 1 \in Nat /\ m + 1 \in Nat
        BY <2>7
      <4>5. After(r, books, m + 1, a, venue[a])
        BY <4>2, <4>3, <4>4, AfterOthers
      <4> QED BY <1>3, <2>2, <3>2, <4>5
    <3> QED BY <3>1, <3>2
  <2>11. NoFuture(k)'
    <3> SUFFICES ASSUME NEW i \in 1 .. m PROVE r[i].version <= venue'[r[i].asset]
      BY <2>7 DEF NoFuture, r
    <3>1. CASE i \in 1 .. n
      <4>1. r[i] = q[i] /\ q[i].asset \in Assets /\ q[i].version \in Nat
        BY <2>2, <2>4, <2>7, <3>1
      <4>2. q[i].version <= venue[q[i].asset]
        BY <2>1, <2>4, <3>1 DEF InOrderOn, NoFuture, q
      <4>3. venue[q[i].asset] <= venue'[q[i].asset] /\ venue[q[i].asset] \in Nat
            /\ venue'[q[i].asset] \in Nat
        BY <1>3, <4>1
      <4> QED BY <4>1, <4>2, <4>3
    <3>2. CASE i \notin 1 .. n
      <4>1. r[i] = change
        BY <2>7, <3>2
      <4>2. venue'[b] = venue[b] + 1
        BY <1>1, <1>2 DEF FeedType
      <4> QED BY <1>3, <4>1, <4>2
    <3> QED BY <3>1, <3>2
  <2>12. NoStray(k)'
    <3> SUFFICES ASSUME NEW a \in DOMAIN books \ (subscribed[k] \union AtVenue(k) \union shared),
                        NEW i \in 1 .. m
                 PROVE  r[i].asset # a
      BY <1>2, <2>1, <2>7 DEF NoStray, r
    <3>1. CASE i \in 1 .. n
      BY <2>1, <2>4, <2>7, <3>1 DEF InOrderOn, NoStray, q
    <3>2. CASE i \notin 1 .. n
      BY <2>7, <3>2
    <3> QED BY <3>1, <3>2
  <2> QED BY <2>9, <2>10, <2>11, <2>12 DEF InOrderOn
<1>5. BookIsReal'
  <2> SUFFICES ASSUME NEW a \in DOMAIN books \ shared
               PROVE  \E v \in 0 .. venue'[a] : books[a] = VenueBook(v)
    BY <1>2 DEF BookIsReal
  <2>1. PICK v \in 0 .. venue[a] : books[a] = VenueBook(v)
    BY DEF OrderInv, BookIsReal
  <2>2. a \in Assets
    BY <1>1 DEF FeedType
  <2>3. v \in 0 .. venue'[a]
    BY <1>3, <2>2
  <2> QED BY <2>1, <2>3
<1>6. Alone'
  <2>1. ASSUME NEW a \in Assets, NEW j \in Shards, Carries(j, a)' PROVE Carries(j, a)
    <3> DEFINE change == [asset |-> b, kind |-> "price_change", version |-> venue[b] + 1]
               q == frames[j]
    <3>1. AtVenue(j)' = AtVenue(j)
      BY <1>2 DEF AtVenue
    <3>2. q \in Seq(Frames) /\ change \in Frames
      BY <1>1, <1>2, OrderTypes DEF Frames
    <3>3. frames'[j] = q \/ (b \in AtVenue(j) /\ frames'[j] = Append(q, change))
      BY DEF VenueChanges
    <3>4. ASSUME NEW i \in DOMAIN frames'[j], frames'[j][i].asset = a, b \in AtVenue(j),
                 frames'[j] = Append(q, change)
          PROVE  Carries(j, a)
      <4>1. /\ DOMAIN q = 1 .. Len(q) /\ Len(q) \in Nat
            /\ i \in 1 .. Len(q) + 1
            /\ frames'[j][i] = IF i <= Len(q) THEN q[i] ELSE change
        <5> HIDE DEF change, q
        <5> QED BY <3>2, <3>4, LenProperties, AppendProperties
      <4>2. CASE i <= Len(q)
        BY <3>4, <4>1, <4>2 DEF Carries
      <4>3. CASE ~(i <= Len(q))
        BY <3>4, <4>1, <4>3 DEF Carries
      <4> QED BY <4>2, <4>3
    <3> QED BY <1>2, <2>1, <3>1, <3>3, <3>4 DEF Carries
  <2> QED BY <1>2, <2>1, AloneStays DEF OrderInv
<1> QED BY <1>4, <1>5, <1>6 DEF OrderInv

\* Every step keeps frames and books in order.
LEMMA NextOrder == FeedInv /\ OrderInv /\ [FeedNext]_feedVars => OrderInv'
<1> SUFFICES ASSUME FeedInv, OrderInv, [FeedNext]_feedVars PROVE OrderInv'
  OBVIOUS
<1>1. CASE Offer \/ AssignOffered \/ UNCHANGED feedVars
  BY <1>1, OrderStays DEF Offer, AssignOffered, feedVars, taskVars
<1>2. ASSUME NEW k \in Shards, Task(k) \/ Disconnect(k) PROVE OrderInv'
  BY <1>2, ConnectOrder, SendDifferenceOrder, ApplyDifferenceOrder, ReceiveOrder,
     DisconnectOrder DEF Task
<1>3. ASSUME NEW a \in Assets, VenueChanges(a) PROVE OrderInv'
  BY <1>3, VenueChangesOrder
<1> QED BY <1>1, <1>2, <1>3 DEF FeedNext

\* On any number of connections apply_frame never mixes two states of a book: over any
\* number of subscriptions, changes that come early or late, lost connections and moves
\* from one connection to another, every book that can be read is one the venue had, of
\* every asset that no connection asked for while another carried it still.
THEOREM BooksAreReal == FeedSpec => []BookIsReal
<1>1. OrderInv => BookIsReal
  BY DEF OrderInv
<1> QED BY <1>1, NextOrder, InitOrder, FeedInvariant, PTL DEF FeedSpec

-----------------------------------------------------------------------------
(* Lists of markets on their way to the connections.                       *)

\* What the loop over the pairs goes through.
Rounds == [assigned : Placings, failed : BOOLEAN]

\* A turn of the loop that does not fail places the pair, and displaces none.
LEMMA TurnPlaces ==
  ASSUME NEW acc \in Rounds, NEW m \in Markets
  PROVE  LET next == AssignPair(acc, Pair(m))
         IN /\ next \in Rounds
            /\ DOMAIN acc.assigned \subseteq DOMAIN next.assigned
            /\ ~next.failed => ~acc.failed /\ Range(Pair(m)) \subseteq DOMAIN next.assigned
<1> DEFINE a == acc.assigned
           room == Room(a, Pair(m))
           choice == Preferred(a, Pair(m)) \intersect room
           k == IF choice # {} THEN Min(choice) ELSE Min(room)
<1>1. a \in Placings /\ acc.failed \in BOOLEAN
  BY DEF Rounds
<1>2. CASE acc.failed \/ Range(Pair(m)) \subseteq DOMAIN a
  BY <1>2 DEF AssignPair
<1>3. CASE ~acc.failed /\ ~(Range(Pair(m)) \subseteq DOMAIN a) /\ room = {}
  <2>1. AssignPair(acc, Pair(m)) = [acc EXCEPT !.failed = TRUE]
    BY <1>3 DEF AssignPair
  <2> QED BY <1>1, <2>1 DEF Rounds
<1>4. CASE ~acc.failed /\ ~(Range(Pair(m)) \subseteq DOMAIN a) /\ room # {}
  <2> DEFINE b == Place(a, Pair(m), k)
  <2>1. k \in Shards
    <3>1. room \subseteq Shards /\ choice \subseteq room
      BY DEF Room
    <3>2. IsFiniteSet(Shards) /\ \A x \in Shards : x \in Int
      <4>1. ShardCount \in Int
        BY ShardAssumption DEF ShardCount
      <4> QED BY <4>1, FS_Interval DEF Shards
    <3> HIDE DEF room, choice
    <3>3. IsFiniteSet(room) /\ IsFiniteSet(choice)
      <4>1. IsFiniteSet(room)
        BY <3>1, <3>2, FS_Subset
      <4> QED BY <3>1, <4>1, FS_Subset
    <3>4. choice # {} => Min(choice) \in choice
      BY <3>1, <3>2, <3>3, MinIsElement
    <3>5. Min(room) \in room
      BY <1>4, <3>1, <3>2, <3>3, MinIsElement
    <3> QED BY <3>1, <3>4, <3>5
  <2>2. AssignPair(acc, Pair(m)) = [acc EXCEPT !.assigned = b]
    BY <1>4 DEF AssignPair
  <2> HIDE DEF k
  <2>3. DOMAIN b = DOMAIN a \union Range(Pair(m))
    BY DEF Place
  <2>4. b \in Placings
    <3>1. DOMAIN a \subseteq Assets /\ a \in [DOMAIN a -> Shards]
      BY <1>1, PlacingShape
    <3>2. Range(Pair(m)) \subseteq Assets
      BY DEF Assets, AssetsOf
    <3>3. b \in [DOMAIN b -> Shards]
      BY <2>1, <3>1 DEF Place
    <3> QED BY <2>3, <3>1, <3>2, <3>3, PlacingShape
  <2> HIDE DEF b
  <2> QED BY <1>1, <1>4, <2>2, <2>3, <2>4 DEF Rounds
<1> QED BY <1>2, <1>3, <1>4

\* The loop places every market of a list, unless it fails.
LEMMA EachPlaces ==
  ASSUME assigned \in Placings, NEW S \in SUBSET Markets
  PROVE  /\ AssignEach(S) \in Rounds
         /\ ~AssignEach(S).failed => AssetsOf(S) \subseteq DOMAIN AssignEach(S).assigned
<1> DEFINE order == InOrder(S)
           D == DOMAIN order
           base == [assigned |-> Kept(S), failed |-> FALSE]
           Turn(acc, i) == AssignPair(acc, Pair(order[i]))
           Step(f, t) == IF t = {} THEN base ELSE Turn(f[t \ {Max(t)}], Max(t))
           h == CHOOSE f : f = [t \in SUBSET D |-> Step(f, t)]
           F == [p \in D \X Rounds |-> Turn(p[2], p[1])]
           choice == [t \in SUBSET D |-> Max(t)]
           Has(acc, i) == Range(Pair(order[i])) \subseteq DOMAIN acc.assigned
           Good(t) == /\ h[t] \in Rounds
                      /\ ~h[t].failed => \A i \in t : Has(h[t], i)
<1>1. AssignEach(S) = h[D]
  BY DEF AssignEach, FoldLeft, MapThenFoldSet
<1>2. PICK n \in Nat : n = Cardinality(S)
  BY InOrderLists
<1>3. D = 1 .. n /\ (\A i \in D : order[i] \in S) /\ \A m \in S : \E i \in D : order[i] = m
  BY <1>2, InOrderLists
<1>4. IsFiniteSet(D) /\ \A i \in D : i \in Int
  BY <1>2, <1>3, FS_Interval
<1>5. base \in Rounds
  <2>1. DOMAIN assigned \subseteq Assets /\ assigned \in [DOMAIN assigned -> Shards]
    BY PlacingShape
  <2>2. DOMAIN Kept(S) \subseteq Assets /\ Kept(S) \in [DOMAIN Kept(S) -> Shards]
    BY <2>1 DEF Kept, Restrict
  <2>3. Kept(S) \in Placings
    BY <2>2, PlacingShape
  <2> QED BY <2>3 DEF Rounds
<1>6. ASSUME NEW acc \in Rounds, NEW i \in D
      PROVE  /\ Turn(acc, i) \in Rounds
             /\ DOMAIN acc.assigned \subseteq DOMAIN Turn(acc, i).assigned
             /\ ~Turn(acc, i).failed => ~acc.failed /\ Has(Turn(acc, i), i)
  <2>1. order[i] \in Markets
    BY <1>3
  <2> HIDE DEF order
  <2> QED BY <2>1, TurnPlaces
<1>7. (\A i \in D : Has(h[D], i)) => AssetsOf(S) \subseteq DOMAIN h[D].assigned
  <2> HIDE DEF h, D, order
  <2> QED BY <1>3 DEF AssetsOf
<1> HIDE DEF base, Turn, order, D
<1>8. \A t \in SUBSET D : t # {} => Max(t) \in t
  BY <1>4, FS_Subset, MaxIsElement
<1>9. PICK g \in [SUBSET D -> Rounds] : IsFold(g, D, base, F, choice)
  <2>1. F \in [D \X Rounds -> Rounds]
    BY <1>6
  <2>2. Picks(choice, D)
    BY <1>8 DEF Picks
  <2> HIDE DEF F, choice
  <2> QED BY <1>4, <1>5, <2>1, <2>2, FoldExists
<1>10. g = [t \in SUBSET D |-> Step(g, t)]
  <2> SUFFICES ASSUME NEW t \in SUBSET D PROVE g[t] = Step(g, t)
    OBVIOUS
  <2>1. g[t] = IF t = {} THEN base ELSE F[<<choice[t], g[t \ {choice[t]}]>>]
    BY <1>9 DEF IsFold
  <2>2. t # {} => Max(t) \in D /\ g[t \ {Max(t)}] \in Rounds
    BY <1>8
  <2> QED BY <2>1, <2>2
<1>11. h = [t \in SUBSET D |-> Step(h, t)]
  <2> HIDE DEF Step
  <2> QED BY <1>10, Zenon
<1> HIDE DEF h
<1>12. Good(D)
  <2> DEFINE B == {t \in SUBSET D : ~Good(t)}
  <2> SUFFICES ASSUME B # {} PROVE FALSE
    BY DEF B
  <2>1. PICK t \in B : \A u \in SUBSET t : u \in B => u = t
    <3>1. B \in SUBSET (SUBSET D)
      OBVIOUS
    <3> HIDE DEF B
    <3> QED BY <1>4, <3>1, SmallestSubset
  <2>2. t \in SUBSET D /\ h[t] = Step(h, t) /\ ~Good(t)
    <3> HIDE DEF Step, Good
    <3> QED BY <1>11, <2>1
  <2>3. t # {}
    BY <1>5, <2>2
  <2> DEFINE x == Max(t)
             u == t \ {x}
  <2>4. x \in t /\ x \in D /\ u \in SUBSET t /\ u # t
    BY <1>8, <2>2, <2>3
  <2>5. Good(u)
    <3>1. u \in SUBSET D /\ u \notin B
      BY <2>1, <2>2, <2>4
    <3> HIDE DEF Good, u
    <3> QED BY <3>1
  <2>6. h[t] = Turn(h[u], x) /\ \A i \in t : i \in u \/ i = x
    BY <2>2, <2>3
  <2> HIDE DEF u, x, Has
  <2>7. /\ h[t] \in Rounds
        /\ ~h[t].failed => ~h[u].failed /\ Has(h[t], x)
        /\ DOMAIN h[u].assigned \subseteq DOMAIN h[t].assigned
    BY <1>6, <2>4, <2>5, <2>6
  <2>8. \A i \in t : Has(h[u], i) => Has(h[t], i)
    BY <2>7 DEF Has
  <2> QED BY <2>2, <2>5, <2>6, <2>7, <2>8
<1> QED BY <1>1, <1>7, <1>12

-----------------------------------------------------------------------------
(***************************************************************************)
(* What a discovery misses.  An item that stays listed is missed when a    *)
(* closing moves it from a page not requested yet to one that was: the     *)
(* items before the next page that have not been read are at most as many  *)
(* as those that closed.                                                   *)
(***************************************************************************)
\* What there is of item i for the service is in got.
Got(i, got) == Range(MarketsOf[i]) \intersect Eligible \subseteq got

Missed(to, got) == {i \in throughout : Offset(i) < to /\ ~Got(i, got)}
Unread(got) == {i \in throughout : ~Got(i, got)}

\* The items that were listed once, of which there are more with every closing.
Closed == Items \ (listed \union unlisted)

NextOffset == page * PageLimit

DiscoveryInv ==
    /\ DiscoveryTypeOK
    /\ closings <= Cardinality(Closed)
    /\ phase = "paging" =>
         ended = "not" /\ Cardinality(Missed(NextOffset, found)) <= closings
    /\ phase = "done" /\ ended = "short_page" => Cardinality(Unread(result)) <= closings

\* The items, and with them all sets of items, are finite.
LEMMA ItemsAreFinite ==
  /\ IsFiniteSet(Items) /\ Cardinality(Items) \in Nat
  /\ \A S \in SUBSET Items : /\ IsFiniteSet(S) /\ Cardinality(S) \in Nat
                             /\ Cardinality(S) <= Cardinality(Items)
                             /\ \A i \in S : i \in Int
                             /\ \A T \in SUBSET S : Cardinality(T) <= Cardinality(S)
<1>1. IsFiniteSet(Items) /\ \A i \in Items : i \in Int
  BY DiscoveryAssumption
<1>2. Cardinality(Items) \in Nat
  BY <1>1, FS_CardinalityType
<1>3. ASSUME NEW S \in SUBSET Items PROVE /\ IsFiniteSet(S) /\ Cardinality(S) \in Nat
                                           /\ Cardinality(S) <= Cardinality(Items)
  BY <1>1, FS_Subset, FS_CardinalityType
<1>4. ASSUME NEW S \in SUBSET Items, NEW T \in SUBSET S PROVE Cardinality(T) <= Cardinality(S)
  BY <1>3, FS_Subset
<1> QED BY <1>1, <1>2, <1>3, <1>4

\* The offsets of n listed items are 0 .. n - 1, each of one of them.
LEMMA OffsetsAre ==
  ASSUME listed \in SUBSET Items
  PROVE  /\ Cardinality(listed) \in Nat
         /\ \A i \in listed : Offset(i) \in Nat /\ Offset(i) < Cardinality(listed)
         /\ \A i, j \in listed : Offset(i) = Offset(j) => i = j
         /\ \A n \in 0 .. Cardinality(listed) - 1 : \E i \in listed : Offset(i) = n
<1>1. /\ IsFiniteSet(listed) /\ Cardinality(listed) \in Nat
      /\ \A i \in listed : i \in Int
  BY ItemsAreFinite
<1>2. \A i \in listed : Offset(i) = Cardinality(LessThan(listed, i))
  BY DEF Offset, LessThan
<1> DEFINE n == Cardinality(listed)
<1>3. /\ \A i \in listed : Offset(i) \in 0 .. n - 1
      /\ \A i, j \in listed : i < j => Offset(i) < Offset(j)
      /\ \A k \in 0 .. n - 1 : \E i \in listed : Offset(i) = k
  BY <1>1, <1>2, RanksAre
<1> HIDE DEF n
<1>4. ASSUME NEW i \in listed, NEW j \in listed, Offset(i) = Offset(j) PROVE i = j
  <2>1. ~(i < j) /\ ~(j < i)
    BY <1>3, <1>4
  <2> QED BY <1>1, <2>1
<1> QED BY <1>1, <1>3, <1>4 DEF n

\* An item that opens moves others to later pages only.
LEMMA OpeningMoves ==
  ASSUME DiscoveryInv, NEW c \in Items, ItemOpens(c)
  PROVE  /\ \A i \in listed : Offset(i) <= Offset(i)' /\ Offset(i)' \in Nat
         /\ listed' \in SUBSET Items
<1>1. /\ listed' = listed \union {c} /\ listed' \in SUBSET Items
  BY DEF DiscoveryInv, DiscoveryTypeOK, ItemOpens
<1>2. ASSUME NEW i \in listed PROVE Offset(i) <= Offset(i)' /\ Offset(i)' \in Nat
  <2> DEFINE A == {j \in listed : j < i}
             B == {j \in listed' : j < i}
  <2>1. B \in SUBSET Items /\ A \in SUBSET B
    BY <1>1
  <2> HIDE DEF A, B
  <2>2. Cardinality(A) <= Cardinality(B) /\ Cardinality(B) \in Nat
    BY <2>1, ItemsAreFinite
  <2> QED BY <2>2 DEF Offset, A, B
<1> QED BY <1>1, <1>2

\* An item that closes moves others one place at most.
LEMMA ClosingMoves ==
  ASSUME DiscoveryInv, NEW c \in Items, ItemCloses(c)
  PROVE  /\ listed' \in SUBSET Items /\ listed' = listed \ {c}
         /\ \A i \in listed' : Offset(i) <= Offset(i)' + 1 /\ Offset(i)' \in Nat
<1>1. listed' = listed \ {c} /\ listed' \in SUBSET Items /\ listed \in SUBSET Items
  BY DEF DiscoveryInv, DiscoveryTypeOK, ItemCloses
<1>2. ASSUME NEW i \in listed' PROVE Offset(i) <= Offset(i)' + 1 /\ Offset(i)' \in Nat
  <2> DEFINE A == {j \in listed : j < i}
             B == {j \in listed' : j < i}
             C == B \union {c}
  <2>1. B \in SUBSET Items /\ C \in SUBSET Items /\ A \in SUBSET C
    BY <1>1
  <2>2. C = B \union {c}
    OBVIOUS
  <2> HIDE DEF A, B, C
  <2>3. /\ IsFiniteSet(B) /\ Cardinality(B) \in Nat /\ Cardinality(C) \in Nat
        /\ Cardinality(A) <= Cardinality(C) /\ A \in SUBSET Items
    <3>1. IsFiniteSet(B) /\ Cardinality(B) \in Nat
      BY <2>1, ItemsAreFinite
    <3>2. Cardinality(C) \in Nat /\ Cardinality(A) <= Cardinality(C)
      BY <2>1, ItemsAreFinite
    <3> QED BY <2>1, <3>1, <3>2
  <2>4. Cardinality(C) <= Cardinality(B) + 1
    <3>1. Cardinality(C) = IF c \in B THEN Cardinality(B) ELSE Cardinality(B) + 1
      BY <2>2, <2>3, FS_AddElement
    <3> QED BY <2>3, <3>1
  <2>5. Cardinality(A) \in Nat
    BY <2>3, ItemsAreFinite
  <2>6. Offset(i) = Cardinality(A) /\ Offset(i)' = Cardinality(B)
    BY DEF Offset, A, B
  <2> QED BY <2>3, <2>4, <2>5, <2>6
<1> QED BY <1>1, <1>2

\* Of fewer items not more are missed.
LEMMA FewerUnread ==
  ASSUME DiscoveryTypeOK, NEW A \in SUBSET throughout, NEW B \in SUBSET A
  PROVE  /\ Cardinality(A) \in Nat /\ Cardinality(B) \in Nat
         /\ Cardinality(B) <= Cardinality(A)
<1>1. A \in SUBSET Items /\ B \in SUBSET Items
  BY DEF DiscoveryTypeOK
<1> QED BY <1>1, ItemsAreFinite

\* Nothing is missed by an item that opens.
LEMMA OpeningMisses ==
  ASSUME DiscoveryInv, NEW c \in Items, ItemOpens(c)
  PROVE  DiscoveryInv'
<1>1. /\ DiscoveryTypeOK /\ listed \in SUBSET Items /\ unlisted \in SUBSET (Items \ listed)
      /\ throughout \in SUBSET listed
  BY DEF DiscoveryInv, DiscoveryTypeOK
<1>2. /\ c \in unlisted /\ listed' = listed \union {c} /\ unlisted' = unlisted \ {c}
      /\ UNCHANGED <<phase, page, found, result, ended, throughout, closings, faults>>
  BY DEF ItemOpens, bookkeeping
<1>3. DiscoveryTypeOK'
  BY <1>1, <1>2 DEF DiscoveryTypeOK
<1>4. Closed' = Closed
  BY <1>1, <1>2 DEF Closed
<1>5. ASSUME phase = "paging" PROVE Cardinality(Missed(NextOffset, found))' <= closings
  <2> DEFINE A == Missed(NextOffset, found)
             B == Missed(NextOffset, found)'
  <2>1. page \in Nat /\ PageLimit \in Nat
    BY <1>1, DiscoveryAssumption DEF DiscoveryTypeOK
  <2>2. NextOffset \in Int /\ NextOffset' = NextOffset
    BY <1>2, <2>1 DEF NextOffset
  <2>3. \A i \in throughout : i \in listed /\ Offset(i) \in Int /\ Offset(i)' \in Int
                              /\ Offset(i) <= Offset(i)'
    <3>1. \A i \in listed : Offset(i) \in Int
      BY <1>1, OffsetsAre
    <3> QED BY <1>1, <3>1, OpeningMoves
  <2>4. A \in SUBSET throughout /\ B \in SUBSET A
    BY <1>2, <2>2, <2>3 DEF Missed, Got
  <2> HIDE DEF A, B
  <2>5. Cardinality(B) <= Cardinality(A) /\ Cardinality(A) \in Nat /\ Cardinality(B) \in Nat
    BY <1>1, <2>4, FewerUnread
  <2>6. Cardinality(A) <= closings /\ closings \in Int
    BY <1>5 DEF DiscoveryInv, DiscoveryTypeOK, A
  <2> QED BY <2>5, <2>6 DEF B
<1>6. Unread(result)' = Unread(result)
  BY <1>2 DEF Unread, Got
<1> QED BY <1>2, <1>3, <1>4, <1>5, <1>6 DEF DiscoveryInv

\* An item that closes makes the discovery miss one other at most: the first of the
\* page that comes next.
LEMMA ClosingMisses ==
  ASSUME DiscoveryInv, NEW c \in Items, ItemCloses(c)
  PROVE  DiscoveryInv'
<1>1. /\ DiscoveryTypeOK /\ listed \in SUBSET Items /\ unlisted \in SUBSET (Items \ listed)
      /\ throughout \in SUBSET listed /\ closings \in Nat
  <2>1. closings \in Nat
    BY ItemsAreFinite DEF DiscoveryInv, DiscoveryTypeOK
  <2> QED BY <2>1 DEF DiscoveryInv, DiscoveryTypeOK
<1>2. /\ c \in listed /\ listed' = listed \ {c} /\ throughout' = throughout \ {c}
      /\ closings' = IF phase = "paging" THEN closings + 1 ELSE closings
      /\ UNCHANGED <<unlisted, phase, page, found, result, ended, faults>>
  BY DEF ItemCloses
<1>3. closings' <= Cardinality(Closed') /\ closings' \in 0 .. Cardinality(Items)
  <2>1. Closed' = Closed \union {c} /\ c \notin Closed /\ Closed \in SUBSET Items
        /\ Closed' \in SUBSET Items
    BY <1>1, <1>2 DEF Closed
  <2>2. IsFiniteSet(Closed) /\ Cardinality(Closed) \in Nat
    BY <2>1, ItemsAreFinite
  <2>3. Cardinality(Closed') = Cardinality(Closed) + 1
    BY <2>1, <2>2, FS_AddElement
  <2>4. Cardinality(Closed') <= Cardinality(Items) /\ Cardinality(Items) \in Nat
    BY <2>1, ItemsAreFinite
  <2>5. closings <= Cardinality(Closed)
    BY DEF DiscoveryInv
  <2> QED BY <1>1, <1>2, <2>2, <2>3, <2>4, <2>5
<1>4. DiscoveryTypeOK'
  BY <1>1, <1>2, <1>3 DEF DiscoveryTypeOK
<1>5. ASSUME phase = "paging" PROVE Cardinality(Missed(NextOffset, found))' <= closings'
  <2> DEFINE A == Missed(NextOffset, found)
             B == Missed(NextOffset, found)'
             E == {i \in throughout : Offset(i) = NextOffset}
  <2>1. page \in Nat /\ PageLimit \in Nat
    BY <1>1, DiscoveryAssumption DEF DiscoveryTypeOK
  <2>2. NextOffset \in Int /\ NextOffset' = NextOffset
    BY <1>2, <2>1 DEF NextOffset
  <2>3. \A i \in throughout' : i \in throughout /\ Offset(i) \in Int /\ Offset(i)' \in Int
                               /\ Offset(i) <= Offset(i)' + 1
    <3>1. \A i \in listed : Offset(i) \in Int
      BY <1>1, OffsetsAre
    <3> QED BY <1>1, <1>2, <3>1, ClosingMoves
  <2>4. A \in SUBSET throughout /\ B \in SUBSET (A \union E) /\ E \in SUBSET throughout
    BY <1>2, <2>2, <2>3 DEF Missed, Got
  <2>5. E = {} \/ \E i \in E : E = {i}
    BY <1>1, OffsetsAre
  <2> DEFINE U == A \union E
  <2> HIDE DEF A, B, E
  <2>6. U \in SUBSET throughout /\ B \in SUBSET U /\ A \in SUBSET Items
    BY <1>1, <2>4
  <2>7. IsFiniteSet(A) /\ Cardinality(A) \in Nat
    BY <2>6, ItemsAreFinite
  <2>8. Cardinality(U) <= Cardinality(A) + 1
    <3>1. CASE E = {}
      BY <3>1, <2>7
    <3>2. ASSUME NEW i \in E, E = {i} PROVE Cardinality(U) <= Cardinality(A) + 1
      <4>1. U = A \union {i}
        BY <3>2
      <4>2. Cardinality(A \union {i}) = IF i \in A THEN Cardinality(A) ELSE Cardinality(A) + 1
        BY <2>7, FS_AddElement
      <4> QED BY <2>7, <4>1, <4>2
    <3> QED BY <2>5, <3>1, <3>2
  <2> HIDE DEF U
  <2>9. Cardinality(B) <= Cardinality(U) /\ Cardinality(U) \in Nat /\ Cardinality(B) \in Nat
    BY <1>1, <2>6, FewerUnread
  <2>10. Cardinality(A) <= closings /\ closings' = closings + 1
    BY <1>2, <1>5 DEF DiscoveryInv, A
  <2> QED BY <1>1, <2>7, <2>8, <2>9, <2>10 DEF B
<1>6. ASSUME phase = "done", ended = "short_page"
      PROVE  Cardinality(Unread(result))' <= closings'
  <2> DEFINE A == Unread(result)
             B == Unread(result)'
  <2>1. A \in SUBSET throughout /\ B \in SUBSET A
    BY <1>2 DEF Unread, Got
  <2> HIDE DEF A, B
  <2>2. Cardinality(B) <= Cardinality(A) /\ Cardinality(A) \in Nat /\ Cardinality(B) \in Nat
    BY <1>1, <2>1, FewerUnread
  <2>3. Cardinality(A) <= closings /\ closings' = closings
    BY <1>2, <1>6 DEF DiscoveryInv, A
  <2> QED BY <1>1, <2>2, <2>3 DEF B
<1>7. phase = "paging" => ended' = "not"
  BY <1>2 DEF DiscoveryInv
<1> QED BY <1>2, <1>3, <1>4, <1>5, <1>6, <1>7 DEF DiscoveryInv

\* A discovery begins with nothing read and nothing missed.
LEMMA StartMisses ==
  ASSUME DiscoveryInv, Start
  PROVE  DiscoveryInv'
<1>1. /\ DiscoveryTypeOK /\ listed \in SUBSET Items /\ unlisted \in SUBSET (Items \ listed)
      /\ PageLimit \in Nat /\ MaxPages \in Nat \ {0}
  BY DiscoveryAssumption DEF DiscoveryInv, DiscoveryTypeOK
<1>2. /\ phase' = "paging" /\ page' = 0 /\ found' = {} /\ result' = {} /\ ended' = "not"
      /\ throughout' = listed /\ closings' = 0 /\ UNCHANGED <<listed, unlisted, faults>>
  BY DEF Start, listingVars
<1>3. Cardinality(Items) \in Nat /\ Cardinality(Closed) \in Nat /\ Closed' = Closed
  <2>1. Closed \in SUBSET Items
    BY DEF Closed
  <2> QED BY <1>2, <2>1, ItemsAreFinite DEF Closed
<1>4. DiscoveryTypeOK'
  BY <1>1, <1>2, <1>3 DEF DiscoveryTypeOK
<1>5. Missed(NextOffset, found)' = {}
  <2>1. NextOffset' = 0
    BY <1>1, <1>2 DEF NextOffset
  <2>2. \A i \in listed : Offset(i)' = Offset(i) /\ Offset(i) \in Nat
    BY <1>1, <1>2, OffsetsAre DEF Offset
  <2> QED BY <1>2, <2>1, <2>2 DEF Missed
<1>6. Cardinality({}) = 0
  BY FS_EmptySet
<1> QED BY <1>2, <1>3, <1>4, <1>5, <1>6 DEF DiscoveryInv

\* A page with fewer items than page_limit is the last that has any.
LEMMA ShortPageIsLast ==
  ASSUME DiscoveryTypeOK, NEW o \in Nat, NEW p \in Nat, p * PageLimit = o,
         (p + 1) * PageLimit = o + PageLimit, Cardinality(PageItems(p)) < PageLimit
  PROVE  \A i \in listed : Offset(i) < o + PageLimit
<1> DEFINE P == PageItems(p)
           n == Cardinality(listed)
           f == [i \in P |-> Offset(i)]
           R == {f[i] : i \in P}
<1>1. listed \in SUBSET Items /\ P \in SUBSET Items /\ PageLimit \in Nat
  BY DiscoveryAssumption DEF DiscoveryTypeOK, PageItems
<1>2. /\ n \in Nat
      /\ \A i \in listed : Offset(i) \in Nat /\ Offset(i) < n
      /\ \A k \in 0 .. n - 1 : \E i \in listed : Offset(i) = k
  BY <1>1, OffsetsAre
<1>3. P = {i \in listed : o <= Offset(i) /\ Offset(i) < o + PageLimit}
  BY DEF PageItems
<1>4. SUFFICES ASSUME n > o + PageLimit PROVE FALSE
  BY <1>1, <1>2
<1> HIDE DEF n, P
<1>5. o .. o + PageLimit - 1 \subseteq R
  <2> SUFFICES ASSUME NEW k \in o .. o + PageLimit - 1 PROVE k \in R
    OBVIOUS
  <2>1. k \in 0 .. n - 1 /\ o <= k /\ k < o + PageLimit
    BY <1>1, <1>2, <1>4
  <2>2. PICK i \in listed : Offset(i) = k
    BY <1>2, <2>1
  <2> QED BY <1>3, <2>1, <2>2
<1>6. IsFiniteSet(P) /\ Cardinality(P) \in Nat
  BY <1>1, ItemsAreFinite
<1>7. IsFiniteSet(R) /\ Cardinality(R) <= Cardinality(P)
  <2>1. f \in Surjection(P, R)
    BY DEF Surjection
  <2> HIDE DEF f, R
  <2> QED BY <1>6, <2>1, FS_Surjection
<1> HIDE DEF R, f
<1>8. Cardinality(o .. o + PageLimit - 1) = PageLimit
  <2>1. \A x, y \in Int : Cardinality(x .. y) = IF x > y THEN 0 ELSE y - x + 1
    BY FS_Interval
  <2>2. o \in Int /\ o + PageLimit - 1 \in Int /\ PageLimit > 0
    BY <1>1, DiscoveryAssumption
  <2> DEFINE e == o + PageLimit - 1
  <2>3. o <= e /\ e - o + 1 = PageLimit
    BY <1>1, <2>2
  <2> HIDE DEF e
  <2> QED BY <2>1, <2>2, <2>3 DEF e
<1>9. Cardinality(o .. o + PageLimit - 1) <= Cardinality(R) /\ Cardinality(R) \in Nat
  BY <1>5, <1>7, FS_Subset, FS_CardinalityType
<1> QED BY <1>1, <1>6, <1>7, <1>8, <1>9 DEF P

\* What a request reads is of those listed, and what is missed before the next page
\* was missed before this one.
LEMMA FetchMisses ==
  ASSUME DiscoveryInv, FetchPage
  PROVE  DiscoveryInv'
<1> DEFINE items == PageItems(page)
           all == found \union Parsed(items)
<1>1. /\ DiscoveryTypeOK /\ listed \in SUBSET Items /\ unlisted \in SUBSET (Items \ listed)
      /\ throughout \in SUBSET listed /\ page \in 0 .. MaxPages - 1
      /\ PageLimit \in Nat /\ MaxPages \in Nat \ {0}
      /\ closings \in Nat
  <2>1. closings \in Nat
    BY ItemsAreFinite DEF DiscoveryInv, DiscoveryTypeOK
  <2> QED BY <2>1, DiscoveryAssumption DEF DiscoveryInv, DiscoveryTypeOK
<1>2. /\ phase = "paging"
      /\ UNCHANGED <<listed, unlisted, throughout, closings, faults>>
      /\ \/ ItemCount(items) < PageLimit /\ Finish(all, "short_page")
         \/ Finish(all, "max_pages")
         \/ /\ page + 1 # MaxPages
            /\ page' = page + 1 /\ found' = all /\ UNCHANGED <<phase, result, ended>>
  BY DEF FetchPage, listingVars, bookkeeping
<1>3. all \subseteq MarketsOfItems \intersect Eligible
  <2>1. items \subseteq Items
    BY <1>1 DEF PageItems
  <2>2. Parsed(items) \subseteq MarketsOfItems \intersect Eligible
    BY <2>1 DEF Parsed, MarketsIn, MarketsOfItems
  <2> QED BY <1>1, <2>2 DEF DiscoveryTypeOK
<1>4. PICK o \in Nat : o = NextOffset /\ o = page * PageLimit
                       /\ (page + 1) * PageLimit = o + PageLimit
  BY <1>1 DEF NextOffset
<1>5. \A i \in listed : Offset(i) \in Nat /\ Offset(i)' = Offset(i)
  BY <1>1, <1>2, OffsetsAre DEF Offset
<1>6. \A i \in throughout : Got(i, found) => Got(i, all)
  BY DEF Got
<1>7. \A i \in listed : o <= Offset(i) /\ Offset(i) < o + PageLimit => Got(i, all)
  <2> SUFFICES ASSUME NEW i \in listed, o <= Offset(i), Offset(i) < o + PageLimit
               PROVE  Got(i, all)
    OBVIOUS
  <2>1. i \in items
    BY <1>4 DEF PageItems
  <2>2. Range(MarketsOf[i]) \intersect Eligible \subseteq Parsed(items)
    BY <2>1 DEF Parsed, MarketsIn
  <2> QED BY <2>2 DEF Got
<1> HIDE DEF all
<1>8. ASSUME NEW A \in SUBSET throughout,
             \A i \in A : Offset(i) < o + PageLimit /\ ~Got(i, all)
      PROVE  Cardinality(A) <= closings
  <2> DEFINE B == Missed(NextOffset, found)
  <2>1. A \in SUBSET B /\ B \in SUBSET throughout
    <3>1. \A i \in A : i \in listed /\ Offset(i) < o /\ ~Got(i, found)
      BY <1>1, <1>5, <1>6, <1>7, <1>8
    <3> QED BY <1>4, <3>1 DEF Missed
  <2>2. Cardinality(B) <= closings
    BY <1>2 DEF DiscoveryInv
  <2> HIDE DEF B
  <2>3. Cardinality(A) <= Cardinality(B) /\ Cardinality(A) \in Nat /\ Cardinality(B) \in Nat
    BY <1>1, <2>1, FewerUnread
  <2> QED BY <1>1, <2>2, <2>3
<1>9. closings' <= Cardinality(Closed')
  BY <1>2 DEF DiscoveryInv, Closed
<1>10. CASE ItemCount(items) < PageLimit /\ Finish(all, "short_page")
  <2>1. /\ phase' = "done" /\ page' = 0 /\ found' = {} /\ result' = all
        /\ ended' = "short_page"
    BY <1>10 DEF Finish, Leave
  <2>2. DiscoveryTypeOK'
    BY <1>1, <1>2, <1>3, <2>1 DEF DiscoveryTypeOK
  <2>3. \A i \in listed : Offset(i) < o + PageLimit
    <3>1. page \in Nat /\ page * PageLimit = o /\ (page + 1) * PageLimit = o + PageLimit
      BY <1>1, <1>4
    <3>2. Cardinality(PageItems(page)) < PageLimit
      BY <1>10 DEF ItemCount
    <3>3. DiscoveryTypeOK
      BY <1>1
    <3> QED BY <3>1, <3>2, <3>3, ShortPageIsLast
  <2>4. Cardinality(Unread(all)) <= closings
    <3> DEFINE A == Unread(all)
    <3>1. A \in SUBSET throughout /\ \A i \in A : Offset(i) < o + PageLimit /\ ~Got(i, all)
      BY <1>1, <2>3 DEF Unread
    <3> HIDE DEF A
    <3>2. Cardinality(A) <= closings
      BY <1>8, <3>1
    <3> QED BY <3>2 DEF A
  <2>5. Unread(result)' = Unread(all)
    BY <1>2, <2>1 DEF Unread, Got
  <2> QED BY <1>2, <1>9, <2>1, <2>2, <2>4, <2>5 DEF DiscoveryInv
<1>11. CASE Finish(all, "max_pages")
  <2>1. /\ phase' = "done" /\ page' = 0 /\ found' = {} /\ result' = all
        /\ ended' = "max_pages"
    BY <1>11 DEF Finish, Leave
  <2>2. DiscoveryTypeOK'
    BY <1>1, <1>2, <1>3, <2>1 DEF DiscoveryTypeOK
  <2> QED BY <1>9, <2>1, <2>2 DEF DiscoveryInv
<1>12. CASE /\ page + 1 # MaxPages
            /\ page' = page + 1 /\ found' = all /\ UNCHANGED <<phase, result, ended>>
  <2>1. DiscoveryTypeOK'
    BY <1>1, <1>2, <1>3, <1>12 DEF DiscoveryTypeOK
  <2>2. NextOffset' = o + PageLimit
    BY <1>4, <1>12 DEF NextOffset
  <2>3. Cardinality(Missed(NextOffset, found)') <= closings
    <3> DEFINE A == Missed(NextOffset, found)'
    <3>1. A \in SUBSET throughout /\ \A i \in A : Offset(i) < o + PageLimit /\ ~Got(i, all)
      <4>1. A = {i \in throughout : Offset(i)' < o + PageLimit /\ ~Got(i, all)}
        BY <1>2, <1>12, <2>2 DEF Missed, Got
      <4> QED BY <1>1, <1>5, <4>1
    <3> HIDE DEF A
    <3>2. Cardinality(A) <= closings
      BY <1>8, <3>1
    <3> QED BY <3>2 DEF A
  <2>4. ended' = "not"
    BY <1>2, <1>12 DEF DiscoveryInv
  <2> QED BY <1>2, <1>9, <1>12, <2>1, <2>3, <2>4 DEF DiscoveryInv
<1> QED BY <1>2, <1>10, <1>11, <1>12

\* A discovery that is refused or fails promises nothing.
LEMMA FaultsMiss ==
  ASSUME DiscoveryInv, PageRefused \/ PageFails
  PROVE  DiscoveryInv'
<1>1. DiscoveryTypeOK /\ MaxPages \in Nat \ {0} /\ MaxFaults \in Nat
  BY DiscoveryAssumption DEF DiscoveryInv
<1>2. Closed' = Closed /\ closings' = closings
  BY DEF PageRefused, PageFails, listingVars, Closed
<1>3. CASE PageRefused
  <2>1. /\ phase' = "done" /\ page' = 0 /\ found' = {} /\ result' = found
        /\ ended' = "refused" /\ faults' = faults + 1 /\ faults < MaxFaults
        /\ UNCHANGED <<listed, unlisted, throughout, closings>>
    BY <1>3 DEF PageRefused, Finish, Leave, listingVars
  <2>2. DiscoveryTypeOK'
    BY <1>1, <2>1 DEF DiscoveryTypeOK
  <2> QED BY <1>2, <2>1, <2>2 DEF DiscoveryInv
<1>4. CASE PageFails
  <2>1. /\ phase' = "failed" /\ page' = 0 /\ found' = {}
        /\ faults' = faults + 1 /\ faults < MaxFaults
        /\ UNCHANGED <<listed, unlisted, throughout, closings, result, ended>>
    BY <1>4 DEF PageFails, Leave, listingVars
  <2>2. DiscoveryTypeOK'
    BY <1>1, <2>1 DEF DiscoveryTypeOK
  <2> QED BY <1>2, <2>1, <2>2 DEF DiscoveryInv
<1> QED BY <1>3, <1>4

\* Before the first discovery nothing is missed.
LEMMA InitMisses ==
  ASSUME Init
  PROVE  DiscoveryInv
<1>1. /\ listed \in SUBSET Items /\ unlisted \in SUBSET (Items \ listed)
      /\ phase = "idle" /\ page = 0 /\ found = {} /\ result = {} /\ ended = "not"
      /\ throughout = {} /\ closings = 0 /\ faults = 0
  BY DEF Init
<1>2. Closed \in SUBSET Items
  BY DEF Closed
<1>3. Cardinality(Closed) \in Nat /\ Cardinality(Items) \in Nat
  BY <1>2, ItemsAreFinite
<1>4. DiscoveryTypeOK
  BY <1>1, <1>3, DiscoveryAssumption DEF DiscoveryTypeOK
<1> QED BY <1>1, <1>3, <1>4 DEF DiscoveryInv

-----------------------------------------------------------------------------
(***************************************************************************)
(* From the discovery to the connections: what was sent is what the last   *)
(* discovery found, and is carried once the task has placed it.            *)
(***************************************************************************)
AssignPart ==
    /\ assigned \in Placings /\ shards \in [Shards -> SUBSET Assets]
    /\ rejected \in {"no", "too_many", "no_capacity"}

SubInv ==
    /\ DiscoveryInv /\ AssignPart
    /\ sent \subseteq Tradable \intersect MarketsOfItems /\ fresh \in BOOLEAN
    /\ phase = "done" => sent = Targets(result)
    /\ ~fresh /\ rejected = "no" => AssetsOf(sent) \subseteq Carried

\* A list that is not rejected is carried as a whole.
LEMMA AssigningCarries ==
  ASSUME AssignPart, NEW S \in SUBSET Markets, Assign(S)
  PROVE  AssignPart' /\ (rejected' = "no" => AssetsOf(S) \subseteq Carried')
<1> DEFINE end == AssignEach(S)
<1>1. end \in Rounds /\ (~end.failed => AssetsOf(S) \subseteq DOMAIN end.assigned)
  BY EachPlaces DEF AssignPart
<1>2. \/ rejected' = "too_many" /\ UNCHANGED <<assigned, shards>>
      \/ /\ assigned' = end.assigned
         /\ rejected' = IF end.failed THEN "no_capacity" ELSE "no"
         /\ shards' = IF end.failed THEN shards
                      ELSE [k \in Shards |-> OnShard(end.assigned, k)]
  BY DEF Assign
<1> HIDE DEF end
<1>3. CASE rejected' = "too_many" /\ UNCHANGED <<assigned, shards>>
  BY <1>3 DEF AssignPart
<1>4. CASE /\ assigned' = end.assigned
           /\ rejected' = IF end.failed THEN "no_capacity" ELSE "no"
           /\ shards' = IF end.failed THEN shards
                        ELSE [k \in Shards |-> OnShard(end.assigned, k)]
  <2>1. end.assigned \in Placings /\ end.failed \in BOOLEAN
    BY <1>1 DEF Rounds
  <2>2. DOMAIN end.assigned \subseteq Assets /\ end.assigned \in [DOMAIN end.assigned -> Shards]
    BY <2>1, PlacingShape
  <2>3. CASE end.failed
    BY <1>4, <2>1, <2>3 DEF AssignPart
  <2>4. CASE ~end.failed
    <3>1. shards' = [k \in Shards |-> OnShard(end.assigned, k)] /\ rejected' = "no"
      BY <1>4, <2>4
    <3>2. AssignPart'
      <4>1. \A k \in Shards : OnShard(end.assigned, k) \in SUBSET Assets
        BY <2>2 DEF OnShard
      <4> QED BY <1>4, <2>1, <3>1, <4>1 DEF AssignPart
    <3>3. DOMAIN end.assigned \subseteq Carried'
      <4> SUFFICES ASSUME NEW x \in DOMAIN end.assigned
                   PROVE  x \in UNION {shards'[k] : k \in Shards}
        BY DEF Carried
      <4>1. end.assigned[x] \in Shards
        BY <2>2
      <4>2. x \in shards'[end.assigned[x]]
        BY <3>1, <4>1 DEF OnShard
      <4> QED BY <4>1, <4>2
    <3> QED BY <1>1, <2>4, <3>2, <3>3
  <2> QED BY <2>1, <2>3, <2>4
<1> QED BY <1>2, <1>3, <1>4

\* Nothing is sent to begin with.
LEMMA InitSubInv == SubscriptionsInit => SubInv
<1> SUFFICES ASSUME SubscriptionsInit PROVE SubInv
  OBVIOUS
<1>1. Init /\ AssignInit /\ sent = {} /\ fresh = FALSE
  BY DEF SubscriptionsInit
<1>2. DiscoveryInv
  BY <1>1, InitMisses
<1>3. AssignPart
  <2>1. DOMAIN assigned = {} /\ assigned \in [DOMAIN assigned -> Shards]
    BY <1>1 DEF AssignInit
  <2>2. assigned \in Placings
    BY <2>1, PlacingShape
  <2> QED BY <1>1, <2>2 DEF AssignInit, AssignPart
<1>4. phase # "done"
  BY <1>1 DEF Init
<1>5. AssetsOf(sent) = {}
  BY <1>1 DEF AssetsOf
<1> QED BY <1>1, <1>2, <1>3, <1>4, <1>5 DEF SubInv

\* Every step keeps the invariant.
LEMMA NextSubInv == SubInv /\ [Next]_vars => SubInv'
<1> SUFFICES ASSUME SubInv, [Next]_vars PROVE SubInv'
  OBVIOUS
<1>1. /\ DiscoveryInv /\ AssignPart
      /\ sent \subseteq Tradable \intersect MarketsOfItems /\ fresh \in BOOLEAN
      /\ phase = "done" => sent = Targets(result)
      /\ ~fresh /\ rejected = "no" => AssetsOf(sent) \subseteq Carried
  BY DEF SubInv
<1>2. ASSUME UNCHANGED assignVars PROVE AssignPart' /\ Carried' = Carried /\ rejected' = rejected
  BY <1>1, <1>2 DEF assignVars, AssignPart, Carried
<1>3. CASE Listing
  <2>1. ListingChanges /\ UNCHANGED <<assignVars, sent, fresh>>
    BY <1>3 DEF Listing
  <2>2. PICK c \in Items : ItemOpens(c) \/ ItemCloses(c)
    BY <2>1 DEF ListingChanges
  <2>3. DiscoveryInv'
    BY <1>1, <2>2, OpeningMisses, ClosingMisses
  <2>4. phase' = phase /\ result' = result
    BY <2>2 DEF ItemOpens, ItemCloses
  <2> QED BY <1>1, <1>2, <2>1, <2>3, <2>4 DEF SubInv, Targets
<1>4. CASE BeginCycle
  <2>1. Start /\ UNCHANGED <<assignVars, sent, fresh>>
    BY <1>4 DEF BeginCycle
  <2>2. DiscoveryInv' /\ phase' = "paging"
    BY <1>1, <2>1, StartMisses DEF Start
  <2> QED BY <1>1, <1>2, <2>1, <2>2 DEF SubInv
<1>5. CASE Page
  <2>1. /\ Request /\ UNCHANGED assignVars
        /\ IF phase' = "done" THEN sent' = Targets(result') /\ fresh' = TRUE
                              ELSE UNCHANGED <<sent, fresh>>
    BY <1>5 DEF Page
  <2>2. DiscoveryInv'
    BY <1>1, <2>1, FetchMisses, FaultsMiss DEF Request
  <2>3. CASE phase' = "done"
    <3>1. sent' = Targets(result') /\ fresh' = TRUE
      BY <2>1, <2>3
    <3>2. result' \subseteq MarketsOfItems \intersect Eligible
      BY <2>2 DEF DiscoveryInv, DiscoveryTypeOK, MarketsOfItems, MarketsIn
    <3>3. sent' \subseteq Tradable \intersect MarketsOfItems
      BY <3>1, <3>2 DEF Targets
    <3> QED BY <1>2, <2>1, <2>2, <2>3, <3>1, <3>3 DEF SubInv, Targets, MarketsOfItems, MarketsIn
  <2>4. CASE phase' # "done"
    BY <1>1, <1>2, <2>1, <2>2, <2>4 DEF SubInv
  <2> QED BY <2>3, <2>4
<1>6. CASE AssignSent
  <2>1. /\ fresh' = FALSE /\ Assign(sent) /\ UNCHANGED <<discoveryVars, sent>>
    BY <1>6 DEF AssignSent
  <2>2. UNCHANGED <<listed, unlisted, phase, page, found, result, ended, throughout,
                    closings, faults>>
    BY <2>1 DEF discoveryVars, listingVars, bookkeeping
  <2>3. DiscoveryInv'
    BY <1>1, <2>2 DEF DiscoveryInv, DiscoveryTypeOK, Closed, Missed, Unread, Got, Offset,
                      NextOffset
  <2>4. AssignPart' /\ (rejected' = "no" => AssetsOf(sent) \subseteq Carried')
    <3>1. sent \in SUBSET Markets
      BY <1>1, TradableAssumption
    <3> QED BY <1>1, <2>1, <3>1, AssigningCarries
  <2> QED BY <1>1, <2>1, <2>2, <2>3, <2>4 DEF SubInv, Targets
<1>7. CASE UNCHANGED vars
  <2>1. /\ UNCHANGED <<listed, unlisted, phase, page, found, result, ended, throughout,
                       closings, faults>>
        /\ UNCHANGED assignVars /\ UNCHANGED <<sent, fresh>>
    BY <1>7 DEF vars, discoveryVars, listingVars, bookkeeping
  <2>2. DiscoveryInv'
    BY <1>1, <2>1 DEF DiscoveryInv, DiscoveryTypeOK, Closed, Missed, Unread, Got, Offset,
                      NextOffset
  <2> QED BY <1>1, <1>2, <2>1, <2>2 DEF SubInv, Targets
<1> QED BY <1>3, <1>4, <1>5, <1>6, <1>7 DEF Next

\* The invariant holds in every reachable state.
THEOREM SubInvHolds == Spec => []SubInv
<1> QED BY InitSubInv, NextSubInv, PTL DEF Spec

-----------------------------------------------------------------------------
(* The theorems.                                                           *)

\* Every variable has its type (StrategyService::iteration, GammaClient::discover
\* and spawn_sharded_market_feed; service.rs, gamma.rs and clob.rs).
THEOREM TypeCorrect == Spec => []TypeOK
<1>1. SubInv => TypeOK
  <2> SUFFICES ASSUME SubInv PROVE TypeOK
    OBVIOUS
  <2>1. DOMAIN assigned \subseteq Assets /\ assigned \in [DOMAIN assigned -> Shards]
    BY PlacingShape DEF SubInv, AssignPart
  <2>2. Range(assigned) \subseteq Shards
    BY <2>1 DEF Range
  <2>3. AssignTypeOK
    BY <2>1, <2>2 DEF AssignTypeOK, SubInv, AssignPart
  <2>4. DiscoveryTypeOK
    BY DEF SubInv, DiscoveryInv
  <2> QED BY <2>3, <2>4 DEF TypeOK, SubInv
<1> QED BY <1>1, SubInvHolds, PTL

\* A discovery that ends on a short page, and whose list is not rejected, leaves no
\* more of the items listed throughout without a connection than closed meanwhile
\* (gamma.rs, service.rs, clob.rs).
THEOREM OutagesHold == Spec => []OutagesBoundedByClosings
<1>1. SubInv => OutagesBoundedByClosings
  <2> SUFFICES ASSUME SubInv, ended = "short_page", phase = "done", ~fresh, rejected = "no"
               PROVE  Cardinality({i \in throughout : ~Served(i)}) <= closings
    BY DEF OutagesBoundedByClosings
  <2> DEFINE A == Unread(result)
             B == {i \in throughout : ~Served(i)}
  <2>1. sent = result \intersect Tradable /\ AssetsOf(sent) \subseteq Carried
    BY DEF SubInv, Targets
  <2>2. ASSUME NEW i \in throughout, Got(i, result) PROVE Served(i)
    <3>1. Range(MarketsOf[i]) \intersect Tradable \subseteq sent
      BY <2>1, <2>2, TradableAssumption DEF Got
    <3> QED BY <2>1, <3>1 DEF Served, AssetsOf
  <2>3. A \in SUBSET throughout /\ B \in SUBSET A
    BY <2>2 DEF Unread
  <2>4. DiscoveryTypeOK /\ closings \in Nat /\ Cardinality(A) <= closings
    <3>1. Cardinality(Items) \in Nat
      BY ItemsAreFinite
    <3> QED BY <3>1 DEF SubInv, DiscoveryInv, DiscoveryTypeOK
  <2> HIDE DEF A, B
  <2>5. Cardinality(B) <= Cardinality(A) /\ Cardinality(A) \in Nat /\ Cardinality(B) \in Nat
    BY <2>3, <2>4, FewerUnread
  <2> QED BY <2>4, <2>5 DEF B
<1> QED BY <1>1, SubInvHolds, PTL

\* The lists that discoveries send are lists of markets, so what holds of the
\* assignments for any lists holds for them.
LEMMA SentListsAssign == Spec => []AssignInv
<1>1. SubscriptionsInit => AssignInv
  BY InitAssignInv DEF SubscriptionsInit
<1>2. SubInv /\ AssignInv /\ [Next]_vars => AssignInv'
  <2> SUFFICES ASSUME SubInv, AssignInv, [Next]_vars PROVE AssignInv'
    OBVIOUS
  <2>1. CASE AssignSent
    <3>1. sent \in SUBSET Markets
      BY TradableAssumption DEF SubInv
    <3> QED BY <2>1, <3>1, AssignKeeps DEF AssignSent
  <2>2. CASE Listing \/ BeginCycle \/ Page \/ UNCHANGED vars
    <3>1. UNCHANGED <<assigned, shards, rejected>>
      BY <2>2 DEF Listing, BeginCycle, Page, vars, assignVars
    <3> QED BY <3>1 DEF AssignInv
  <2> QED BY <2>1, <2>2 DEF Next
<1> QED BY <1>1, <1>2, SubInvHolds, PTL DEF Spec

\* Over any history of discoveries no connection is sent more than
\* max_assets_per_connection assets, no two share one, and pairs stay together (clob.rs).
THEOREM SentListsKeepLimits == Spec => []WithinCapacity /\ []PairsTogether
<1>1. AssignInv => WithinCapacity /\ PairsTogether
  BY AssignmentsHold
<1> QED BY <1>1, SentListsAssign, PTL

\* No list of a discovery is rejected for want of a place when it fits empty connections,
\* whatever the lists before it left behind (clob.rs).
THEOREM SentListsArePlaced == Spec => []PlacedIfTheyFit
<1>1. SubscriptionsInit => PlacedIfTheyFit
  BY DEF SubscriptionsInit, AssignInit, PlacedIfTheyFit
<1>2. SubInv /\ AssignInv /\ PlacedIfTheyFit /\ [Next]_vars => PlacedIfTheyFit'
  <2> SUFFICES ASSUME SubInv, AssignInv, PlacedIfTheyFit, [Next]_vars PROVE PlacedIfTheyFit'
    OBVIOUS
  <2>1. CASE AssignSent
    <3>1. sent \in SUBSET Markets
      BY TradableAssumption DEF SubInv
    <3>2. rejected' = "no_capacity" => ~Fits(sent)
      BY <2>1, <3>1, AssignKeeps DEF AssignSent
    <3> QED BY <2>1, <3>2 DEF AssignSent, PlacedIfTheyFit, Fits
  <2>2. CASE Page
    BY <2>2 DEF Page, assignVars, PlacedIfTheyFit, Fits
  <2>3. CASE Listing \/ BeginCycle \/ UNCHANGED vars
    BY <2>3 DEF Listing, BeginCycle, vars, assignVars, PlacedIfTheyFit, Fits
  <2> QED BY <2>1, <2>2, <2>3 DEF Next
<1> QED BY <1>1, <1>2, SubInvHolds, SentListsAssign, PTL DEF Spec
================================================================================
