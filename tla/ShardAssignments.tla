-------------------------- MODULE ShardAssignments --------------------------
(***************************************************************************)
(* The assignment of subscribed assets to WebSocket connections            *)
(* (ShardAssignments and the task of spawn_sharded_market_feed, clob.rs):  *)
(* the service hands over lists of markets, one after another, and every   *)
(* list is placed incrementally on what the lists before it left behind.   *)
(***************************************************************************)
EXTENDS Integers, Sequences, FiniteSets, Functions, SequencesExt, FiniteSetsExt

CONSTANTS
    Markets,           \* in the order of their ids, as numbers
    Outcomes,          \* assets of a market; 2 in the code
    MaxPerShard,       \* clob.max_assets_per_connection
    MaxTotal           \* clob.max_total_assets

ASSUME ShardAssumption ==
    /\ Markets \subseteq Nat /\ IsFiniteSet(Markets)
    /\ Outcomes \in Nat \ {0}
    /\ MaxPerShard \in Nat \ {0} /\ MaxTotal \in Nat /\ MaxTotal >= MaxPerShard

VARIABLES
    assigned,          \* assigned_shard: the shard of each known asset
    shards,            \* the last assets sent to each shard
    rejected           \* why the last list was rejected, or "no"

assignVars == <<assigned, shards, rejected>>

ShardCount == (MaxTotal + MaxPerShard - 1) \div MaxPerShard
Shards == 1 .. ShardCount
Pair(m) == [i \in 1 .. Outcomes |-> <<m, i>>]
AssetsOf(S) == UNION {Range(Pair(m)) : m \in S}
Assets == AssetsOf(Markets)

\* What the connections have room for, when none of them carries half a pair.
Fits(S) == Cardinality(S) <= ShardCount * (MaxPerShard \div Outcomes)

OnShard(a, k) == {asset \in DOMAIN a : a[asset] = k}

\* Seeded fault: a shard has room as long as it is not over its limit.
RoomUntilOver(a, pair) == {k \in Shards : Cardinality(OnShard(a, k)) <= MaxPerShard}

Room(a, pair) ==
    {k \in Shards : Cardinality(OnShard(a, k)) + Len(pair) <= MaxPerShard}

\* The shard of the first asset of the pair that has one.
Preferred(a, pair) ==
    LET known == {i \in DOMAIN pair : pair[i] \in DOMAIN a}
    IN IF known = {} THEN {} ELSE {a[pair[Min(known)]]}

\* Seeded fault: each asset of the pair goes to the least loaded shard.
PlaceEach(a, pair, k) ==
    LET Load(b, j) == Cardinality(OnShard(b, j))
        Least(b) == CHOOSE j \in Shards : \A i \in Shards : Load(b, j) <= Load(b, i)
    IN FoldLeft(LAMBDA b, asset :
                    IF asset \in DOMAIN b THEN b ELSE (asset :> Least(b)) @@ b,
                a, pair)

\* Seeded fault: the shard is kept as an index from 0.
PlaceFromZero(a, pair, k) ==
    [asset \in DOMAIN a \union Range(pair) |-> IF asset \in DOMAIN a THEN a[asset] ELSE k - 1]

Place(a, pair, k) ==
    [asset \in DOMAIN a \union Range(pair) |-> IF asset \in DOMAIN a THEN a[asset] ELSE k]

\* One turn of the loop over the pairs; after a failure the loop is left.
AssignPair(acc, pair) ==
    LET a == acc.assigned
        room == Room(a, pair)
        choice == Preferred(a, pair) \intersect room
    IN IF acc.failed \/ Range(pair) \subseteq DOMAIN a THEN acc
       ELSE IF room = {} THEN [acc EXCEPT !.failed = TRUE]
       ELSE [acc EXCEPT !.assigned =
               Place(a, pair, IF choice # {} THEN Min(choice) ELSE Min(room))]

\* Seeded fault: assets keep their shard when they are no target any more.
KeptAll(S) == assigned

\* The retain at the start: assets that are no target any more lose their shard.
Kept(S) == Restrict(assigned, DOMAIN assigned \intersect AssetsOf(S))

InOrder(S) == [i \in 1 .. Cardinality(S) |->
                  CHOOSE m \in S : Cardinality({n \in S : n < m}) = i - 1]

\* The loop over the pairs of the markets S, on what is kept of the lists before.
AssignEach(S) ==
    FoldLeft(LAMBDA acc, m : AssignPair(acc, Pair(m)),
             [assigned |-> Kept(S), failed |-> FALSE], InOrder(S))

\* ShardAssignments::assign on the markets S, and the sends to the shards.  The
\* assets placed before a failure stay placed although no shard is told.
Assign(S) ==
    LET end == AssignEach(S)
    IN IF Outcomes * Cardinality(S) > MaxTotal
       THEN rejected' = "too_many" /\ UNCHANGED <<assigned, shards>>
       ELSE /\ assigned' = end.assigned
            /\ rejected' = IF end.failed THEN "no_capacity" ELSE "no"
            /\ shards' = IF end.failed THEN shards
                         ELSE [k \in Shards |-> OnShard(end.assigned, k)]

AssignInit ==
    /\ assigned = [x \in {} |-> 0]
    /\ shards = [k \in Shards |-> {}]
    /\ rejected = "no"

-----------------------------------------------------------------------------
(* Properties.                                                             *)

\* Every variable has its type.
AssignTypeOK ==
    /\ DOMAIN assigned \in SUBSET Assets /\ Range(assigned) \subseteq Shards
    /\ shards \in [Shards -> SUBSET Assets]
    /\ rejected \in {"no", "too_many", "no_capacity"}

\* No connection is ever asked to carry more than max_assets_per_connection
\* assets, whatever was retained of earlier lists, and none carries another's.
WithinCapacity ==
    \A k \in Shards :
        /\ Cardinality(shards[k]) <= MaxPerShard
        /\ \A j \in Shards \ {k} : shards[j] \intersect shards[k] = {}

\* The two books of a market come over one connection (the test of clob.rs,
\* "shard_assignments_keep_outcome_pairs_together", after every history).
PairsTogether ==
    \A m \in Markets, k \in Shards :
        Range(Pair(m)) \intersect shards[k] # {} => Range(Pair(m)) \subseteq shards[k]
=============================================================================
