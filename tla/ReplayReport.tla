----------------------------- MODULE ReplayReport -----------------------------
(***************************************************************************)
(* The report of store-replay-summary (store_replay.rs): every candidate   *)
(* setting is tried on the same observations, what it would have hit is    *)
(* split by time into training, validation and holdout, close hits are     *)
(* joined into episodes, and one candidate is selected.                    *)
(*                                                                         *)
(* A hit is [market, direction, at, profit], and the hits of a candidate a *)
(* function on the numbers of the observations that are hit.  The grid of  *)
(* candidates is 1 .. Candidates in the order of the nested loops, and     *)
(* markets are numbers, ordered as their ids are.                          *)
(***************************************************************************)
EXTENDS Integers, Sequences, FiniteSets, FiniteSetsExt, SequencesExt

CONSTANTS
    Candidates,                            \* the size of the grid
    Gap,                                   \* the 45 s an episode survives without a hit
    MinCoverage,                           \* the 9500 bps below which nothing is selected
    MinTrain, MinValidation, MinHoldout    \* [episodes, markets] a slice must have

ASSUME ReportAssumption ==
    /\ Candidates \in Nat /\ Gap \in Nat /\ MinCoverage \in Nat
    /\ {MinTrain, MinValidation, MinHoldout} \subseteq [episodes : Nat, markets : Nat]

Directions == {"buy_merge", "split_sell"}
DirectionRank(d) == IF d = "buy_merge" THEN 1 ELSE 2
Parts == {"train", "validation", "holdout"}

\* Seeded fault: the last instant gets a sixth part.
SplitOpenEnded(first, last, t) == ((t - first) * 5) \div Max({last - first, 1})

\* The closure `split`: the fifth of the time from the first to the last observation.
Split(first, last, t) == Min({((t - first) * 5) \div Max({last - first, 1}), 4})

InPart(part, fifth) ==
    CASE part = "train" -> fifth < 3
      [] part = "validation" -> fifth = 3
      [] part = "holdout" -> fifth = 4

\* sort_by, which is stable: the numbers of the elements of s in the order of Less,
\* equal elements in the order they have.
Order(s, Less(_, _)) ==
    LET Precedes(i, j) == Less(s[i], s[j]) \/ (~Less(s[j], s[i]) /\ i < j)
        rank == [i \in DOMAIN s |-> Cardinality({j \in DOMAIN s : Precedes(j, i)})]
    IN [n \in 1 .. Cardinality(DOMAIN s) |-> CHOOSE i \in DOMAIN s : rank[i] = n - 1]

-----------------------------------------------------------------------------
(* episode_slice.                                                          *)

\* The order of the sort by (condition_id, direction, observed_at_ms).
Before(h, k) ==
    \/ h.market < k.market
    \/ h.market = k.market /\ DirectionRank(h.direction) < DirectionRank(k.direction)
    \/ h.market = k.market /\ h.direction = k.direction /\ h.at < k.at

\* Seeded fault: any two hits in a row are joined when they are close.
ContinuesAny(h, k) == k.at - h.at <= Gap

\* The condition of the inner loop for hit k behind hit h.
Continues(h, k) ==
    h.market = k.market /\ h.direction = k.direction /\ k.at - h.at <= Gap

EpisodeSlice(hits) ==
    LET order == Order(hits, Before)
        Nth(n) == hits[order[n]]
        starts == {n \in DOMAIN order : n = 1 \/ ~Continues(Nth(n - 1), Nth(n))}
        EndOf(n) == Min({m \in starts : m > n} \union {Len(order) + 1}) - 1
        stable == {n \in starts : EndOf(n) > n}
    IN [episodes |-> Cardinality(stable),
        markets |-> Cardinality({Nth(n).market : n \in stable}),
        profit |-> MapThenSumSet(LAMBDA n : Min({Nth(m).profit : m \in n .. EndOf(n)}), stable)]

-----------------------------------------------------------------------------
(* select_candidate.                                                       *)

HitsIn(hits, part, first, last) ==
    Restrict(hits, {i \in DOMAIN hits : InPart(part, Split(first, last, hits[i].at))})

SlicesOf(hits, first, last) ==
    [part \in Parts |-> EpisodeSlice(HitsIn(hits, part, first, last))]

Reaches(slice, needed) ==
    slice.episodes >= needed.episodes /\ slice.markets >= needed.markets

HoldoutPass(slices) ==
    Reaches(slices["holdout"], MinHoldout) /\ slices["holdout"].profit > 0

\* Seeded fault: only candidates that pass the holdout are considered.
QualifiesByHoldout(slices) ==
    /\ Reaches(slices["train"], MinTrain)
    /\ Reaches(slices["validation"], MinValidation)
    /\ HoldoutPass(slices)

Qualifies(slices) ==
    /\ Reaches(slices["train"], MinTrain)
    /\ Reaches(slices["validation"], MinValidation)

\* max_by: more validation profit, then more validation episodes, then the later.
AtLeastAsGood(s, t) ==
    \/ s["validation"].profit > t["validation"].profit
    \/ /\ s["validation"].profit = t["validation"].profit
       /\ s["validation"].episodes >= t["validation"].episodes

NoCandidate == [candidate |-> 0]

\* hitsOf[c] are the hits of candidate c, first and last the observations' times.
SelectCandidate(hitsOf, first, last) ==
    LET slices == [c \in 1 .. Candidates |-> SlicesOf(hitsOf[c], first, last)]
        qualified == {c \in 1 .. Candidates : Qualifies(slices[c])}
        best == {c \in qualified : \A d \in qualified : AtLeastAsGood(slices[c], slices[d])}
    IN IF qualified = {} THEN NoCandidate
       ELSE LET c == Max(best)
            IN [candidate |-> c, slices |-> slices[c], pass |-> HoldoutPass(slices[c])]
=============================================================================
