---------------------------- MODULE StoreSummaries ----------------------------
(***************************************************************************)
(* store-calibration-summary and store-replay-summary (store_calibration.rs*)
(* and store_replay.rs): a process of its own reads the table of decisions *)
(* in batches while the service appends to it, asks the Store for the book *)
(* snapshots a batch needs, and matches every decision with the snapshots  *)
(* that precede it.  The Store goes on sampling meanwhile.                 *)
(*                                                                         *)
(* A decision is [at, market]; market 0 stands for a row from before the   *)
(* columns condition_id and token_id_* were filled in.  A snapshot is      *)
(* [token, at, quote], a token <<market, leg>>, and the Store samples a    *)
(* token once in an instant at most.  A quote has the age of the book when *)
(* it was sampled, whether to_book accepts it for its market, and what it  *)
(* offers, of which Best makes the result of select_best (Pricing).        *)
(* Spreads go the way of the ages and are left out.                        *)
(***************************************************************************)
EXTENDS ReplayReport

CONSTANTS
    Markets,           \* numbers above 0
    Quotes,            \* [age, usable, offer] that occur
    Best(_, _, _),     \* candidate and quotes -> {} or {[direction, profit]}
    MaxAge,            \* store.snapshot_max_age_ms
    MaxSkew,           \* quality.max_token_skew_ms
    BatchSize,         \* DECISION_BATCH_SIZE, BATCH_SIZE
    Worlds,            \* tables and stores a summary may find, with what may change
    MaxTime            \* bound: the clock

ASSUME SummaryAssumption ==
    /\ Markets \subseteq Nat \ {0}
    /\ MaxAge \in Nat /\ MaxSkew \in Nat /\ MaxTime \in Nat
    /\ BatchSize \in Nat \ {0}

VARIABLES
    now,
    table,             \* the decisions, in the order of their ids
    store,             \* the snapshots, in the order they were sampled
    \* the summary
    command,           \* "none", "calibration" or "replay"
    status,            \* "idle", "reading", "done" or "failed"
    afterId, throughId,
    acc,               \* what it has gathered
    report,            \* what it prints
    \* bookkeeping of the model
    changes,           \* bound: steps the rest of the world may still take
    late               \* a snapshot was taken while the summary read, in an instant
                       \* it had decisions of

worldVars == <<now, table, store, changes>>
scanVars == <<command, afterId, throughId>>
vars == <<worldVars, scanVars, status, acc, report, late>>

Times == 0 .. MaxTime
Decisions == [at : Times, market : Markets \union {0}]
Tokens == Markets \X {1, 2}
Snapshots == [token : Tokens, at : Times, quote : Quotes]

\* The table and the store of a world hold what they may hold, the Store samples a
\* token once in an instant, and what select_best finds has a direction and a profit.
ASSUME WorldsAssumption ==
    \A w \in Worlds :
        /\ w.table \in Seq(Decisions) /\ w.store \in Seq(Snapshots)
        /\ w.now \in Times /\ w.changes \in Nat
        /\ \A r, s \in Range(w.store) : r.token = s.token /\ r.at = s.at => r = s

ASSUME BestAssumption ==
    \A c \in 1 .. Candidates, a, b \in Quotes :
        Best(c, a, b) \subseteq [direction : Directions, profit : Int]

TokensOf(row) == IF row.market = 0 THEN {} ELSE {row.market} \X {1, 2}

-----------------------------------------------------------------------------
(* The Store's answer to StreamBookSnapshotsRange.                         *)

Streamed(tokens, from, to) ==
    {s \in Range(store) : s.token \in tokens /\ from <= s.at /\ s.at <= to}

\* Seeded fault: the range begins with the batch's first decision.
FromFirst(rows) == Min({row.at : row \in Range(rows)})

From(rows) == Min({row.at : row \in Range(rows)}) - MaxAge
To(rows) == Max({row.at : row \in Range(rows)})

\* preceding and preceding_snapshot, as a set that is empty for None.
Preceding(snapshots, token, t) ==
    LET near == {s \in snapshots : s.token = token /\ s.at <= t /\ t - s.at <= MaxAge}
    IN {s \in near : \A r \in near : r.at <= s.at}

-----------------------------------------------------------------------------
(* The two accumulators.                                                   *)

Nothing == [decisions |-> 0, legacy |-> 0, eligible |-> 0, both |-> 0, one |-> 0, none |-> 0,
            ages |-> <<>>, seen |-> {}, observations |-> <<>>]

\* The age of a leg's snapshot, as a set that is empty if there is none.
LegAge(row, leg, snapshots) ==
    {row.at - s.at : s \in Preceding(snapshots, <<row.market, leg>>, row.at)}

\* Accumulator::observe.
Observe(a, row, snapshots) ==
    LET ages == [leg \in {1, 2} |-> LegAge(row, leg, snapshots)]
        covered == Cardinality({leg \in {1, 2} : ages[leg] # {}})
        counted == [a EXCEPT !.decisions = @ + 1]
    IN IF row.market = 0 THEN [counted EXCEPT !.legacy = @ + 1]
       ELSE [counted EXCEPT !.eligible = @ + 1,
                            !.both = IF covered = 2 THEN @ + 1 ELSE @,
                            !.one = IF covered = 1 THEN @ + 1 ELSE @,
                            !.none = IF covered = 0 THEN @ + 1 ELSE @,
                            !.ages = @ \o SetToSeq(ages[1]) \o SetToSeq(ages[2])]

\* Seeded fault: the sample of the second leg is no part of the key.
SampleKeyOfOneLeg(row, a, b) == <<row.market, a.at>>

SampleKey(row, a, b) == <<row.market, a.at, b.at>>

\* to_book for both legs, the market ids, and the skew of the books' time stamps.
Usable(a, b) ==
    /\ a.quote.usable /\ b.quote.usable
    /\ (a.at - a.quote.age) - (b.at - b.quote.age) \in -MaxSkew .. MaxSkew

\* The loop body of summarize_config (store_replay.rs).
Sampled(a, row, snapshots) ==
    LET legs == [leg \in {1, 2} |-> Preceding(snapshots, <<row.market, leg>>, row.at)]
        counted == [a EXCEPT !.eligible = @ + 1]
    IN IF row.market = 0 THEN a
       ELSE IF legs[1] = {} \/ legs[2] = {} THEN counted
       ELSE LET x == CHOOSE s \in legs[1] : TRUE
                y == CHOOSE s \in legs[2] : TRUE
                key == SampleKey(row, x, y)
                fresh == key \notin a.seen
            IN [counted EXCEPT
                 !.both = @ + 1,
                 !.seen = @ \union {key},
                 !.observations =
                    IF fresh /\ Usable(x, y)
                    THEN Append(@, [market |-> row.market, at |-> row.at, a |-> x, b |-> y])
                    ELSE @]

Gathered(rows, snapshots) ==
    FoldLeft(LAMBDA a, row : IF command = "calibration" THEN Observe(a, row, snapshots)
                                                        ELSE Sampled(a, row, snapshots),
             acc, rows)

-----------------------------------------------------------------------------
(* What is printed.                                                        *)

\* The upper of the middle two.
Median(values) ==
    IF values = <<>> THEN {} ELSE {values[Order(values, <)[Len(values) \div 2 + 1]]}

CoverageBps == IF acc.eligible = 0 THEN 0 ELSE (acc.both * 10000) \div acc.eligible

\* The observations a candidate hits, by their numbers.
Hits(candidate, observations) ==
    LET Found(i) == Best(candidate, observations[i].a.quote, observations[i].b.quote)
    IN [i \in {j \in DOMAIN observations : Found(j) # {}} |->
          LET best == CHOOSE o \in Found(i) : TRUE
          IN [market |-> observations[i].market, at |-> observations[i].at,
              direction |-> best.direction, profit |-> best.profit]]

ByTime(observations) ==
    LET order == Order(observations, LAMBDA o, p : o.at < p.at)
    IN [n \in DOMAIN order |-> observations[order[n]]]

Replayed ==
    LET observations == ByTime(acc.observations)
    IN IF CoverageBps < MinCoverage \/ observations = <<>> THEN NoCandidate
       ELSE SelectCandidate([c \in 1 .. Candidates |-> Hits(c, observations)],
                            Head(observations).at, Last(observations).at)

NoReport == [printed |-> FALSE]

-----------------------------------------------------------------------------
Init ==
    /\ \E w \in Worlds : table = w.table /\ store = w.store /\ now = w.now /\ changes = w.changes
    /\ command = "none" /\ status = "idle" /\ afterId = 0 /\ throughId = 0
    /\ acc = Nothing /\ report = NoReport /\ late = FALSE

Change == changes > 0 /\ changes' = changes - 1

Tick ==
    /\ Change /\ now < MaxTime
    /\ now' = now + 1
    /\ UNCHANGED <<table, store, scanVars, status, acc, report, late>>

\* The service appends a decision of its cycle, which began at an earlier time.
AppendDecision ==
    /\ Change
    /\ \E m \in Markets, at \in {now - 1, now} \intersect Times :
         table' = Append(table, [at |-> at, market |-> m])
    /\ UNCHANGED <<now, store, scanVars, status, acc, report, late>>

\* The Store samples a book.
Sample ==
    /\ Change
    /\ \E token \in Tokens, quote \in Quotes :
         /\ \A s \in Range(store) : s.token = token => s.at < now
         /\ store' = Append(store, [token |-> token, at |-> now, quote |-> quote])
    /\ late' = (late \/ /\ status # "idle"
                        /\ \E i \in 1 .. throughId : table[i].at >= now)
    /\ UNCHANGED <<now, table, scanVars, status, acc, report>>

\* latest_calibration_id.
Start ==
    /\ status = "idle"
    /\ command' \in {"calibration", "replay"}
    /\ status' = "reading"
    /\ throughId' = Len(table)
    /\ UNCHANGED <<worldVars, afterId, acc, report, late>>

\* calibration_batch: the rows with after < id <= through, BatchSize at most.
Batch(after, through) == SubSeq(table, after + 1, Min({after + BatchSize, through}))

\* A batch and, if it names any token, the snapshots of its tokens and times.
ReadBatch ==
    LET rows == Batch(afterId, throughId)
        tokens == UNION {TokensOf(row) : row \in Range(rows)}
    IN /\ status = "reading" /\ afterId < throughId
       /\ afterId' = Min({afterId + BatchSize, throughId})
       /\ acc' = Gathered(rows, IF tokens = {} THEN {}
                                ELSE Streamed(tokens, From(rows), To(rows)))
       /\ UNCHANGED <<worldVars, command, throughId, status, report, late>>

\* The table or the Store fails, and the command prints nothing.
Fail ==
    /\ status \in {"idle", "reading"}
    /\ status' = "failed" /\ acc' = Nothing
    /\ UNCHANGED <<worldVars, scanVars, report, late>>

Finish ==
    /\ status = "reading" /\ afterId >= throughId
    /\ status' = "done"
    /\ report' = IF command = "calibration"
                 THEN [printed |-> TRUE, median |-> Median(acc.ages)]
                 ELSE [printed |-> TRUE, coverage |-> CoverageBps, selected |-> Replayed]
    /\ UNCHANGED <<worldVars, scanVars, acc, late>>

Next == Tick \/ AppendDecision \/ Sample \/ Start \/ ReadBatch \/ Fail \/ Finish

Spec == Init /\ [][Next]_vars

-----------------------------------------------------------------------------
(* Properties.                                                             *)

\* Every variable has its type, and every observation falls into one of the five
\* parts of the time they span.
TypeOK ==
    /\ now \in Times /\ changes \in Nat /\ late \in BOOLEAN
    /\ table \in Seq(Decisions) /\ store \in Seq(Snapshots)
    /\ command \in {"none", "calibration", "replay"}
    /\ status \in {"idle", "reading", "done", "failed"}
    /\ throughId \in 0 .. Len(table) /\ afterId \in 0 .. throughId
    /\ Range(acc.ages) \subseteq 0 .. MaxAge
    /\ acc.both <= acc.eligible
    /\ report.printed <=> status = "done"
    /\ LET times == {o.at : o \in Range(acc.observations)}
       IN \A t \in times : Split(Min(times), Max(times), t) \in 0 .. 4

Done(c) == status = "done" /\ command = c

\* The decisions there were when the summary began.
Read == 1 .. throughId
Eligible == {i \in Read : table[i].market # 0}

\* The age of the newest snapshot the whole Store has for a leg of decision i, as a
\* set that is empty if there is none within MaxAge.
AgeOf(i, leg) ==
    LET ages == {table[i].at - s.at : s \in {r \in Range(store) :
                                                r.token = <<table[i].market, leg>>}}
        allowed == ages \intersect (0 .. MaxAge)
    IN IF allowed = {} THEN {} ELSE {Min(allowed)}

CoveredLegs(i) == {leg \in {1, 2} : AgeOf(i, leg) # {}}
Covering(n) == Cardinality({i \in Eligible : Cardinality(CoveredLegs(i)) = n})

\* What store-calibration-summary prints is what the whole Store has for the decisions
\* there were when it began: neither the batches with the range of snapshots asked for
\* each (store_calibration.rs), nor decisions appended, nor snapshots taken meanwhile
\* show in it.
CalibrationIsExact ==
    Done("calibration") /\ ~late =>
        LET legs == {x \in Eligible \X {1, 2} : x[2] \in CoveredLegs(x[1])}
            Age(x) == CHOOSE n \in AgeOf(x[1], x[2]) : TRUE
        IN /\ acc.decisions = throughId
           /\ acc.eligible = Cardinality(Eligible)
           /\ acc.legacy = throughId - Cardinality(Eligible)
           /\ <<acc.both, acc.one, acc.none>> = <<Covering(2), Covering(1), Covering(0)>>
           /\ report.median = {} <=> legs = {}
           /\ \A n \in report.median :
                /\ 2 * Cardinality({x \in legs : Age(x) < n}) <= Cardinality(legs)
                /\ 2 * Cardinality({x \in legs : Age(x) > n}) < Cardinality(legs)

\* The pair of samples decision i saw: its market and the times of the snapshots.
SeenAt(i, leg) == table[i].at - (CHOOSE n \in AgeOf(i, leg) : TRUE)
SeenBy(i) == <<table[i].market, SeenAt(i, 1), SeenAt(i, 2)>>

UsableFor(i) ==
    LET Leg(leg) == CHOOSE s \in Range(store) : /\ s.token = <<table[i].market, leg>>
                                               /\ s.at = SeenAt(i, leg)
    IN Usable(Leg(1), Leg(2))

\* What store-replay-summary replays is every usable pair of samples that a decision
\* saw, once, at the first decision that saw it, in the order of time: to mark a pair
\* as seen before it is looked at (store_replay.rs) costs nothing, in whatever batch
\* it comes back.
ReplayIsExact ==
    Done("replay") /\ ~late =>
        LET covered == {i \in Eligible : Cardinality(CoveredLegs(i)) = 2}
            first == {i \in covered : /\ UsableFor(i)
                                       /\ \A j \in covered : SeenBy(j) = SeenBy(i) => i <= j}
            replayed == acc.observations
        IN /\ acc.eligible = Cardinality(Eligible) /\ acc.both = Cardinality(covered)
           /\ Len(replayed) = Cardinality(first)
           /\ \A i \in first : \E o \in Range(replayed) :
                /\ o.at = table[i].at
                /\ <<o.market, o.a.at, o.b.at>> = SeenBy(i)

\* The hits of a candidate in a part of the time.
ReportedHits(c, part) ==
    LET observations == ByTime(acc.observations)
    IN HitsIn(Hits(c, observations), part, Head(observations).at, Last(observations).at)

\* Two hits of an episode: of one market and direction, and wherever time is cut
\* between them there are hits close to each other on both sides of the cut.
SameEpisode(hits, i, j) ==
    /\ hits[i].market = hits[j].market /\ hits[i].direction = hits[j].direction
    /\ LET own == {x \in Range(hits) : x.market = hits[i].market
                                       /\ x.direction = hits[i].direction}
       IN \A t \in Times :
            Min({hits[i].at, hits[j].at}) <= t /\ t < Max({hits[i].at, hits[j].at}) =>
                \E x, y \in own : x.at <= t /\ t < y.at /\ y.at - x.at <= Gap

\* The episodes of the slices reported are the classes of hits that belong together,
\* those of a single hit left out, each with its least profit (episode_slice).
EpisodesBelongTogether ==
    Done("replay") /\ report.selected # NoCandidate =>
        \A part \in Parts :
            LET hits == ReportedHits(report.selected.candidate, part)
                classes == {{j \in DOMAIN hits : SameEpisode(hits, i, j)} : i \in DOMAIN hits}
                stable == {class \in classes : Cardinality(class) > 1}
            IN report.selected.slices[part] =
                 [episodes |-> Cardinality(stable),
                  markets |-> Cardinality({hits[i].market : i \in UNION stable}),
                  profit |-> MapThenSumSet(LAMBDA class : Min({hits[i].profit : i \in class}),
                                           stable)]

\* The holdout is not touched by the selection (select_candidate): had nothing been
\* hit in the last fifth of the time, the same candidate would have been selected.
HoldoutIsUntouched ==
    Done("replay") /\ CoverageBps >= MinCoverage /\ acc.observations # <<>> =>
        LET observations == ByTime(acc.observations)
            first == Head(observations).at
            last == Last(observations).at
            hits == [c \in 1 .. Candidates |-> Hits(c, observations)]
            Earlier(c) == Restrict(hits[c], {i \in DOMAIN hits[c] :
                                                Split(first, last, hits[c][i].at) < 4})
        IN report.selected.candidate =
             SelectCandidate([c \in 1 .. Candidates |-> Earlier(c)], first, last).candidate
=============================================================================
