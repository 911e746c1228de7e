--------------------------- MODULE CalibrationGate ---------------------------
(***************************************************************************)
(* The calibration gates (GateState, gate.rs) and the opportunity episodes *)
(* that feed them (EpisodeTracker, service.rs), driven by the evaluation   *)
(* cycle, with the state file they are saved to, the JSONL log of samples, *)
(* and crashes and restarts of the process.                                *)
(*                                                                         *)
(* One action is the evaluation of one market: the awaits inside it read   *)
(* no gate and no episode, and nothing but the cycle writes them.  What    *)
(* the books show is an input; what happens after an open gate (risk,      *)
(* circuits, submission: SignalCycle) is an input too, because an error    *)
(* there comes back and relocks gates.                                     *)
(***************************************************************************)
EXTENDS Integers, Sequences, FiniteSets, Functions, SequencesExt

CONSTANTS
    Markets, Directions,
    EndTime,           \* [Markets -> when the market ends]
    Edges,             \* upper ends of the duration buckets, a sequence
    MinAge,            \* calibration.minimum_age_hours
    MinCycles,         \* calibration.minimum_cycles
    Profits,           \* net profits of final opportunities; all are positive
    WritesFail,        \* a write to the JSONL log or to the decision store may fail
    MaxCrashes,        \* bound: restarts of the process in a behaviour
    MaxTime,           \* bound: the clock
    MaxEpisodes        \* bound: episodes of one process, one fewer per restart

ASSUME GateAssumption ==
    /\ MinAge \in Nat /\ MinCycles \in Nat \ {0}
    /\ MaxTime \in Nat \ {0} /\ MaxCrashes \in Nat /\ MaxEpisodes \in Nat
    /\ Profits \subseteq Nat \ {0}
    /\ Edges \in Seq(Nat \ {0})
    /\ WritesFail \in BOOLEAN

VARIABLES
    now,               \* the real clock; starts above 0, as the time of day does
    pc, cycleNow, todo,    \* the cycle: where it is, now_ms, markets to evaluate
    active,            \* EpisodeTracker.active: the open episode of each pair
    sequence,          \* EpisodeTracker.sequence
    gates,             \* GateState: samples, seen episodes and statuses by key
    disk,              \* the state file
    logged,            \* the samples in the JSONL log
    crashes            \* bound: restarts after a crash so far

vars == <<now, pc, cycleNow, todo, active, sequence, gates, disk, logged, crashes>>

Times == 1 .. MaxTime
Pairs == Markets \X Directions
Episodes == [market : Markets, direction : Directions, number : 1 .. MaxEpisodes]
Keys == [direction : Directions, bucket : DOMAIN Edges]
Samples == [episode : Episodes, at : Times, valid : BOOLEAN, orphan : BOOLEAN,
            profit : Profits]

\* DurationBucket::from_remaining_ms, as a set that is empty for None.
Buckets(remaining) ==
    {b \in DOMAIN Edges :
        /\ IF b = 1 THEN remaining > 0 ELSE remaining >= Edges[b - 1]
        /\ IF b = Len(Edges) THEN remaining <= Edges[b] ELSE remaining < Edges[b]}

KeysOf(m) == {[direction |-> d, bucket |-> b] : d \in Directions,
                                                b \in Buckets(EndTime[m] - cycleNow)}

-----------------------------------------------------------------------------
(* GateState.                                                              *)

NoStatus == [unlocked |-> FALSE, first |-> 0, cycles |-> 0, reason |-> "absent"]
DefaultStatus == [NoStatus EXCEPT !.reason = "none"]
Reasons == {"absent", "none", "invalid_data", "unresolved_orphan",
            "non_positive_aggregate_profit", "daily_loss_limit"}
Statuses == [unlocked : BOOLEAN, first : Times \union {0}, cycles : Nat, reason : Reasons]

EmptyGates == [samples |-> [k \in Keys |-> <<>>], seen |-> [k \in Keys |-> {}],
               status |-> [k \in Keys |-> NoStatus]]

\* statuses.entry(key).or_default()
StatusOf(g, k) == IF g.status[k] = NoStatus THEN DefaultStatus ELSE g.status[k]

\* Seeded fault: the last episode only is remembered.
IsNotLastSample(g, k, s) ==
    \A i \in DOMAIN g.samples[k] :
        i = Len(g.samples[k]) => g.samples[k][i].episode # s.episode

IsNewSample(g, k, s) == s.episode \notin g.seen[k]

\* Seeded fault: only the newest MinCycles samples are kept.
RecordNewest(g, k, s) ==
    IF ~IsNewSample(g, k, s) THEN g
    ELSE [g EXCEPT !.seen[k] = @ \union {s.episode},
                   !.samples[k] = IF Len(@) >= MinCycles THEN Append(Tail(@), s)
                                                         ELSE Append(@, s)]

Record(g, k, s) ==
    IF ~IsNewSample(g, k, s) THEN g
    ELSE [g EXCEPT !.seen[k] = @ \union {s.episode},
                   !.samples[k] = Append(@, s)]

ProfitsOf(samples) == [i \in {j \in DOMAIN samples : samples[j].valid} |-> samples[i].profit]

\* Twice the median, as the mean of the middle two for an even number.
TwiceMedian(p) ==
    LET n == Cardinality(DOMAIN p)
        Kth(r) == CHOOSE v \in Range(p) :
                    /\ Cardinality({i \in DOMAIN p : p[i] < v}) < r
                    /\ Cardinality({i \in DOMAIN p : p[i] <= v}) >= r
    IN IF n = 0 THEN 0 ELSE Kth((n + 1) \div 2) + Kth((n + 2) \div 2)

\* Seeded fault: the 0 of a default status is taken for a time.
FirstOfStatus(status, samples, t) == status.first

FirstObserved(status, samples, t) ==
    IF status.first # 0 THEN status.first
    ELSE IF samples = <<>> THEN t ELSE samples[1].at

RelockReason(samples) ==
    IF samples # <<>> /\ ~Last(samples).valid THEN "invalid_data"
    ELSE IF samples # <<>> /\ Last(samples).orphan THEN "unresolved_orphan"
    ELSE IF Len(samples) >= MinCycles /\ SumFunction(ProfitsOf(samples)) <= 0
         THEN "non_positive_aggregate_profit"
    ELSE "none"

\* GateState::evaluate.  Every sample is terminal.  The coverage is compared with
\* 1, the strictest minimum_coverage: the service records valid samples only.
Evaluate(g, k, t) ==
    LET samples == g.samples[k]
        first == FirstObserved(StatusOf(g, k), samples, t)
        reason == RelockReason(samples)
    IN [g EXCEPT !.status[k] =
         [unlocked |-> /\ reason = "none"
                       /\ t - first >= MinAge
                       /\ Len(samples) >= MinCycles
                       /\ \A i \in DOMAIN samples : samples[i].valid
                       /\ SumFunction(ProfitsOf(samples)) > 0
                       /\ TwiceMedian(ProfitsOf(samples)) > 0,
          first |-> first, cycles |-> Len(samples), reason |-> reason]]

Relock(g, K, reason) ==
    [g EXCEPT !.status = [k \in Keys |->
        IF k \in K THEN [StatusOf(g, k) EXCEPT !.unlocked = FALSE, !.reason = reason]
        ELSE g.status[k]]]

RelockAll(g, reason) == Relock(g, {k \in Keys : g.status[k] # NoStatus}, reason)

-----------------------------------------------------------------------------
(* EpisodeTracker.                                                         *)

CloseMarket(m) == Restrict(active, {p \in DOMAIN active : p[1] # m})
\* Seeded fault: the other direction's episode stays open.
CloseNothing(m, d) == active

CloseOthers(m, d) == Restrict(active, {p \in DOMAIN active : p[1] # m \/ p[2] = d})
\* Seeded fault: the number is taken before it is incremented.
NewEpisodeBefore(m, d) == [market |-> m, direction |-> d, number |-> sequence]

NewEpisode(m, d) == [market |-> m, direction |-> d, number |-> sequence + 1]

-----------------------------------------------------------------------------
Init ==
    /\ now = 1 /\ pc = "idle" /\ cycleNow = 1 /\ todo = {}
    /\ active = [p \in {} |-> {}] /\ sequence = 0
    /\ gates = EmptyGates /\ disk = EmptyGates
    /\ logged = {}
    /\ crashes = 0

Tick ==
    /\ now < MaxTime
    /\ now' = now + 1
    /\ UNCHANGED <<pc, cycleNow, todo, active, sequence, gates, disk, logged, crashes>>

\* reconcile_monitor, which relocks every gate after a daily loss, and discovery.
StartCycle ==
    /\ pc = "idle"
    /\ pc' = "scanning" /\ cycleNow' = now /\ todo' \in SUBSET Markets
    /\ gates' = gates \/ gates' = RelockAll(gates, "daily_loss_limit")
    /\ UNCHANGED <<now, active, sequence, disk, logged, crashes>>

Evaluating(m) ==
    /\ pc = "scanning" /\ m \in todo
    /\ todo' = todo \ {m}
    /\ UNCHANGED <<now, pc, cycleNow, disk, crashes>>

\* Logged and skipped; the market's episodes stay as they are.
NotSubscribable(m) ==
    /\ Evaluating(m)
    /\ UNCHANGED <<active, sequence, gates, logged>>

\* Neither direction is profitable.
NoOpportunity(m) ==
    /\ Evaluating(m)
    /\ active' = CloseMarket(m)
    /\ UNCHANGED <<sequence, gates, logged>>

\* evaluate_market fails before finish_opportunity: metadata, books, validation.
InvalidData(m) ==
    /\ Evaluating(m)
    /\ active' = CloseMarket(m)
    /\ gates' = Relock(gates, KeysOf(m), "invalid_data")
    /\ UNCHANGED <<sequence, logged>>

\* Where finish_opportunity fails: nowhere; at the append of a new sample to the log;
\* or later, at check_risk, can_start or the submission behind an open gate, or at the
\* store of decisions behind any.
Failures == {"none", "append", "later"}

\* finish_opportunity.  A failure comes back to iteration, which closes the market's
\* episodes and relocks its bucket.
Opportunity(m, d, profit, failure) ==
    /\ Evaluating(m)
    /\ \E b \in Buckets(EndTime[m] - cycleNow) :
         LET key == [direction |-> d, bucket |-> b]
             others == CloseOthers(m, d)
             isNew == <<m, d>> \notin DOMAIN others
             episode == IF isNew THEN NewEpisode(m, d) ELSE others[<<m, d>>]
             sample == [episode |-> episode, at |-> cycleNow, valid |-> TRUE,
                        orphan |-> FALSE, profit |-> profit]
             recorded == Record(gates, key, sample)
             appends == IsNewSample(gates, key, sample)
             evaluated == Evaluate(recorded, key, cycleNow)
         IN /\ isNew => sequence + crashes < MaxEpisodes
            /\ failure = "append" => appends /\ WritesFail
            /\ failure = "later" => WritesFail \/ evaluated.status[key].unlocked
            /\ sequence' = IF isNew THEN sequence + 1 ELSE sequence
            /\ logged' = IF appends /\ failure # "append" THEN logged \union {sample} ELSE logged
            /\ IF failure # "none"
               THEN /\ active' = CloseMarket(m)
                    /\ gates' = Relock(IF failure = "append" THEN recorded ELSE evaluated,
                                       KeysOf(m), "invalid_data")
               ELSE /\ active' = [p \in DOMAIN others \union {<<m, d>>} |->
                                    IF p = <<m, d>> THEN episode ELSE others[p]]
                    /\ gates' = evaluated

\* Gamma fails, a decision cannot be stored or the state file cannot be written:
\* the `?` ends the cycle before the save.
CycleAborts ==
    /\ pc = "scanning"
    /\ pc' = "idle" /\ todo' = {}
    /\ UNCHANGED <<now, cycleNow, active, sequence, gates, disk, logged, crashes>>

EndCycle ==
    /\ pc = "scanning" /\ todo = {}
    /\ disk' = gates
    /\ pc' = "idle"
    /\ UNCHANGED <<now, cycleNow, todo, active, sequence, gates, logged, crashes>>

\* StrategyService::connect: the gates come from the state file, the tracker is new.
Restart ==
    /\ crashes < MaxCrashes
    /\ crashes' = crashes + 1
    /\ pc' = "idle" /\ todo' = {}
    /\ active' = [p \in {} |-> {}] /\ sequence' = 0
    /\ gates' = disk'
    /\ UNCHANGED <<now, cycleNow, logged>>

Crash == UNCHANGED disk /\ Restart

\* ctrl_c between two cycles saves the gates before the process ends.
Shutdown == pc = "idle" /\ disk' = gates /\ Restart

Next ==
    \/ Tick
    \/ StartCycle
    \/ \E m \in todo : NotSubscribable(m) \/ NoOpportunity(m) \/ InvalidData(m)
    \/ \E m \in todo, d \in Directions, profit \in Profits, failure \in Failures :
         Opportunity(m, d, profit, failure)
    \/ CycleAborts
    \/ EndCycle
    \/ Crash
    \/ Shutdown

Spec == Init /\ [][Next]_vars

-----------------------------------------------------------------------------
(* Properties.                                                             *)

\* Every variable has its type.
TypeOK ==
    /\ now \in Times /\ cycleNow \in Times
    /\ pc \in {"idle", "scanning"} /\ todo \in SUBSET Markets
    /\ DOMAIN active \in SUBSET Pairs /\ Range(active) \subseteq Episodes
    /\ sequence \in 0 .. MaxEpisodes
    /\ \A g \in {gates, disk}, k \in Keys :
         /\ g.samples[k] \in Seq(Samples)
         /\ g.seen[k] \in SUBSET Episodes
         /\ g.status[k] \in Statuses
    /\ logged \in SUBSET Samples
    /\ crashes \in 0 .. MaxCrashes

EpisodesOf(g, k) == {s.episode : s \in Range(g.samples[k])}

\* The samples a gate counts are of different episodes, and exactly the episodes
\* it refuses from then on, in memory and in the file: record (gate.rs) keeps the
\* two together although a failed append, a crash and a restart come between.
EpisodesCounted ==
    \A g \in {gates, disk}, k \in Keys :
        /\ g.seen[k] = EpisodesOf(g, k)
        /\ Len(g.samples[k]) = Cardinality(g.seen[k])

\* A market has one open episode at most (close_other_directions, close_market),
\* and two markets never share one.
OneOpenEpisode ==
    \A p, q \in DOMAIN active :
        /\ p[1] = q[1] => p = q
        /\ active[p] = active[q] => p = q

\* A gate that is open, in memory or in the file, rests on minimum_cycles samples
\* whose first is minimum_age old: neither a relock and the evaluation after it
\* (which default the status first) nor a restart makes a gate look older.
OpenGateIsMature ==
    \A g \in {gates, disk}, k \in Keys :
        g.status[k].unlocked =>
            /\ Len(g.samples[k]) >= MinCycles
            /\ cycleNow - g.samples[k][1].at >= MinAge

\* Calibration is never lost from the state file: what was saved once stays, in
\* its order, through every later save, crash and restart.
SavedOnlyGrows ==
    [][\A k \in Keys : IsPrefix(disk.samples[k], disk'.samples[k])]_vars
=============================================================================
