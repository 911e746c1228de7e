----------------------------- MODULE SignalCycle -----------------------------
(***************************************************************************)
(* The evaluation cycle of StrategyService (service.rs) with the circuit   *)
(* state it consults (CircuitState, gate.rs), the submission of complete-  *)
(* set signals (link.rs) and the two services it talks to: the engine that *)
(* executes signals and the Monitor that lists executions.  Both are       *)
(* outside the repository and modelled from how the code uses them.        *)
(*                                                                         *)
(* The service is one task: it runs one cycle at a time and suspends only  *)
(* where the code awaits.  Every action of the service is the stretch of   *)
(* code between two awaits.  The clock, the engine and a crash of the      *)
(* process interleave with them.                                           *)
(*                                                                         *)
(* A signal stands for the SHA-256 of stable_signal_id together with what  *)
(* the hash is made of: market, direction, quantity and book timestamps.   *)
(* Its size is the capital the cycle ties up.  Whether a market shows an   *)
(* opportunity and whether its calibration gate is open is left open here  *)
(* (NoSignal); CalibrationGate models the gate.                            *)
(***************************************************************************)
EXTENDS Integers, Sequences, FiniteSets, Functions, FiniteSetsExt

CONSTANTS
    Markets,           \* the markets Gamma may list
    Directions,        \* {"buy_merge", "split_sell"}
    Sizes,             \* capital a cycle may need
    UnderlyingOf,      \* [Markets -> the cryptocurrency of the market]
    MaxPerCycle, MaxPerMarket, MaxPerUnderlying, MaxAggregate,   \* [risk]
    Rate,              \* risk.signals_per_minute
    Window,            \* the minute of the rate limit
    MaxBookAge,        \* quality.max_book_age_ms
    Day, DailyLossLimit, Losses,     \* the 24 hours, the limit, losses that occur
                                     \* (a profit is a negative loss)
    ListLimit,         \* the limit of the Monitor request
    AnswersLost,       \* a submission may fail after the request was sent
    MaxCrashes,        \* bound: crashes of the process in a behaviour
    MaxTime,           \* bound: the clock
    MaxExecutions      \* bound: signals the engine gets to know

ASSUME LimitsAssumption ==
    /\ Rate \in Nat \ {0}
    /\ Window \in Nat \ {0}
    /\ {MaxPerCycle, MaxPerMarket, MaxPerUnderlying, MaxAggregate, DailyLossLimit}
          \subseteq Nat \ {0}
    /\ {MaxBookAge, Day, MaxTime, MaxCrashes, MaxExecutions} \subseteq Nat
    /\ Sizes \subseteq Nat /\ Losses \subseteq Int
    /\ AnswersLost \in BOOLEAN

VARIABLES
    now,               \* the real clock
    \* the service, all of it lost in a crash
    pc,                \* where the service task is suspended
    cycleNow,          \* now_ms, read once at the start of the cycle
    todo,              \* markets of this cycle not evaluated yet
    request,           \* the submission whose answer is awaited
    activeCycles,      \* CircuitState.active_cycles
    unresolvedOrphan,  \* CircuitState.unresolved_orphan
    recentSignals,     \* CircuitState.recent_signals_ms
    submitted,         \* StrategyService.submitted
    blockedMarkets,    \* StrategyService.blocked_markets
    dailyLossHalted,   \* StrategyService.daily_loss_halted
    \* the engine and the connection to it
    wire,              \* requests on their way to the engine
    reply,             \* the engine's answer on its way back
    executions,        \* what the engine did with each signal it knows
    \* bookkeeping of the model
    crashes,
    lost,              \* signals sent whose fate this process has no record of
    starts             \* cycle times of the last Rate + 1 starts of this process

circuitVars == <<activeCycles, unresolvedOrphan, recentSignals>>
monitorVars == <<submitted, blockedMarkets, dailyLossHalted>>
serviceVars == <<pc, cycleNow, todo, request, circuitVars, monitorVars, starts>>
engineVars == <<wire, reply, executions>>
worldVars == <<now, crashes, lost>>
vars == <<worldVars, serviceVars, engineVars>>

Times == 0 .. MaxTime
Signals == [market : Markets, direction : Directions, size : Sizes, book : Times]
NoRequest == [market |-> "none"]

Pair(s) == <<s.market, s.direction>>

\* The request whose answer is awaited counts as if it had been accepted.
Awaited == IF pc = "awaiting" THEN {request} ELSE {}

Capital(S) == MapThenSumSet(LAMBDA s : s.size, S)

-----------------------------------------------------------------------------
(* The executions Monitor lists, and what the service reads off them.      *)

OpenStates == {"running", "recovering"}
DoneStates == {"completed", "risk_rejected"}
Executions == [state : OpenStates \union DoneStates, held : BOOLEAN,
               loss : Losses \union {0}, completedAt : Times]

NewExecution(state) ==
    [state |-> state, held |-> FALSE, loss |-> 0, completedAt |-> 0]

IsOpen(s) == s \in DOMAIN executions /\ executions[s].state \in OpenStates
OpenAtEngine == {s \in DOMAIN executions : IsOpen(s)}

\* Seeded fault: recovery taken for an end.
IsTerminalOnRecovery(e) == e.state # "running"

\* Seeded fault: a rejection by the engine's risk checks is not taken for an end.
IsTerminalOnlyCompleted(e) == e.state = "completed"

\* The states on which reconcile_monitor takes a signal out of `submitted`.
IsTerminal(e) == e.state \in DoneStates

\* The states on which it blocks the market; `held` stands for a halted
\* recovery and for a close recovery that is running, unknown or held.
IsBlocking(e) == e.state = "recovering" \/ e.held

\* Seeded fault: the set of blocked markets is added to, not replaced.
BlockedByEver(listed) ==
    blockedMarkets \union {s.market : s \in {t \in listed : IsBlocking(executions[t])}}

BlockedBy(listed) == {s.market : s \in {t \in listed : IsBlocking(executions[t])}}

\* Seeded fault: the start of the day is excluded.
DailyLossShortDay(listed, t) ==
    MapThenSumSet(LAMBDA s : executions[s].loss,
                  {s \in listed : executions[s].completedAt > t - Day})

\* What the listed executions that completed in the last day lost, profits set off.
DailyLoss(listed, t) ==
    MapThenSumSet(LAMBDA s : executions[s].loss,
                  {s \in listed : executions[s].completedAt >= t - Day})

-----------------------------------------------------------------------------
(* CircuitState and check_risk.                                            *)

\* Seeded fault: entries leave the window one unit of time too early.
PrunedEarly(q, t) ==
    LET recent == {i \in DOMAIN q : t - q[i] < Window - 1}
    IN IF recent = {} THEN <<>> ELSE SubSeq(q, Min(recent), Len(q))

\* The `while front is old: pop_front` of can_start.
Pruned(q, t) ==
    LET recent == {i \in DOMAIN q : t - q[i] < Window}
    IN IF recent = {} THEN <<>> ELSE SubSeq(q, Min(recent), Len(q))

\* Seeded fault: one signal too many per window.
CanStartOneMore(m, d, t) ==
    /\ ~unresolvedOrphan
    /\ <<m, d>> \notin activeCycles
    /\ Len(Pruned(recentSignals, t)) <= Rate

\* Seeded fault: no check of the active cycles.
CanStartTwice(m, d, t) ==
    /\ ~unresolvedOrphan
    /\ Len(Pruned(recentSignals, t)) < Rate

CanStart(m, d, t) ==
    /\ ~unresolvedOrphan
    /\ <<m, d>> \notin activeCycles
    /\ Len(Pruned(recentSignals, t)) < Rate

\* Seeded fault: the new cycle's own capital is left out.
ExposureBefore(S, s) == Capital(S)

Exposure(S, s) == Capital(S) + s.size

RiskAllows(s) ==
    /\ ~dailyLossHalted
    /\ s.size <= MaxPerCycle
    /\ Exposure({t \in submitted : t.market = s.market}, s) <= MaxPerMarket
    /\ Exposure({t \in submitted : UnderlyingOf[t.market] = UnderlyingOf[s.market]}, s)
         <= MaxPerUnderlying
    /\ Exposure(submitted, s) <= MaxAggregate

\* validate_freshness against the start of the cycle, not against the clock.
IsFresh(stamp, t) == stamp <= t /\ t - stamp <= MaxBookAge

\* What evaluate_market may hand to finish_opportunity for market m: a signal on
\* books that exist and passed validation, the gate open, the market not blocked.
Opportunities(m) ==
    {s \in Signals : /\ s.market = m /\ m \notin blockedMarkets
                     /\ s.book <= now /\ IsFresh(s.book, cycleNow)}

-----------------------------------------------------------------------------
Init ==
    /\ now = 0
    /\ pc = "idle"
    /\ cycleNow = 0
    /\ todo = {}
    /\ request = NoRequest
    /\ activeCycles = {}
    /\ unresolvedOrphan = FALSE
    /\ recentSignals = <<>>
    /\ submitted = {}
    /\ blockedMarkets = {}
    /\ dailyLossHalted = FALSE
    /\ wire = {}
    /\ reply = "none"
    /\ executions = [s \in {} |-> NewExecution("running")]
    /\ crashes = 0
    /\ lost = {}
    /\ starts = <<>>

-----------------------------------------------------------------------------
(* The world around the service.                                           *)

Tick ==
    /\ now < MaxTime
    /\ now' = now + 1
    /\ UNCHANGED <<crashes, lost, serviceVars, engineVars>>

\* The process dies and is started again: everything StrategyService::connect
\* does not load from disk is back at its initial value.
Crash ==
    /\ crashes < MaxCrashes
    /\ crashes' = crashes + 1
    /\ lost' = lost \union submitted \union Awaited
    /\ pc' = "idle" /\ cycleNow' = 0 /\ todo' = {} /\ request' = NoRequest
    /\ activeCycles' = {} /\ unresolvedOrphan' = FALSE /\ recentSignals' = <<>>
    /\ submitted' = {} /\ blockedMarkets' = {} /\ dailyLossHalted' = FALSE
    /\ starts' = <<>>
    /\ reply' = "none"
    /\ UNCHANGED <<now, wire, executions>>

-----------------------------------------------------------------------------
(* The engine: it knows a signal by its id and executes it at most once.  A *)
(* request it never takes off the wire is a lost one.                      *)

Remember(s, state) ==
    executions' = [t \in DOMAIN executions \union {s} |->
                     IF t = s THEN NewExecution(state) ELSE executions[t]]

\* The answer reaches the service only if the service still waits for it.
Answer(s, verdict) ==
    reply' = IF pc = "awaiting" /\ request = s THEN verdict ELSE reply

EngineAccepts(s) ==
    /\ s \in wire /\ s \notin DOMAIN executions
    /\ Remember(s, "running")
    /\ Answer(s, "accepted")
    /\ wire' = wire \ {s}
    /\ UNCHANGED <<worldVars, serviceVars>>

EngineRejects(s) ==
    /\ s \in wire /\ s \notin DOMAIN executions
    /\ Remember(s, "risk_rejected") \/ UNCHANGED executions
    /\ Answer(s, "rejected")
    /\ wire' = wire \ {s}
    /\ UNCHANGED <<worldVars, serviceVars>>

EngineDeduplicates(s) ==
    /\ s \in wire /\ s \in DOMAIN executions
    /\ Answer(s, "duplicate")
    /\ wire' = wire \ {s}
    /\ UNCHANGED <<executions, worldVars, serviceVars>>

\* A leg is orphaned and the engine recovers it.
EngineRecovers(s) ==
    /\ IsOpen(s) /\ executions[s].state = "running"
    /\ executions' = [executions EXCEPT ![s].state = "recovering"]
    /\ UNCHANGED <<wire, reply, worldVars, serviceVars>>

\* The execution reaches a terminal state, with a loss or without, and with
\* inventory held by the close recovery or without.
EngineCompletes(s) ==
    /\ IsOpen(s)
    /\ \E loss \in Losses, held \in BOOLEAN :
         executions' = [executions EXCEPT ![s] =
             [state |-> "completed", held |-> held, loss |-> loss, completedAt |-> now]]
    /\ UNCHANGED <<wire, reply, worldVars, serviceVars>>

EngineReleases(s) ==
    /\ s \in DOMAIN executions /\ executions[s].held
    /\ executions' = [executions EXCEPT ![s].held = FALSE]
    /\ UNCHANGED <<wire, reply, worldVars, serviceVars>>

-----------------------------------------------------------------------------
(* The service task.                                                       *)

StartCycle ==
    /\ pc = "idle"
    /\ pc' = "reconciling"
    /\ cycleNow' = now
    /\ UNCHANGED <<todo, request, circuitVars, monitorVars, starts, engineVars, worldVars>>

\* reconcile_monitor with the executions `listed` in Monitor's answer.
Reconcile(listed) ==
    LET cleared == {s \in submitted \intersect listed : IsTerminal(executions[s])}
    IN /\ pc = "reconciling"
       /\ Cardinality(listed) = Min({ListLimit, Cardinality(DOMAIN executions)})
       /\ blockedMarkets' = BlockedBy(listed)
       /\ submitted' = submitted \ cleared
       /\ activeCycles' = activeCycles \ {Pair(s) : s \in cleared}
       /\ unresolvedOrphan' = FALSE
       /\ dailyLossHalted' = (DailyLoss(listed, now) >= DailyLossLimit)
       /\ pc' = "discovering"
       /\ UNCHANGED <<cycleNow, todo, request, recentSignals, starts, engineVars, worldVars>>

\* Gamma answers with the markets to evaluate in this cycle.
Discover ==
    /\ pc = "discovering"
    /\ todo' \in SUBSET Markets
    /\ pc' = "scanning"
    /\ UNCHANGED <<cycleNow, request, circuitVars, monitorVars, starts, engineVars, worldVars>>

\* Monitor or Gamma fails, or a decision cannot be stored: the `?` ends the cycle.
CycleFails ==
    /\ \/ pc \in {"reconciling", "discovering"}
       \/ pc = "scanning" /\ todo # {}
    /\ pc' = "idle"
    /\ todo' = {}
    /\ UNCHANGED <<cycleNow, request, circuitVars, monitorVars, starts, engineVars, worldVars>>

\* The market is done before can_start: no opportunity, invalid data, a locked
\* gate, a blocked market, a risk limit, or an engine without the capabilities.
NoSignal(m) ==
    /\ pc = "scanning" /\ m \in todo
    /\ todo' = todo \ {m}
    /\ UNCHANGED <<pc, cycleNow, request, circuitVars, monitorVars, starts, engineVars, worldVars>>

\* can_start refuses; what it popped from the queue stays popped.
CannotStart(m) ==
    /\ pc = "scanning" /\ m \in todo
    /\ \E s \in Opportunities(m) :
         RiskAllows(s) /\ ~CanStart(m, s.direction, cycleNow)
    /\ recentSignals' = Pruned(recentSignals, cycleNow)
    /\ todo' = todo \ {m}
    /\ UNCHANGED <<pc, cycleNow, request, activeCycles, unresolvedOrphan, monitorVars,
                   starts, engineVars, worldVars>>

RoomAtEngine(s) ==
    Cardinality(DOMAIN executions \union wire \union {s}) <= MaxExecutions

\* From the final REST refresh to the request that is sent: no await between.
Submit(m) ==
    /\ pc = "scanning" /\ m \in todo
    /\ \E s \in Opportunities(m) :
         /\ RiskAllows(s)
         /\ CanStart(m, s.direction, cycleNow)
         /\ RoomAtEngine(s)
         /\ request' = s
         /\ wire' = wire \union {s}
    /\ recentSignals' = Pruned(recentSignals, cycleNow)
    /\ todo' = todo \ {m}
    /\ pc' = "awaiting"
    /\ reply' = "none"
    /\ UNCHANGED <<cycleNow, activeCycles, unresolvedOrphan, monitorVars, starts,
                   executions, worldVars>>

\* Bookkeeping of the model: the newest Rate + 1 elements of a history.
Newest(h) == IF Len(h) > Rate + 1 THEN Tail(h) ELSE h

\* SubmitOutcome::Accepted and ::Duplicate: the cycle is on the books.
SubmitStarts ==
    /\ pc = "awaiting" /\ reply \in {"accepted", "duplicate"}
    /\ activeCycles' = activeCycles \union {Pair(request)}
    /\ recentSignals' = Append(recentSignals, cycleNow)
    /\ submitted' = submitted \union {request}
    /\ starts' = Newest(Append(starts, cycleNow))
    /\ lost' = lost \ {request}
    /\ pc' = "scanning" /\ request' = NoRequest /\ reply' = "none"
    /\ UNCHANGED <<cycleNow, todo, unresolvedOrphan, blockedMarkets, dailyLossHalted,
                   wire, executions, now, crashes>>

\* SubmitOutcome::Rejected, and a status the engine itself answered with.
SubmitRejected ==
    /\ pc = "awaiting" /\ reply = "rejected"
    /\ pc' = "scanning" /\ request' = NoRequest /\ reply' = "none"
    /\ UNCHANGED <<cycleNow, todo, circuitVars, monitorVars, starts, wire, executions, worldVars>>

\* The call fails in transport, before or after the engine got the request:
\* Retriable or Err, and in both cases nothing is remembered of the request.
SubmitFails ==
    /\ AnswersLost
    /\ pc = "awaiting"
    /\ lost' = lost \union {request}
    /\ pc' = "scanning" /\ request' = NoRequest /\ reply' = "none"
    /\ UNCHANGED <<cycleNow, todo, circuitVars, monitorVars, starts, wire, executions,
                   now, crashes>>

EndCycle ==
    /\ pc = "scanning" /\ todo = {}
    /\ pc' = "idle"
    /\ UNCHANGED <<cycleNow, todo, request, circuitVars, monitorVars, starts, engineVars, worldVars>>

-----------------------------------------------------------------------------
EngineAnswers == \E s \in wire : EngineAccepts(s) \/ EngineRejects(s) \/ EngineDeduplicates(s)
EngineWorks ==
    \E s \in DOMAIN executions : EngineRecovers(s) \/ EngineCompletes(s) \/ EngineReleases(s)
MonitorAnswers == \E listed \in SUBSET DOMAIN executions : Reconcile(listed)
Evaluate == \E m \in todo : NoSignal(m) \/ CannotStart(m) \/ Submit(m)
SubmitReturns == SubmitStarts \/ SubmitRejected \/ SubmitFails

Next ==
    \/ Tick
    \/ Crash
    \/ EngineAnswers
    \/ EngineWorks
    \/ StartCycle
    \/ MonitorAnswers
    \/ Discover
    \/ CycleFails
    \/ Evaluate
    \/ SubmitReturns
    \/ EndCycle

Spec == Init /\ [][Next]_vars

\* What the service task does once its timer ticks, or Gamma or the engine has
\* answered; at most one of these can happen in a state.
ServiceTask == StartCycle \/ Discover \/ Evaluate \/ SubmitReturns \/ EndCycle

\* The runtime runs the task, the engine answers the requests it gets, and
\* Monitor answers one of infinitely many requests.  The answers are told by the one
\* variable that nothing else changes in their way.
Fairness ==
    /\ WF_vars(ServiceTask)
    /\ SF_<<pc>>(pc = "reconciling" /\ pc' = "discovering")
    /\ WF_<<wire>>(\E s \in wire : wire' = wire \ {s})

FairSpec == Spec /\ Fairness

-----------------------------------------------------------------------------
(* Properties.                                                             *)

\* Every variable has its type, and the rate-limit queue never holds more
\* entries than the limit allows (recent_signals_ms is bounded, gate.rs).
TypeOK ==
    /\ now \in Times /\ cycleNow \in Times
    /\ pc \in {"idle", "reconciling", "discovering", "scanning", "awaiting"}
    /\ todo \in SUBSET Markets
    /\ request \in Signals \union {NoRequest}
    /\ activeCycles \in SUBSET (Markets \X Directions)
    /\ unresolvedOrphan \in BOOLEAN
    /\ recentSignals \in Seq(Times) /\ Len(recentSignals) <= Rate
    /\ submitted \in SUBSET Signals
    /\ blockedMarkets \in SUBSET Markets
    /\ dailyLossHalted \in BOOLEAN
    /\ wire \in SUBSET Signals
    /\ reply \in {"none", "accepted", "duplicate", "rejected"}
    /\ executions \in [DOMAIN executions -> Executions]
    /\ DOMAIN executions \in SUBSET Signals
    /\ crashes \in 0 .. MaxCrashes
    /\ lost \in SUBSET Signals
    /\ starts \in Seq(Times)
    /\ pc = "awaiting" => request \in Signals /\ Len(recentSignals) < Rate

\* The open cycles this process has sent and not lost track of.
KnownOpen == OpenAtEngine \ lost

Ledger == INSTANCE SignalLedger WITH open <- KnownOpen

\* active_cycles (gate.rs) and `submitted` (service.rs) are two records of the
\* same thing kept by different statements: a pair is active exactly when one
\* submitted signal has it, and the awaited signal's pair is not active yet.
CycleBookkeeping ==
    /\ activeCycles = {Pair(s) : s \in submitted}
    /\ Ledger!OnePerPair(submitted)
    /\ pc = "awaiting" => Pair(request) \notin activeCycles

\* The capital of the submitted signals, the awaited one included, respects
\* every limit of check_risk although it is checked before the submission and
\* recorded after it.
ExposureWithinLimits == Ledger!WithinLimits(submitted \union Awaited)

\* The sliding window of can_start: among any Rate + 1 consecutive starts of
\* one process the first and the last are a whole window of cycle times apart.
RateWindow ==
    \A i \in DOMAIN starts :
        i + Rate \in DOMAIN starts => starts[i + Rate] - starts[i] >= Window

NetLoss(S) == MapThenSumSet(LAMBDA s : executions[s].loss, S)

\* The daily loss limit (reconcile_monitor, check_risk) covers every loss realized
\* before the cycle began: no request is out while what completed in the last day
\* before the cycle's start has lost as much as the limit, whatever profits may
\* have set it off when Monitor was asked: later ones, and ones since out of the day.
LossStopsSubmissions ==
    pc = "awaiting" =>
        LET today == {s \in DOMAIN executions : executions[s].completedAt >= now - Day
                                                /\ executions[s].completedAt < cycleNow}
            profits == {s \in DOMAIN executions \ today : executions[s].loss < 0}
        IN NetLoss(today) + NetLoss(profits) < DailyLossLimit

\* Every open cycle whose answer came and that was not there before a crash is one
\* the service knows of or waits for, although the engine's answers, Monitor's lists
\* and the ends of cycles interleave: check_risk and can_start decide from memory.
OpenCyclesTracked == KnownOpen \subseteq submitted \union Awaited

\* The engine never has two such cycles for a market and direction, which is what
\* can_start refuses ("a nonterminal cycle already exists", gate.rs).
OneOpenCycle == Ledger!OnePerPair(KnownOpen)

\* The same of every open cycle, which is what the text of that refusal says.
NoSecondCycle == Ledger!OnePerPair(OpenAtEngine)

\* The capital of all cycles open at the engine stays within max_aggregate.
AggregateAtEngine == Capital(OpenAtEngine) <= MaxAggregate

\* What happens at the engine to the cycles the process has not lost track of is
\* what the ledger promises: every one opens within all limits of check_risk.
ImplementsLedger == Ledger!Spec

\* A pair the engine has nothing open for does not stay active: the service
\* learns of the end and releases it.
ActivePairReleased ==
    \A p \in Markets \X Directions :
        p \in activeCycles ~> \/ p \notin activeCycles
                              \/ \E s \in OpenAtEngine : Pair(s) = p

\* A market whose executions all came to rest does not stay blocked.
BlockLifts ==
    \A m \in Markets :
        m \in blockedMarkets ~>
            \/ m \notin blockedMarkets
            \/ \E s \in DOMAIN executions : s.market = m /\ IsBlocking(executions[s])
=============================================================================
