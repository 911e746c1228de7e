-------------------------- MODULE SignalCycleProofs --------------------------
(***************************************************************************)
(* What SignalCycle's runs check on small instances, proved for every      *)
(* value of the constants that LimitsAssumption admits.                    *)
(***************************************************************************)
EXTENDS SignalCycle, FiniteFolds, SequenceTheorems

\* Times are numbers, the rate and its window positive ones.
LEMMA TimesAreNumbers ==
  /\ \A t \in Times : t \in Nat
  /\ 0 \in Times /\ MaxTime \in Nat /\ Rate \in Nat \ {0} /\ Window \in Nat \ {0}
<1>1. MaxTime \in Nat /\ Rate \in Nat \ {0} /\ Window \in Nat \ {0}
  BY LimitsAssumption
<1> QED BY <1>1 DEF Times

(***************************************************************************)
(* can_start pops a prefix of the queue: what stays is a suffix, in order, *)
(* and everything popped is at least a Window old.                         *)
(***************************************************************************)
LEMMA PrunedIsSuffix ==
  ASSUME NEW q \in Seq(Times), NEW t \in Times
  PROVE  /\ Pruned(q, t) \in Seq(Times)
         /\ Len(Pruned(q, t)) <= Len(q)
         /\ \A i \in 1 .. Len(Pruned(q, t)) :
              Pruned(q, t)[i] = q[Len(q) - Len(Pruned(q, t)) + i]
         /\ \A i \in 1 .. (Len(q) - Len(Pruned(q, t))) : t - q[i] >= Window
<1> DEFINE recent == {i \in DOMAIN q : t - q[i] < Window}
           n == Len(q)
           k == Min(recent)
<1>1. n \in Nat /\ DOMAIN q = 1 .. n /\ recent \in SUBSET (1 .. n)
  OBVIOUS
<1>2. /\ \A i \in 1 .. n : q[i] \in Int /\ q[i] \in Times
      /\ t \in Int /\ Window \in Int
  BY TimesAreNumbers, ElementOfSeq
<1>3. CASE recent = {}
  <2>1. Pruned(q, t) = <<>>
    BY <1>3 DEF Pruned
  <2>2. \A i \in 1 .. n : t - q[i] >= Window
    <3> SUFFICES ASSUME NEW i \in 1 .. n, t - q[i] < Window PROVE FALSE
      BY <1>2
    <3>1. i \in recent
      BY <1>1
    <3> QED BY <3>1, <1>3
  <2> QED BY <2>1, <2>2
<1>4. CASE recent # {}
  <2>1. k \in recent /\ \A y \in recent : k <= y
    <3> HIDE DEF recent, n
    <3>1. IsFiniteSet(recent)
      <4>1. IsFiniteSet(1 .. n)
        BY <1>1, FS_Interval
      <4> QED BY <1>1, <4>1, FS_Subset
    <3>2. \A i \in recent : i \in Int
      BY <1>1
    <3> QED BY <1>4, <3>1, <3>2, MinIsElement
  <2>2. Pruned(q, t) = SubSeq(q, k, n)
    BY <1>4 DEF Pruned
  <2>3. k \in 1 .. n
    BY <2>1, <1>1
  <2> HIDE DEF k
  <2>4. /\ SubSeq(q, k, n) \in Seq(Times)
        /\ Len(SubSeq(q, k, n)) = n - k + 1
        /\ \A i \in 1 .. n - k + 1 : SubSeq(q, k, n)[i] = q[k + i - 1]
    BY <2>3, <1>2, SubSeqProperties
  <2>5. \A i \in 1 .. (k - 1) : t - q[i] >= Window
    <3> SUFFICES ASSUME NEW i \in 1 .. (k - 1), t - q[i] < Window PROVE FALSE
      BY <1>2, <2>3
    <3>1. i \in recent
      BY <1>1, <2>3
    <3> QED BY <3>1, <2>1, <2>3
  <2> QED BY <2>2, <2>3, <2>4, <2>5
<1> QED BY <1>3, <1>4

-----------------------------------------------------------------------------
(* Type correctness.                                                       *)

\* The initial values have the types.
LEMMA InitTypeOK == Init => TypeOK
<1>1. 0 \in Times /\ 0 \in 0 .. MaxCrashes /\ 0 <= Rate
  BY LimitsAssumption DEF Times
<1>2. ASSUME Init PROVE /\ executions \in [DOMAIN executions -> Executions]
                        /\ DOMAIN executions = {}
  BY <1>2 DEF Init
<1>3. ASSUME Init PROVE /\ recentSignals \in Seq(Times) /\ Len(recentSignals) = 0
                        /\ starts \in Seq(Times)
  BY <1>3 DEF Init
<1> QED BY <1>1, <1>2, <1>3 DEF Init, TypeOK

\* Every step keeps the types, the bound of the rate-limit queue included.
LEMMA NextTypeOK == TypeOK /\ [Next]_vars => TypeOK'
<1> SUFFICES ASSUME TypeOK, [Next]_vars PROVE TypeOK'
  OBVIOUS
<1> USE DEF serviceVars, circuitVars, monitorVars, engineVars, worldVars
<1>a. /\ \A t \in Times : t \in Int
      /\ Rate \in Int /\ MaxTime \in Int /\ MaxCrashes \in Int
      /\ 0 \in Times /\ 0 <= Rate
  BY LimitsAssumption DEF Times
<1>b. \A s \in Signals : s.market \in Markets /\ Pair(s) \in Markets \X Directions
  BY DEF Signals, Pair
<1>c. /\ Pruned(recentSignals, cycleNow) \in Seq(Times)
      /\ Len(Pruned(recentSignals, cycleNow)) <= Rate
  <2>1. /\ recentSignals \in Seq(Times) /\ cycleNow \in Times
        /\ Len(recentSignals) <= Rate
    BY DEF TypeOK
  <2>2. Len(Pruned(recentSignals, cycleNow)) \in Int /\ Len(recentSignals) \in Int
    BY <2>1, PrunedIsSuffix
  <2> QED BY <2>1, <2>2, <1>a, PrunedIsSuffix
<1>1. CASE Tick
  <2>1. now' \in Times
    <3>1. now \in 0 .. MaxTime /\ now < MaxTime /\ now' = now + 1
      BY <1>1 DEF Tick, TypeOK, Times
    <3>2. MaxTime \in Int
      BY LimitsAssumption
    <3> QED BY <3>1, <3>2 DEF Times
  <2>2. UNCHANGED <<crashes, lost, serviceVars, engineVars>>
    BY <1>1 DEF Tick
  <2> QED BY <2>1, <2>2 DEF TypeOK
<1>2. CASE Crash
  <2>1. recentSignals' \in Seq(Times) /\ Len(recentSignals') = 0 /\ starts' \in Seq(Times)
    BY <1>2 DEF Crash
  <2>2. crashes' \in 0 .. MaxCrashes
    BY <1>2, <1>a DEF Crash, TypeOK
  <2>3. lost' \in SUBSET Signals
    BY <1>2 DEF Crash, TypeOK, Awaited
  <2> QED BY <1>2, <1>a, <2>1, <2>2, <2>3 DEF Crash, TypeOK
<1>3. ASSUME NEW s \in wire, EngineAccepts(s) PROVE TypeOK'
  <2>1. s \in Signals
    BY DEF TypeOK
  <2>2. NewExecution("running") \in Executions
    BY <1>a DEF NewExecution, Executions, OpenStates
  <2> QED BY <1>3, <2>1, <2>2 DEF EngineAccepts, Remember, Answer, TypeOK
<1>4. ASSUME NEW s \in wire, EngineRejects(s) PROVE TypeOK'
  <2>1. s \in Signals
    BY DEF TypeOK
  <2>2. NewExecution("risk_rejected") \in Executions
    BY <1>a DEF NewExecution, Executions, DoneStates
  <2> QED BY <1>4, <2>1, <2>2 DEF EngineRejects, Remember, Answer, TypeOK
<1>5. ASSUME NEW s \in wire, EngineDeduplicates(s) PROVE TypeOK'
  BY <1>5 DEF EngineDeduplicates, Answer, TypeOK
<1>6. ASSUME NEW s \in DOMAIN executions, EngineRecovers(s) PROVE TypeOK'
  <2>1. [executions[s] EXCEPT !.state = "recovering"] \in Executions
    BY DEF TypeOK, Executions, OpenStates
  <2> QED BY <1>6, <2>1 DEF EngineRecovers, TypeOK
<1>7. ASSUME NEW s \in DOMAIN executions, EngineCompletes(s) PROVE TypeOK'
  BY <1>7 DEF EngineCompletes, TypeOK, Executions, DoneStates
<1>8. ASSUME NEW s \in DOMAIN executions, EngineReleases(s) PROVE TypeOK'
  <2>1. [executions[s] EXCEPT !.held = FALSE] \in Executions
    BY DEF TypeOK, Executions
  <2> QED BY <1>8, <2>1 DEF EngineReleases, TypeOK
<1>9. CASE StartCycle
  BY <1>9 DEF StartCycle, TypeOK
<1>10. ASSUME NEW listed \in SUBSET DOMAIN executions, Reconcile(listed) PROVE TypeOK'
  <2>1. BlockedBy(listed) \in SUBSET Markets
    BY <1>b DEF BlockedBy, TypeOK
  <2>2. (DailyLoss(listed, now) >= DailyLossLimit) \in BOOLEAN
    OBVIOUS
  <2> QED BY <1>10, <2>1, <2>2 DEF Reconcile, TypeOK
<1>11. CASE Discover
  BY <1>11 DEF Discover, TypeOK
<1>12. CASE CycleFails
  BY <1>12 DEF CycleFails, TypeOK
<1>13. ASSUME NEW m \in todo, NoSignal(m) PROVE TypeOK'
  BY <1>13 DEF NoSignal, TypeOK
<1>14. ASSUME NEW m \in todo, CannotStart(m) PROVE TypeOK'
  BY <1>14, <1>c DEF CannotStart, TypeOK
<1>15. ASSUME NEW m \in todo, Submit(m) PROVE TypeOK'
  <2>1. PICK s \in Signals : /\ CanStart(m, s.direction, cycleNow)
                            /\ request' = s /\ wire' = wire \union {s}
    BY <1>15 DEF Submit, Opportunities
  <2>2. Len(Pruned(recentSignals, cycleNow)) < Rate
    BY <2>1 DEF CanStart
  <2> QED BY <1>15, <1>c, <2>1, <2>2 DEF Submit, TypeOK
<1>16. CASE SubmitStarts
  <2>1. /\ request \in Signals /\ Len(recentSignals) < Rate
        /\ recentSignals \in Seq(Times) /\ starts \in Seq(Times) /\ cycleNow \in Times
    BY <1>16 DEF SubmitStarts, TypeOK
  <2>2. /\ Append(recentSignals, cycleNow) \in Seq(Times)
        /\ Len(Append(recentSignals, cycleNow)) <= Rate
    BY <2>1, <1>a
  <2>3. Newest(Append(starts, cycleNow)) \in Seq(Times)
    BY <2>1 DEF Newest
  <2> QED BY <1>16, <1>b, <2>1, <2>2, <2>3 DEF SubmitStarts, TypeOK
<1>17. CASE SubmitRejected
  BY <1>17 DEF SubmitRejected, TypeOK
<1>18. CASE SubmitFails
  BY <1>18 DEF SubmitFails, TypeOK
<1>19. CASE EndCycle
  BY <1>19 DEF EndCycle, TypeOK
<1>20. CASE UNCHANGED vars
  BY <1>20 DEF vars, TypeOK
<1> QED
  BY <1>1, <1>2, <1>3, <1>4, <1>5, <1>6, <1>7, <1>8, <1>9, <1>10, <1>11, <1>12, <1>13,
     <1>14, <1>15, <1>16, <1>17, <1>18, <1>19, <1>20
  DEF Next, EngineAnswers, EngineWorks, MonitorAnswers, Evaluate, SubmitReturns

(***************************************************************************)
(* Every variable keeps its type; in particular recent_signals_ms never    *)
(* holds more than signals_per_minute entries.                             *)
(***************************************************************************)
THEOREM TypeCorrect == Spec => []TypeOK
BY InitTypeOK, NextTypeOK, PTL DEF Spec

-----------------------------------------------------------------------------
(* active_cycles and `submitted` describe the same cycles.                 *)

\* Both records are empty at the start.
LEMMA InitBookkeeping == Init => CycleBookkeeping
BY DEF Init, CycleBookkeeping, Ledger!OnePerPair

\* Reconciliations, submissions, answers and crashes keep the two records together.
LEMMA NextBookkeeping ==
  TypeOK /\ CycleBookkeeping /\ [Next]_vars => CycleBookkeeping'
<1> SUFFICES ASSUME TypeOK, CycleBookkeeping, [Next]_vars PROVE CycleBookkeeping'
  OBVIOUS
<1> USE DEF serviceVars, circuitVars, monitorVars, engineVars, worldVars,
            CycleBookkeeping, Ledger!OnePerPair, Ledger!SamePair
<1>1. CASE UNCHANGED <<pc, request, activeCycles, submitted>>
  BY <1>1
<1>2. CASE Crash
  BY <1>2 DEF Crash
<1>3. CASE pc' # "awaiting" /\ UNCHANGED <<activeCycles, submitted>>
  BY <1>3
<1>4. ASSUME NEW listed \in SUBSET DOMAIN executions, Reconcile(listed)
      PROVE  CycleBookkeeping'
  <2> DEFINE cleared == {s \in submitted \intersect listed : IsTerminal(executions[s])}
  <2>1. /\ submitted' = submitted \ cleared
        /\ activeCycles' = activeCycles \ {Pair(s) : s \in cleared}
        /\ pc' = "discovering"
    BY <1>4 DEF Reconcile
  <2>2. cleared \subseteq submitted
    OBVIOUS
  <2> HIDE DEF cleared
  <2>3. \A s, t \in submitted : Pair(s) = Pair(t) => s = t
    BY DEF Pair
  <2>4. {Pair(s) : s \in submitted} \ {Pair(s) : s \in cleared}
          = {Pair(s) : s \in submitted \ cleared}
    BY <2>2, <2>3
  <2> QED BY <2>1, <2>4
<1>5. ASSUME NEW m \in todo, Submit(m) PROVE CycleBookkeeping'
  <2>1. PICK s \in Signals : /\ s.market = m /\ <<m, s.direction>> \notin activeCycles
                            /\ request' = s
    BY <1>5 DEF Submit, Opportunities, CanStart
  <2> QED BY <1>5, <2>1 DEF Submit, Pair
<1>6. CASE SubmitStarts
  <2>1. /\ submitted' = submitted \union {request}
        /\ activeCycles' = activeCycles \union {Pair(request)}
        /\ pc' = "scanning"
        /\ \A s \in submitted : Pair(s) # Pair(request)
    BY <1>6 DEF SubmitStarts
  <2>2. {Pair(s) : s \in submitted'} = {Pair(s) : s \in submitted} \union {Pair(request)}
    BY <2>1
  <2>3. \A s, t \in submitted' : s.market = t.market /\ s.direction = t.direction => s = t
    BY <2>1 DEF Pair
  <2> QED BY <2>1, <2>2, <2>3
<1> QED
  BY <1>1, <1>2, <1>3, <1>4, <1>5, <1>6
  DEF vars, Next, EngineAnswers, EngineWorks, MonitorAnswers, Evaluate, SubmitReturns,
      Tick, EngineAccepts, EngineRejects, EngineDeduplicates, EngineRecovers,
      EngineCompletes, EngineReleases, StartCycle, Discover, CycleFails, NoSignal,
      CannotStart, SubmitRejected, SubmitFails, EndCycle

(***************************************************************************)
(* The set of active cycles and the map of submitted signals agree in      *)
(* every state, whatever the engine answers, whichever answers are lost    *)
(* and whenever the process dies: no pair stays active without a signal    *)
(* that can release it, and none is free while a signal has it.            *)
(***************************************************************************)
THEOREM BookkeepingCorrect == Spec => []CycleBookkeeping
BY TypeCorrect, InitBookkeeping, NextBookkeeping, PTL DEF Spec

-----------------------------------------------------------------------------
(* The service knows of every open cycle it has not lost track of.         *)
(* Inductive because a request that is on the wire is the awaited one or a *)
(* lost one, and the awaited one is not open when its answer is a refusal. *)

EngineInv ==
    /\ OpenCyclesTracked
    /\ wire \subseteq Awaited \union lost
    /\ pc = "awaiting" /\ reply # "none" => request \notin wire
    /\ pc = "awaiting" /\ reply = "rejected" => ~IsOpen(request)

\* Nothing is open or on the wire at the start.
LEMMA InitEngineInv == Init => EngineInv
BY DEF Init, EngineInv, OpenCyclesTracked, KnownOpen, OpenAtEngine, IsOpen, Awaited

\* No step of the service, the engine or the world opens a cycle behind its back.
LEMMA NextEngineInv == TypeOK /\ EngineInv /\ [Next]_vars => EngineInv'
<1> SUFFICES ASSUME TypeOK, EngineInv, [Next]_vars PROVE EngineInv'
  OBVIOUS
<1> USE DEF serviceVars, circuitVars, monitorVars, engineVars, worldVars,
            EngineInv, OpenCyclesTracked, KnownOpen, OpenAtEngine, IsOpen, Awaited
<1>1. CASE UNCHANGED <<pc, request, submitted, lost, wire, reply, executions>>
  BY <1>1
<1>2. CASE Crash
  BY <1>2 DEF Crash
<1>3. ASSUME NEW s \in wire, EngineAccepts(s) PROVE EngineInv'
  <2>1. s \in lost \/ (pc = "awaiting" /\ s = request)
    OBVIOUS
  <2>2. \A t \in DOMAIN executions' :
          t # s => t \in DOMAIN executions /\ executions'[t] = executions[t]
    BY <1>3 DEF EngineAccepts, Remember
  <2> QED BY <1>3, <2>1, <2>2 DEF EngineAccepts, Answer
<1>4. ASSUME NEW s \in wire, EngineRejects(s) PROVE EngineInv'
  <2>1. s \in lost \/ (pc = "awaiting" /\ s = request)
    OBVIOUS
  <2>2. \A t \in DOMAIN executions' :
          \/ t \in DOMAIN executions /\ executions'[t] = executions[t]
          \/ t = s /\ executions'[t].state = "risk_rejected"
    BY <1>4 DEF EngineRejects, Remember, NewExecution
  <2>3. s \in DOMAIN executions' => executions'[s].state = "risk_rejected"
    BY <1>4, <2>2 DEF EngineRejects
  <2> QED BY <1>4, <2>1, <2>2, <2>3 DEF EngineRejects, Answer, OpenStates
<1>5. ASSUME NEW s \in wire, EngineDeduplicates(s) PROVE EngineInv'
  BY <1>5 DEF EngineDeduplicates, Answer
<1>6. ASSUME NEW s \in DOMAIN executions,
             EngineRecovers(s) \/ EngineCompletes(s) \/ EngineReleases(s)
      PROVE  EngineInv'
  <2>1. /\ DOMAIN executions' = DOMAIN executions
        /\ \A t \in DOMAIN executions : t # s => executions'[t] = executions[t]
        /\ UNCHANGED <<pc, request, submitted, lost, wire, reply>>
    BY <1>6 DEF EngineRecovers, EngineCompletes, EngineReleases
  <2>2. executions'[s].state \in OpenStates => executions[s].state \in OpenStates
    BY <1>6 DEF EngineRecovers, EngineCompletes, EngineReleases, OpenStates, TypeOK, Executions
  <2> QED BY <2>1, <2>2
<1>7. ASSUME NEW listed \in SUBSET DOMAIN executions, Reconcile(listed) PROVE EngineInv'
  <2>1. \A s \in submitted : IsOpen(s) => s \in submitted'
    BY <1>7 DEF Reconcile, IsTerminal, OpenStates, DoneStates
  <2> QED BY <1>7, <2>1 DEF Reconcile
<1>8. CASE pc # "awaiting" /\ pc' # "awaiting" /\ UNCHANGED <<submitted, lost, wire, reply, executions>>
  BY <1>8
<1>9. ASSUME NEW m \in todo, Submit(m) PROVE EngineInv'
  BY <1>9 DEF Submit
<1>10. CASE SubmitStarts
  BY <1>10 DEF SubmitStarts
<1>11. CASE SubmitRejected
  BY <1>11 DEF SubmitRejected
<1>12. CASE SubmitFails
  BY <1>12 DEF SubmitFails
<1> QED
  BY <1>1, <1>2, <1>3, <1>4, <1>5, <1>6, <1>7, <1>8, <1>9, <1>10, <1>11, <1>12
  DEF vars, Next, EngineAnswers, EngineWorks, MonitorAnswers, Evaluate, SubmitReturns,
      Tick, StartCycle, Discover, CycleFails, NoSignal, CannotStart, EndCycle

(***************************************************************************)
(* Every cycle that is open at the engine is in `submitted`, is the one    *)
(* whose answer the service awaits, or is one whose answer never came or   *)
(* that a crash made the process forget.                                   *)
(***************************************************************************)
THEOREM OpenCyclesAreTracked == Spec => []OpenCyclesTracked
<1>1. EngineInv => OpenCyclesTracked
  BY DEF EngineInv
<1> QED BY TypeCorrect, InitEngineInv, NextEngineInv, <1>1, PTL DEF Spec

(***************************************************************************)
(* Of the cycles this process has not lost track of the engine never holds *)
(* two open ones for one market and direction, however the engine, Monitor,*)
(* the clock and crashes interleave with the cycle.                        *)
(***************************************************************************)
THEOREM OneOpenCyclePerPair == Spec => []OneOpenCycle
<1>1. CycleBookkeeping /\ OpenCyclesTracked => OneOpenCycle
  <2> SUFFICES ASSUME CycleBookkeeping, OpenCyclesTracked,
                      NEW s \in KnownOpen, NEW t \in KnownOpen, Pair(s) = Pair(t)
               PROVE  s = t
    BY DEF OneOpenCycle, Ledger!OnePerPair, Ledger!SamePair, Pair
  <2>1. s \in submitted \union Awaited /\ t \in submitted \union Awaited
    BY DEF OpenCyclesTracked
  <2>2. \A u \in submitted : Pair(u) \in activeCycles
    BY DEF CycleBookkeeping
  <2>3. \A u, v \in submitted : Pair(u) = Pair(v) => u = v
    BY DEF CycleBookkeeping, Ledger!OnePerPair, Ledger!SamePair, Pair
  <2> QED BY <2>1, <2>2, <2>3 DEF CycleBookkeeping, Awaited
<1> QED BY BookkeepingCorrect, OpenCyclesAreTracked, <1>1, PTL

-----------------------------------------------------------------------------
(* The sliding window.  `starts` keeps the last Rate + 1 cycle times at    *)
(* which this process started a cycle; recent_signals_ms is its newest     *)
(* part, and what it no longer holds is at least a Window older than the   *)
(* current cycle.                                                          *)

RateInv ==
    /\ cycleNow <= now
    /\ Len(starts) <= Rate + 1
    /\ Len(recentSignals) <= Len(starts)
    /\ \A i \in 1 .. Len(recentSignals) :
         recentSignals[i] = starts[Len(starts) - Len(recentSignals) + i]
    /\ \A i \in 1 .. (Len(starts) - Len(recentSignals)) : cycleNow - starts[i] >= Window
    /\ RateWindow

\* The queue and the history of starts are empty.
LEMMA InitRateInv == Init => RateInv
BY LimitsAssumption DEF Init, RateInv, RateWindow

\* Popping old entries keeps the queue the newest part of the starts.
LEMMA PruneKeepsRateInv ==
  ASSUME TypeOK, RateInv, recentSignals' = Pruned(recentSignals, cycleNow),
         UNCHANGED <<now, cycleNow, starts>>
  PROVE  RateInv'
<1> DEFINE q == recentSignals
           p == Pruned(recentSignals, cycleNow)
           k == Len(q) - Len(p)
           h == Len(starts) - Len(q)
<1>1. /\ q \in Seq(Times) /\ starts \in Seq(Times) /\ cycleNow \in Times
      /\ \A i \in 1 .. Len(starts) : starts[i] \in Times
  BY DEF TypeOK
<1>2. /\ p \in Seq(Times) /\ Len(p) <= Len(q)
      /\ \A i \in 1 .. Len(p) : p[i] = q[k + i]
      /\ \A i \in 1 .. k : cycleNow - q[i] >= Window
  BY <1>1, PrunedIsSuffix
<1>3. /\ Len(p) \in Nat /\ Len(q) \in Nat /\ Len(starts) \in Nat
      /\ h \in Nat /\ k \in Nat /\ h + k = Len(starts) - Len(p) /\ k + Len(p) = Len(q)
      /\ \A i \in 1 .. Len(q) : q[i] = starts[h + i]
      /\ \A i \in 1 .. h : cycleNow - starts[i] >= Window
  BY <1>1, <1>2 DEF RateInv
<1>q. recentSignals' = p /\ UNCHANGED <<now, cycleNow, starts>>
  OBVIOUS
<1>r. cycleNow <= now /\ Len(starts) <= Rate + 1 /\ RateWindow
  BY DEF RateInv
<1> HIDE DEF q, p, h, k
<1>4. \A i \in 1 .. Len(p) : p[i] = starts[h + k + i]
  <2> TAKE i \in 1 .. Len(p)
  <2>1. k + i \in 1 .. Len(q)
    BY <1>2, <1>3
  <2>2. q[k + i] = starts[h + (k + i)]
    BY <2>1, <1>3
  <2> QED BY <2>2, <1>2, <1>3
<1>5. \A i \in 1 .. (h + k) : cycleNow - starts[i] >= Window
  <2> TAKE i \in 1 .. (h + k)
  <2>1. CASE i <= h
    BY <2>1, <1>3
  <2>2. CASE i > h
    <3>1. PICK j \in 1 .. k : j \in 1 .. Len(q) /\ h + j = i
      <4>1. i - h \in 1 .. k /\ i - h \in 1 .. Len(q) /\ h + (i - h) = i
        BY <2>2, <1>3
      <4> QED BY <4>1
    <3>2. q[j] = starts[i]
      BY <3>1, <1>3
    <3> QED BY <3>1, <3>2, <1>2
  <2> QED BY <2>1, <2>2, <1>3
<1>6. \A i \in 1 .. Len(p) : p[i] = starts[(Len(starts) - Len(p)) + i]
  BY <1>3, <1>4
<1>7. \A i \in 1 .. (Len(starts) - Len(p)) : cycleNow - starts[i] >= Window
  BY <1>3, <1>5
<1>8. Len(p) <= Len(starts)
  BY <1>3
<1> QED BY <1>q, <1>r, <1>6, <1>7, <1>8 DEF RateInv, RateWindow

\* A start that can_start let through comes a Window after the one Rate before.
LEMMA StartKeepsRateInv ==
  ASSUME TypeOK, RateInv, Len(recentSignals) < Rate,
         recentSignals' = Append(recentSignals, cycleNow),
         starts' = Newest(Append(starts, cycleNow)),
         UNCHANGED <<now, cycleNow>>
  PROVE  RateInv'
<1> DEFINE q == recentSignals
           all == Append(starts, cycleNow)
           h == Len(starts)
           r == Len(q)
<1>1. /\ q \in Seq(Times) /\ starts \in Seq(Times) /\ cycleNow \in Times
      /\ cycleNow \in Int /\ Rate \in Nat \ {0} /\ Window \in Int
      /\ \A i \in 1 .. h : starts[i] \in Int
  <2>1. q \in Seq(Times) /\ starts \in Seq(Times) /\ cycleNow \in Times
    BY DEF TypeOK
  <2>2. \A i \in 1 .. h : starts[i] \in Times
    BY <2>1, ElementOfSeq
  <2> QED BY <2>1, <2>2, TimesAreNumbers
<1>2. /\ h \in Nat /\ r \in Nat /\ r <= h /\ h <= Rate + 1 /\ r < Rate
      /\ \A i \in 1 .. r : q[i] = starts[h - r + i]
      /\ \A i \in 1 .. (h - r) : cycleNow - starts[i] >= Window
      /\ \A i \in DOMAIN starts : i + Rate \in DOMAIN starts => starts[i + Rate] - starts[i] >= Window
  BY <1>1 DEF RateInv, RateWindow
<1>3. /\ all \in Seq(Times) /\ Len(all) = h + 1 /\ all[h + 1] = cycleNow
      /\ \A i \in 1 .. h : all[i] = starts[i]
  BY <1>1
<1>4. /\ recentSignals' = Append(q, cycleNow) /\ Len(Append(q, cycleNow)) = r + 1
      /\ Append(q, cycleNow)[r + 1] = cycleNow
      /\ \A i \in 1 .. r : Append(q, cycleNow)[i] = q[i]
  BY <1>1
<1>5. h >= Rate => cycleNow - all[h + 1 - Rate] >= Window
  <2> SUFFICES ASSUME h >= Rate PROVE cycleNow - all[h + 1 - Rate] >= Window
    OBVIOUS
  <2>1. h + 1 - Rate \in 1 .. (h - r) /\ h + 1 - Rate \in 1 .. h
    BY <1>1, <1>2
  <2> QED BY <2>1, <1>2, <1>3
<1>n. /\ h \in Nat /\ r \in Nat /\ Rate \in Nat /\ Rate >= 1 /\ r < Rate /\ r <= h /\ h <= Rate + 1
  BY <1>1, <1>2
<1>f. /\ recentSignals' = Append(q, cycleNow)
      /\ starts' = IF Len(all) > Rate + 1 THEN Tail(all) ELSE all
      /\ UNCHANGED <<now, cycleNow>> /\ cycleNow <= now
  BY DEF RateInv, Newest
<1>t. all # <<>> => Len(Tail(all)) = Len(all) - 1 /\ \A i \in 1 .. Len(Tail(all)) : Tail(all)[i] = all[i + 1]
  BY <1>3, HeadTailProperties
<1> HIDE DEF all, q, h, r
<1>g. cycleNow - cycleNow = 0
  BY <1>1
<1>6. CASE h + 1 <= Rate + 1
  <2>1. starts' = all
    BY <1>6, <1>3, <1>f, <1>n
  <2>2. \A i \in 1 .. (r + 1) : Append(q, cycleNow)[i] = all[(h + 1) - (r + 1) + i]
    <3> TAKE i \in 1 .. (r + 1)
    <3>1. CASE i = r + 1
      BY <3>1, <1>2, <1>3, <1>4
    <3>2. CASE i \in 1 .. r
      <4>1. q[i] = starts[h - r + i] /\ h - r + i \in 1 .. h
        BY <3>2, <1>2
      <4>2. (h + 1) - (r + 1) + i = h - r + i
        BY <1>2
      <4> QED BY <4>1, <4>2, <3>2, <1>3, <1>4
    <3>3. i = r + 1 \/ i \in 1 .. r
      BY <1>n
    <3> QED BY <3>1, <3>2, <3>3
  <2>3. \A i \in 1 .. ((h + 1) - (r + 1)) : cycleNow - all[i] >= Window
    BY <1>2, <1>3
  <2>4. \A i \in 1 .. (h + 1) : i + Rate \in 1 .. (h + 1) => all[i + Rate] - all[i] >= Window
    <3> SUFFICES ASSUME NEW i \in 1 .. (h + 1), i + Rate \in 1 .. (h + 1)
                 PROVE  all[i + Rate] - all[i] >= Window
      OBVIOUS
    <3>1. i = 1 /\ i + Rate = h + 1 /\ h + 1 - Rate = i /\ h >= Rate
      BY <1>6, <1>1, <1>2
    <3> QED BY <3>1, <1>3, <1>5
  <2>5. DOMAIN all = 1 .. (h + 1)
    BY <1>3
  <2>6. Len(recentSignals') = r + 1 /\ Len(starts') = h + 1 /\ r + 1 <= h + 1 /\ h + 1 <= Rate + 1
    BY <2>1, <1>3, <1>4, <1>6, <1>n
  <2> QED BY <2>1, <2>2, <2>3, <2>4, <2>5, <2>6, <1>f, <1>4 DEF RateInv, RateWindow
<1>7. CASE h + 1 > Rate + 1
  <2> DEFINE rest == Tail(all)
  <2>1. starts' = rest
    BY <1>7, <1>3, <1>f, <1>n
  <2>2. /\ rest \in Seq(Times) /\ Len(rest) = h /\ DOMAIN rest = 1 .. h /\ h = Rate + 1
        /\ \A i \in 1 .. h : rest[i] = all[i + 1]
    <3>1. all # <<>> /\ h = Rate + 1
      BY <1>1, <1>2, <1>3, <1>7
    <3>2. Tail(all) \in Seq(Times) /\ Len(Tail(all)) = h
      BY <1>t, <3>1, <1>2, <1>3
    <3> QED BY <1>t, <3>1, <3>2
  <2> HIDE DEF rest
  <2>3. \A i \in 1 .. (r + 1) : Append(q, cycleNow)[i] = rest[h - (r + 1) + i]
    <3> TAKE i \in 1 .. (r + 1)
    <3>1. h - (r + 1) + i \in 1 .. h /\ (h - (r + 1) + i) + 1 = h - r + i
      BY <1>n, <2>2
    <3>2. rest[h - (r + 1) + i] = all[h - r + i]
      BY <3>1, <2>2
    <3>3. CASE i = r + 1
      BY <3>2, <3>3, <1>2, <1>3, <1>4
    <3>4. CASE i \in 1 .. r
      <4>1. q[i] = starts[h - r + i] /\ h - r + i \in 1 .. h
        BY <3>4, <1>2
      <4> QED BY <4>1, <3>2, <3>4, <1>3, <1>4
    <3>5. i = r + 1 \/ i \in 1 .. r
      BY <1>n
    <3> QED BY <3>3, <3>4, <3>5
  <2>4. \A i \in 1 .. (h - (r + 1)) : cycleNow - rest[i] >= Window
    <3> TAKE i \in 1 .. (h - (r + 1))
    <3>1. i + 1 \in 1 .. (h - r) /\ i \in 1 .. h /\ i + 1 \in 1 .. h
      BY <1>n
    <3> QED BY <3>1, <1>2, <1>3, <2>2
  <2>5. \A i \in 1 .. h : i + Rate \in 1 .. h => rest[i + Rate] - rest[i] >= Window
    <3> SUFFICES ASSUME NEW i \in 1 .. h, i + Rate \in 1 .. h
                 PROVE  rest[i + Rate] - rest[i] >= Window
      OBVIOUS
    <3>1. i = 1 /\ i + Rate = h /\ h + 1 - Rate = 2 /\ h >= Rate
      BY <1>1, <2>2
    <3>2. rest[i + Rate] = all[h + 1] /\ rest[i] = all[2]
      BY <3>1, <2>2, <1>2
    <3> QED BY <3>1, <3>2, <1>3, <1>5
  <2>6. Len(recentSignals') = r + 1 /\ Len(starts') = h /\ r + 1 <= h /\ h <= Rate + 1
    BY <2>1, <2>2, <1>4, <1>n
  <2> QED BY <2>1, <2>2, <2>3, <2>4, <2>5, <2>6, <1>f, <1>4 DEF RateInv, RateWindow
<1> QED BY <1>1, <1>2, <1>6, <1>7

\* Every step keeps the queue the newest part of the starts, and the window.
LEMMA NextRateInv == TypeOK /\ RateInv /\ [Next]_vars => RateInv'
<1> SUFFICES ASSUME TypeOK, RateInv, [Next]_vars PROVE RateInv'
  OBVIOUS
<1> USE DEF serviceVars, circuitVars, monitorVars, engineVars, worldVars
<1>1. CASE UNCHANGED <<now, cycleNow, recentSignals, starts>>
  BY <1>1 DEF RateInv, RateWindow
<1>2. CASE Tick
  <2>1. now' = now + 1 /\ now \in Int /\ cycleNow \in Int
    BY <1>2, LimitsAssumption DEF Tick, TypeOK, Times
  <2> QED BY <1>2, <2>1 DEF Tick, RateInv, RateWindow
<1>3. CASE Crash
  <2>1. /\ now' = now /\ now >= 0 /\ cycleNow' = 0
        /\ starts' = <<>> /\ recentSignals' = <<>>
    BY <1>3, LimitsAssumption DEF Crash, TypeOK, Times
  <2> QED BY <2>1, LimitsAssumption DEF RateInv, RateWindow
<1>4. CASE StartCycle
  <2>1. /\ cycleNow' = now /\ now' = now /\ cycleNow <= now
        /\ UNCHANGED <<recentSignals, starts>>
    BY <1>4 DEF StartCycle, RateInv
  <2>2. /\ now \in Int /\ cycleNow \in Int /\ Window \in Int
        /\ \A i \in 1 .. Len(starts) : starts[i] \in Int
        /\ Len(starts) \in Nat /\ Len(recentSignals) \in Nat
    <3>1. /\ now \in Times /\ cycleNow \in Times
          /\ starts \in Seq(Times) /\ recentSignals \in Seq(Times)
      BY DEF TypeOK
    <3>2. \A i \in 1 .. Len(starts) : starts[i] \in Times
      BY <3>1, ElementOfSeq
    <3> QED BY <3>1, <3>2, TimesAreNumbers
  <2>3. \A i \in 1 .. (Len(starts) - Len(recentSignals)) : now - starts[i] >= Window
    <3> TAKE i \in 1 .. (Len(starts) - Len(recentSignals))
    <3>1. cycleNow - starts[i] >= Window
      BY DEF RateInv
    <3>2. starts[i] \in Int
      BY <2>2
    <3> QED BY <3>1, <3>2, <2>1, <2>2
  <2> QED BY <2>1, <2>2, <2>3 DEF RateInv, RateWindow
<1>5. ASSUME NEW m \in todo, CannotStart(m) \/ Submit(m) PROVE RateInv'
  BY <1>5, PruneKeepsRateInv DEF CannotStart, Submit
<1>6. CASE SubmitStarts
  BY <1>6, StartKeepsRateInv DEF SubmitStarts, TypeOK
<1> QED
  BY <1>1, <1>2, <1>3, <1>4, <1>5, <1>6
  DEF vars, Next, EngineAnswers, EngineWorks, MonitorAnswers, Evaluate, SubmitReturns,
      EngineAccepts, EngineRejects, EngineDeduplicates, EngineRecovers, EngineCompletes,
      EngineReleases, Reconcile, Discover, CycleFails, NoSignal, SubmitRejected,
      SubmitFails, EndCycle

(***************************************************************************)
(* Among any Rate + 1 consecutive starts of one process the first and the  *)
(* last are a Window of cycle times apart, for every rate and window: the  *)
(* pruning in can_start never makes room too early.                        *)
(***************************************************************************)
THEOREM RateWindowHolds == Spec => []RateWindow
<1>1. RateInv => RateWindow
  BY DEF RateInv
<1> QED BY TypeCorrect, InitRateInv, NextRateInv, <1>1, PTL DEF Spec

-----------------------------------------------------------------------------
(***************************************************************************)
(* What check_risk keeps: the limits on the capital that is tied up, the   *)
(* ledger of the open cycles, and the limit on the losses of a day.        *)
(***************************************************************************)

\* Capital is a sum over the subsets of any finite set of signals.
LEMMA CapitalIsSum ==
  ASSUME NEW U \in SUBSET Signals, IsFiniteSet(U)
  PROVE  \E w \in [U -> Int], g \in [SUBSET U -> Int] :
            /\ IsSum(g, U, w)
            /\ \A s \in U : w[s] = s.size /\ w[s] >= 0
            /\ \A T \in SUBSET U : Capital(T) = g[T]
<1> DEFINE w == [s \in U |-> s.size]
<1>1. w \in [U -> Int] /\ \A s \in U : w[s] = s.size /\ w[s] >= 0
  <2>1. \A s \in U : s.size \in Nat
    BY LimitsAssumption DEF Signals
  <2> QED BY <2>1
<1> HIDE DEF w
<1>2. PICK g \in [SUBSET U -> Int] : IsSum(g, U, w)
  BY <1>1, SumExists
<1>3. ASSUME NEW T \in SUBSET U PROVE Capital(T) = g[T]
  <2> DEFINE Step(f, t) == IF t = {} THEN 0
                           ELSE (CHOOSE x \in t : TRUE).size + f[t \ {CHOOSE x \in t : TRUE}]
             h == CHOOSE f : f = [t \in SUBSET T |-> Step(f, t)]
             gT == [t \in SUBSET T |-> g[t]]
  <2>1. Capital(T) = h[T]
    BY DEF Capital, MapThenSumSet, MapThenFoldSet
  <2>2. gT = [t \in SUBSET T |-> Step(gT, t)]
    <3> SUFFICES ASSUME NEW t \in SUBSET T PROVE g[t] = Step(gT, t)
      OBVIOUS
    <3>1. CASE t = {}
      BY <3>1, <1>2, SumEmpty
    <3>2. CASE t # {}
      <4>1. t \in SUBSET U /\ Chosen(t) \in U /\ t \ {Chosen(t)} \in SUBSET T
        BY <3>2, ChosenIsElement
      <4>2. g[t] = w[Chosen(t)] + g[t \ {Chosen(t)}]
        BY <1>2, <3>2, <4>1, SumTakes
      <4>3. w[Chosen(t)] = Chosen(t).size
        BY <1>1, <4>1
      <4> QED BY <3>2, <4>1, <4>2, <4>3 DEF Chosen
    <3> QED BY <3>1, <3>2
  <2> HIDE DEF gT
  <2>3. h = [t \in SUBSET T |-> Step(h, t)]
    BY <2>2, Zenon
  <2> HIDE DEF h
  <2>4. ASSUME NEW t \in SUBSET T PROVE h[t] = SumStep(h, w, t)
    <3>1. h[t] = Step(h, t)
      BY <2>3, Zenon
    <3>2. t # {} => w[Chosen(t)] = Chosen(t).size
      BY <1>1, ChosenIsElement
    <3> QED BY <3>1, <3>2 DEF Chosen, SumStep
  <2>5. g[T] = h[T]
    <3> HIDE DEF Step
    <3> QED BY <1>2, <2>4, SumUnique
  <2> QED BY <2>1, <2>5
<1> QED BY <1>1, <1>2, <1>3

\* The capital of finitely many signals is a natural number, and nothing when there
\* are none.
LEMMA CapitalType ==
  ASSUME NEW U \in SUBSET Signals, IsFiniteSet(U)
  PROVE  Capital(U) \in Nat /\ Capital({}) = 0
<1>1. PICK w \in [U -> Int], g \in [SUBSET U -> Int] :
            /\ IsSum(g, U, w)
            /\ \A s \in U : w[s] = s.size /\ w[s] >= 0
            /\ \A T \in SUBSET U : Capital(T) = g[T]
  BY CapitalIsSum
<1>2. g[U] >= 0 /\ g[{}] = 0
  BY <1>1, SumOfNaturals, SumEmpty
<1>3. g[U] \in Int
  OBVIOUS
<1> QED BY <1>1, <1>2, <1>3

\* One signal more ties up its size.
LEMMA CapitalAdds ==
  ASSUME NEW S \in SUBSET Signals, IsFiniteSet(S), NEW s \in Signals, s \notin S
  PROVE  Capital(S \union {s}) = Capital(S) + s.size
<1> DEFINE U == S \union {s}
<1>1. U \in SUBSET Signals /\ IsFiniteSet(U) /\ S \in SUBSET U /\ s \in U \ S
  BY FS_AddElement
<1> HIDE DEF U
<1>2. PICK w \in [U -> Int], g \in [SUBSET U -> Int] :
            /\ IsSum(g, U, w)
            /\ \A t \in U : w[t] = t.size /\ w[t] >= 0
            /\ \A T \in SUBSET U : Capital(T) = g[T]
  BY <1>1, CapitalIsSum
<1>3. AddsUp(g, U, w)
  BY <1>1, <1>2, SumAdds
<1>4. g[S \union {s}] = g[S] + w[s]
  BY <1>1, <1>3 DEF AddsUp
<1>5. Capital(U) = g[U] /\ Capital(S) = g[S] /\ w[s] = s.size
  BY <1>1, <1>2
<1> QED BY <1>4, <1>5 DEF U

\* Fewer signals never tie up more.
LEMMA CapitalGrows ==
  ASSUME NEW U \in SUBSET Signals, IsFiniteSet(U), NEW T \in SUBSET U
  PROVE  Capital(T) <= Capital(U)
<1>1. PICK w \in [U -> Int], g \in [SUBSET U -> Int] :
            /\ IsSum(g, U, w)
            /\ \A s \in U : w[s] = s.size /\ w[s] >= 0
            /\ \A V \in SUBSET U : Capital(V) = g[V]
  BY CapitalIsSum
<1>2. U \in SUBSET U /\ \A x \in U \ T : w[x] >= 0
  BY <1>1
<1>3. g[T] <= g[U]
  BY <1>1, <1>2, SumGrows
<1> QED BY <1>1, <1>2, <1>3

\* The ledger and the cycle count capital alike.
LEMMA LedgerCapital == \A S : Ledger!Capital(S) = Capital(S)
BY DEF Ledger!Capital, Capital, MapThenSumSet, MapThenFoldSet, Ledger!MapThenSumSet, Ledger!MapThenFoldSet

-----------------------------------------------------------------------------
(* The limits of check_risk.                                               *)

OfMarket(S, m) == {t \in S : t.market = m}
OfUnderlying(S, u) == {t \in S : UnderlyingOf[t.market] = u}

\* WithinLimits, said with the sets that check_risk adds up.
LEMMA LimitsMeaning ==
  ASSUME NEW S
  PROVE  Ledger!WithinLimits(S) <=>
           /\ \A s \in S :
                /\ s.size <= MaxPerCycle
                /\ Capital(OfMarket(S, s.market)) <= MaxPerMarket
                /\ Capital(OfUnderlying(S, UnderlyingOf[s.market])) <= MaxPerUnderlying
           /\ Capital(S) <= MaxAggregate
BY LedgerCapital DEF Ledger!WithinLimits, OfMarket, OfUnderlying

\* Cycles that end never break a limit.
LEMMA LimitsShrink ==
  ASSUME NEW S \in SUBSET Signals, IsFiniteSet(S), Ledger!WithinLimits(S),
         NEW T \in SUBSET S
  PROVE  Ledger!WithinLimits(T)
<1>1. \A X \in SUBSET S : /\ IsFiniteSet(X) /\ X \in SUBSET Signals
                          /\ Capital(X) \in Nat
                          /\ \A Y \in SUBSET X : Capital(Y) <= Capital(X) /\ Capital(Y) \in Nat
  <2> TAKE X \in SUBSET S
  <2>1. IsFiniteSet(X) /\ X \in SUBSET Signals /\ \A Y \in SUBSET X : IsFiniteSet(Y) /\ Y \in SUBSET Signals
    BY FS_Subset
  <2> QED BY <2>1, CapitalType, CapitalGrows
<1>2. {MaxPerMarket, MaxPerUnderlying, MaxAggregate} \subseteq Int
  BY LimitsAssumption
<1>3. Capital(T) <= MaxAggregate
  <2>1. Capital(S) <= MaxAggregate /\ Capital(T) <= Capital(S)
    BY <1>1, LimitsMeaning
  <2> QED BY <2>1, <1>1, <1>2
<1>4. ASSUME NEW s \in T
      PROVE  /\ s.size <= MaxPerCycle
             /\ Capital(OfMarket(T, s.market)) <= MaxPerMarket
             /\ Capital(OfUnderlying(T, UnderlyingOf[s.market])) <= MaxPerUnderlying
  <2> DEFINE M(X) == OfMarket(X, s.market)
             U(X) == OfUnderlying(X, UnderlyingOf[s.market])
  <2>1. M(T) \in SUBSET M(S) /\ M(S) \in SUBSET S /\ U(T) \in SUBSET U(S) /\ U(S) \in SUBSET S
    BY DEF OfMarket, OfUnderlying
  <2>2. Capital(M(S)) <= MaxPerMarket /\ Capital(U(S)) <= MaxPerUnderlying /\ s.size <= MaxPerCycle
    BY LimitsMeaning
  <2> HIDE DEF M, U
  <2>3. Capital(M(T)) <= MaxPerMarket /\ Capital(U(T)) <= MaxPerUnderlying
    BY <1>1, <1>2, <2>1, <2>2
  <2> QED BY <2>2, <2>3 DEF M, U
<1> QED BY <1>3, <1>4, LimitsMeaning

\* What check_risk lets through fits into every limit with what is submitted.
LEMMA RiskCheckSuffices ==
  ASSUME NEW S \in SUBSET Signals, IsFiniteSet(S), Ledger!WithinLimits(S),
         NEW s \in Signals, s \notin S,
         s.size <= MaxPerCycle,
         Exposure(OfMarket(S, s.market), s) <= MaxPerMarket,
         Exposure(OfUnderlying(S, UnderlyingOf[s.market]), s) <= MaxPerUnderlying,
         Exposure(S, s) <= MaxAggregate
  PROVE  Ledger!WithinLimits(S \union {s})
<1> DEFINE U == S \union {s}
<1>1. \A X \in SUBSET S : Capital(X \union {s}) = Exposure(X, s)
  <2> TAKE X \in SUBSET S
  <2>1. IsFiniteSet(X) /\ X \in SUBSET Signals /\ s \notin X
    BY FS_Subset
  <2> QED BY <2>1, CapitalAdds DEF Exposure
<1>2. Capital(U) <= MaxAggregate
  BY <1>1
<1>3. ASSUME NEW t \in U
      PROVE  /\ t.size <= MaxPerCycle
             /\ Capital(OfMarket(U, t.market)) <= MaxPerMarket
             /\ Capital(OfUnderlying(U, UnderlyingOf[t.market])) <= MaxPerUnderlying
  <2>1. t.size <= MaxPerCycle
    BY LimitsMeaning
  <2>2. Capital(OfMarket(U, t.market)) <= MaxPerMarket
    <3> DEFINE M == OfMarket(S, t.market)
    <3>1. CASE t.market = s.market
      <4>1. OfMarket(U, t.market) = M \union {s} /\ M \in SUBSET S
        BY <3>1 DEF OfMarket
      <4>2. Capital(M \union {s}) = Exposure(M, s)
        BY <1>1, <4>1
      <4>3. M = OfMarket(S, s.market)
        BY <3>1
      <4> HIDE DEF M, U
      <4>4. Capital(OfMarket(U, t.market)) = Exposure(OfMarket(S, s.market), s)
        BY <4>1, <4>2, <4>3, Zenon
      <4> QED BY <4>4
    <3>2. CASE t.market # s.market
      <4>1. OfMarket(U, t.market) = M /\ t \in S
        BY <3>2 DEF OfMarket
      <4>2. Capital(M) <= MaxPerMarket
        BY <4>1, LimitsMeaning
      <4> HIDE DEF M, U
      <4> QED BY <4>1, <4>2, Zenon
    <3> QED BY <3>1, <3>2
  <2>3. Capital(OfUnderlying(U, UnderlyingOf[t.market])) <= MaxPerUnderlying
    <3> DEFINE M == OfUnderlying(S, UnderlyingOf[t.market])
    <3>1. CASE UnderlyingOf[t.market] = UnderlyingOf[s.market]
      <4>1. OfUnderlying(U, UnderlyingOf[t.market]) = M \union {s} /\ M \in SUBSET S
        BY <3>1 DEF OfUnderlying
      <4>2. Capital(M \union {s}) = Exposure(M, s)
        BY <1>1, <4>1
      <4>3. M = OfUnderlying(S, UnderlyingOf[s.market])
        BY <3>1
      <4> HIDE DEF M, U
      <4>4. Capital(OfUnderlying(U, UnderlyingOf[t.market]))
              = Exposure(OfUnderlying(S, UnderlyingOf[s.market]), s)
        BY <4>1, <4>2, <4>3, Zenon
      <4> QED BY <4>4
    <3>2. CASE UnderlyingOf[t.market] # UnderlyingOf[s.market]
      <4>1. OfUnderlying(U, UnderlyingOf[t.market]) = M /\ t \in S
        BY <3>2 DEF OfUnderlying
      <4>2. Capital(M) <= MaxPerUnderlying
        BY <4>1, LimitsMeaning
      <4> HIDE DEF M, U
      <4> QED BY <4>1, <4>2, Zenon
    <3> QED BY <3>1, <3>2
  <2> QED BY <2>1, <2>2, <2>3
<1> QED BY <1>2, <1>3, LimitsMeaning

\* What is submitted is finite, and with the awaited request within the limits.
ExposureInv == IsFiniteSet(submitted) /\ ExposureWithinLimits

\* Nothing is submitted at the start.
LEMMA InitExposureInv == Init => ExposureInv
<1> SUFFICES ASSUME Init PROVE ExposureInv
  OBVIOUS
<1>1. submitted = {} /\ Awaited = {} /\ IsFiniteSet({})
  BY FS_EmptySet DEF Init, Awaited
<1>2. Capital({}) = 0 /\ MaxAggregate \in Nat
  BY FS_EmptySet, CapitalType, LimitsAssumption
<1>3. Ledger!WithinLimits({})
  BY <1>2, LimitsMeaning
<1> QED BY <1>1, <1>3 DEF ExposureInv, ExposureWithinLimits

\* check_risk adds up before the submission what is recorded after its answer: every
\* step between the two leaves the sum as it was, or smaller.
LEMMA NextExposureInv ==
  TypeOK /\ CycleBookkeeping /\ ExposureInv /\ [Next]_vars => ExposureInv'
<1> SUFFICES ASSUME TypeOK, CycleBookkeeping, ExposureInv, [Next]_vars PROVE ExposureInv'
  OBVIOUS
<1> USE DEF serviceVars, circuitVars, monitorVars, engineVars, worldVars
<1>1. /\ submitted \in SUBSET Signals /\ IsFiniteSet(submitted)
      /\ (submitted \union Awaited) \in SUBSET Signals
      /\ IsFiniteSet(submitted \union Awaited)
      /\ Ledger!WithinLimits(submitted \union Awaited)
  <2>1. submitted \in SUBSET Signals /\ (pc = "awaiting" => request \in Signals)
    BY DEF TypeOK
  <2>2. IsFiniteSet(submitted) /\ Ledger!WithinLimits(submitted \union Awaited)
    BY DEF ExposureInv, ExposureWithinLimits
  <2>3. Awaited \in SUBSET Signals /\ IsFiniteSet(Awaited)
    BY <2>1, FS_Singleton, FS_EmptySet DEF Awaited
  <2>4. IsFiniteSet(submitted \union Awaited)
    BY <2>2, <2>3, FS_Union
  <2> QED BY <2>1, <2>2, <2>3, <2>4
<1>2. ASSUME submitted' \union Awaited' \subseteq submitted \union Awaited
      PROVE  ExposureInv'
  <2>1. IsFiniteSet(submitted')
    BY <1>1, <1>2, FS_Subset
  <2>2. Ledger!WithinLimits(submitted' \union Awaited')
    BY <1>1, <1>2, LimitsShrink
  <2> QED BY <2>1, <2>2 DEF ExposureInv, ExposureWithinLimits
<1>3. CASE UNCHANGED <<pc, request, submitted>>
  BY <1>2, <1>3 DEF Awaited
<1>4. CASE pc' # "awaiting" /\ submitted' \subseteq submitted
  BY <1>2, <1>4 DEF Awaited
<1>5. ASSUME NEW m \in todo, Submit(m) PROVE ExposureInv'
  <2>1. PICK s \in Signals : RiskAllows(s) /\ CanStart(m, s.direction, cycleNow) /\ s.market = m
                             /\ request' = s
    BY <1>5 DEF Submit, Opportunities
  <2>2. submitted' = submitted /\ pc = "scanning" /\ pc' = "awaiting"
    BY <1>5 DEF Submit
  <2>3. s \notin submitted
    BY <2>1 DEF CanStart, CycleBookkeeping, Pair
  <2>4. submitted \union Awaited = submitted /\ submitted' \union Awaited' = submitted \union {s}
    BY <2>1, <2>2 DEF Awaited
  <2>5. Ledger!WithinLimits(submitted \union {s})
    <3>1. Ledger!WithinLimits(submitted)
      BY <1>1, <2>4, Zenon
    <3>2. /\ s.size <= MaxPerCycle
          /\ Exposure(OfMarket(submitted, s.market), s) <= MaxPerMarket
          /\ Exposure(OfUnderlying(submitted, UnderlyingOf[s.market]), s) <= MaxPerUnderlying
          /\ Exposure(submitted, s) <= MaxAggregate
      BY <2>1 DEF RiskAllows, OfMarket, OfUnderlying
    <3> QED BY <1>1, <2>3, <3>1, <3>2, RiskCheckSuffices
  <2>6. Ledger!WithinLimits(submitted' \union Awaited')
    BY <2>4, <2>5, Zenon
  <2> QED BY <1>1, <2>2, <2>6 DEF ExposureInv, ExposureWithinLimits
<1>6. CASE SubmitStarts
  <2>1. /\ pc = "awaiting" /\ pc' = "scanning"
        /\ submitted' = submitted \union {request}
    BY <1>6 DEF SubmitStarts
  <2> QED BY <1>2, <2>1 DEF Awaited
<1>7. ASSUME NEW listed \in SUBSET DOMAIN executions, Reconcile(listed) PROVE ExposureInv'
  BY <1>4, <1>7 DEF Reconcile
<1>8. CASE Crash
  BY <1>4, <1>8 DEF Crash
<1>9. CASE SubmitRejected \/ SubmitFails
  BY <1>4, <1>9 DEF SubmitRejected, SubmitFails
<1> QED
  BY <1>3, <1>4, <1>5, <1>6, <1>7, <1>8, <1>9
  DEF vars, Next, EngineAnswers, EngineWorks, MonitorAnswers, Evaluate, SubmitReturns,
      Tick, EngineAccepts, EngineRejects, EngineDeduplicates, EngineRecovers,
      EngineCompletes, EngineReleases, StartCycle, Discover, CycleFails, NoSignal,
      CannotStart, EndCycle

(***************************************************************************)
(* The capital of the submitted signals and of the awaited one stays       *)
(* within the limits per cycle, market, underlying and in total, for every *)
(* value of the limits, although check_risk adds it up from `submitted`    *)
(* before the request and the answer is recorded after an await.           *)
(***************************************************************************)
THEOREM ExposureHolds == Spec => []ExposureWithinLimits
<1>1. ExposureInv => ExposureWithinLimits
  BY DEF ExposureInv
<1> QED
  BY TypeCorrect, BookkeepingCorrect, InitExposureInv, NextExposureInv, <1>1, PTL DEF Spec

-----------------------------------------------------------------------------
(* The cycles open at the engine keep the promises of SignalLedger.        *)

\* One cycle opens at a time: the one the engine accepts, or a lost one that the
\* answer to a repeated submission brings back.
LEMMA OneOpensAtATime ==
  ASSUME TypeOK, [Next]_vars
  PROVE  \/ KnownOpen' \subseteq KnownOpen
         \/ \E s \in Signals : s \notin KnownOpen /\ KnownOpen' = KnownOpen \union {s}
<1> USE DEF serviceVars, circuitVars, monitorVars, engineVars, worldVars,
            KnownOpen, OpenAtEngine, IsOpen
<1>1. CASE UNCHANGED <<lost, executions>>
  BY <1>1
<1>2. CASE executions' = executions /\ lost \subseteq lost'
  BY <1>2
<1>3. ASSUME NEW s \in wire, EngineAccepts(s)
      PROVE  \/ KnownOpen' \subseteq KnownOpen
             \/ \E t \in Signals : t \notin KnownOpen /\ KnownOpen' = KnownOpen \union {t}
  <2>1. s \in Signals /\ s \notin KnownOpen /\ lost' = lost
    BY <1>3 DEF EngineAccepts, TypeOK
  <2>2. /\ DOMAIN executions' = DOMAIN executions \union {s}
        /\ executions'[s].state = "running"
        /\ \A t \in DOMAIN executions : executions'[t] = executions[t]
    BY <1>3 DEF EngineAccepts, Remember, NewExecution
  <2>3. KnownOpen' = IF s \in lost THEN KnownOpen ELSE KnownOpen \union {s}
    BY <2>1, <2>2 DEF OpenStates
  <2> QED BY <2>1, <2>3
<1>4. ASSUME NEW s \in wire, EngineRejects(s) PROVE KnownOpen' \subseteq KnownOpen
  <2>1. \A t \in DOMAIN executions' :
          \/ t \in DOMAIN executions /\ executions'[t] = executions[t]
          \/ executions'[t].state = "risk_rejected"
    BY <1>4 DEF EngineRejects, Remember, NewExecution
  <2> QED BY <1>4, <2>1 DEF EngineRejects, OpenStates
<1>5. ASSUME NEW s \in DOMAIN executions,
             EngineRecovers(s) \/ EngineCompletes(s) \/ EngineReleases(s)
      PROVE  KnownOpen' \subseteq KnownOpen
  <2>1. /\ DOMAIN executions' = DOMAIN executions /\ lost' = lost
        /\ \A t \in DOMAIN executions : t # s => executions'[t] = executions[t]
    BY <1>5 DEF EngineRecovers, EngineCompletes, EngineReleases
  <2>2. executions'[s].state \in OpenStates => executions[s].state \in OpenStates
    BY <1>5 DEF EngineRecovers, EngineCompletes, EngineReleases, OpenStates, TypeOK, Executions
  <2> QED BY <2>1, <2>2
<1>6. CASE SubmitStarts
  <2>1. request \in Signals /\ lost' = lost \ {request} /\ executions' = executions
    BY <1>6 DEF SubmitStarts, TypeOK
  <2>2. KnownOpen' = KnownOpen \/ (request \notin KnownOpen /\ KnownOpen' = KnownOpen \union {request})
    BY <2>1
  <2> QED BY <2>1, <2>2
<1> QED
  BY <1>1, <1>2, <1>3, <1>4, <1>5, <1>6
  DEF vars, Next, EngineAnswers, EngineWorks, MonitorAnswers, Evaluate, SubmitReturns,
      Tick, Crash, EngineDeduplicates, StartCycle, Reconcile, Discover, CycleFails,
      NoSignal, CannotStart, Submit, SubmitRejected, SubmitFails, EndCycle

\* What the service tracks is within the limits, so what is open is.
LEMMA OpenWithinLimits ==
  ASSUME TypeOK, ExposureInv, OpenCyclesTracked
  PROVE  Ledger!WithinLimits(KnownOpen)
<1>1. submitted \in SUBSET Signals /\ (pc = "awaiting" => request \in Signals)
  BY DEF TypeOK
<1>2. IsFiniteSet(submitted) /\ Ledger!WithinLimits(submitted \union Awaited)
  BY DEF ExposureInv, ExposureWithinLimits
<1>3. Awaited \in SUBSET Signals /\ IsFiniteSet(Awaited)
  BY <1>1, FS_Singleton, FS_EmptySet DEF Awaited
<1> DEFINE Tracked == submitted \union Awaited
<1>4. Tracked \in SUBSET Signals /\ IsFiniteSet(Tracked) /\ KnownOpen \in SUBSET Tracked
  BY <1>1, <1>2, <1>3, FS_Union DEF OpenCyclesTracked
<1>5. Ledger!WithinLimits(Tracked)
  BY <1>2
<1> HIDE DEF Tracked
<1> QED BY <1>4, <1>5, LimitsShrink

\* Every step is a step of the ledger: cycles close, or one opens within the limits.
LEMMA StepsOfLedger ==
  ASSUME TypeOK, [Next]_vars, OneOpenCycle', Ledger!WithinLimits(KnownOpen)'
  PROVE  [Ledger!Next]_KnownOpen
<1>1. CASE KnownOpen' \subseteq KnownOpen
  BY <1>1 DEF Ledger!Next, Ledger!Close
<1>2. ASSUME NEW s \in Signals, s \notin KnownOpen, KnownOpen' = KnownOpen \union {s}
      PROVE  Ledger!Open(s)
  BY <1>2 DEF Ledger!Open, OneOpenCycle
<1> QED BY <1>1, <1>2, OneOpensAtATime DEF Ledger!Next

(***************************************************************************)
(* The engine's open cycles the process has not lost track of implement    *)
(* SignalLedger: every one opens as the only one of its market and         *)
(* direction and within all limits of check_risk, whatever interleaves.    *)
(***************************************************************************)
THEOREM LedgerImplemented == Spec => ImplementsLedger
<1>1. Init => Ledger!Init
  BY DEF Init, Ledger!Init, KnownOpen, OpenAtEngine
<1>2. TypeOK /\ ExposureInv /\ OpenCyclesTracked => Ledger!WithinLimits(KnownOpen)
  BY OpenWithinLimits
<1>3. TypeOK /\ OneOpenCycle' /\ Ledger!WithinLimits(KnownOpen)' /\ [Next]_vars
        => [Ledger!Next]_KnownOpen
  BY StepsOfLedger
<1>4. Spec => []ExposureInv
  BY TypeCorrect, BookkeepingCorrect, InitExposureInv, NextExposureInv, PTL DEF Spec
<1> QED
  BY <1>1, <1>2, <1>3, <1>4, TypeCorrect, OpenCyclesAreTracked, OneOpenCyclePerPair, PTL
  DEF Spec, ImplementsLedger, Ledger!Spec

-----------------------------------------------------------------------------
(* The daily loss limit.                                                   *)

LossOf(e, S) == MapThenSumSet(LAMBDA s : e[s].loss, S)

\* g[T] is what the executions in T lost together, for all T within U.
IsLossSum(g, w, e, U) ==
    /\ IsSum(g, U, w)
    /\ \A s \in U : w[s] = e[s].loss
    /\ \A T \in SUBSET U : LossOf(e, T) = g[T]

\* LossOf is a sum over the subsets of any finite set of executions.
LEMMA LossIsSum ==
  ASSUME NEW e, NEW U, IsFiniteSet(U), \A s \in U : e[s].loss \in Int
  PROVE  \E g, w : IsLossSum(g, w, e, U)
<1> DEFINE w == [s \in U |-> e[s].loss]
<1>1. w \in [U -> Int] /\ \A s \in U : w[s] = e[s].loss
  OBVIOUS
<1> HIDE DEF w
<1>2. PICK g \in [SUBSET U -> Int] : IsSum(g, U, w)
  BY <1>1, SumExists
<1>3. ASSUME NEW T \in SUBSET U PROVE LossOf(e, T) = g[T]
  <2> DEFINE Step(f, t) == IF t = {} THEN 0
                           ELSE e[CHOOSE x \in t : TRUE].loss + f[t \ {CHOOSE x \in t : TRUE}]
             h == CHOOSE f : f = [t \in SUBSET T |-> Step(f, t)]
             gT == [t \in SUBSET T |-> g[t]]
  <2>1. LossOf(e, T) = h[T]
    BY DEF LossOf, MapThenSumSet, MapThenFoldSet
  <2>2. gT = [t \in SUBSET T |-> Step(gT, t)]
    <3> SUFFICES ASSUME NEW t \in SUBSET T PROVE g[t] = Step(gT, t)
      OBVIOUS
    <3>1. CASE t = {}
      BY <3>1, <1>2, SumEmpty
    <3>2. CASE t # {}
      <4>1. t \in SUBSET U /\ Chosen(t) \in U /\ t \ {Chosen(t)} \in SUBSET T
        BY <3>2, ChosenIsElement
      <4>2. g[t] = w[Chosen(t)] + g[t \ {Chosen(t)}]
        BY <1>2, <3>2, <4>1, SumTakes
      <4>3. w[Chosen(t)] = e[Chosen(t)].loss
        BY <1>1, <4>1
      <4> QED BY <3>2, <4>1, <4>2, <4>3 DEF Chosen
    <3> QED BY <3>1, <3>2
  <2> HIDE DEF gT
  <2>3. h = [t \in SUBSET T |-> Step(h, t)]
    BY <2>2, Zenon
  <2> HIDE DEF h
  <2>4. ASSUME NEW t \in SUBSET T PROVE h[t] = SumStep(h, w, t)
    <3>1. h[t] = Step(h, t)
      BY <2>3, Zenon
    <3>2. t # {} => w[Chosen(t)] = e[Chosen(t)].loss
      BY <1>1, ChosenIsElement
    <3> QED BY <3>1, <3>2 DEF Chosen, SumStep
  <2>5. g[T] = h[T]
    <3> HIDE DEF Step
    <3> QED BY <1>2, <2>4, SumUnique
  <2> QED BY <2>1, <2>5
<1> QED BY <1>1, <1>2, <1>3 DEF IsLossSum

\* Losses compared: an execution counted later was counted before with no smaller
\* loss, or is a profit; one no longer counted was no profit.
LEMMA LossOrder ==
  ASSUME NEW e, NEW f,
         IsFiniteSet(DOMAIN e), \A s \in DOMAIN e : e[s].loss \in Int,
         IsFiniteSet(DOMAIN f), \A s \in DOMAIN f : f[s].loss \in Int,
         NEW S \in SUBSET DOMAIN e, NEW T \in SUBSET DOMAIN f,
         \A s \in T \intersect S : f[s].loss <= e[s].loss,
         \A s \in T \ S : f[s].loss <= 0,
         \A s \in S \ T : e[s].loss >= 0
  PROVE  LossOf(f, T) <= LossOf(e, S) /\ LossOf(f, T) \in Int /\ LossOf(e, S) \in Int
<1> DEFINE D == DOMAIN e
           E == DOMAIN f
<1>1. PICK g, w : IsLossSum(g, w, e, D)
  BY LossIsSum
<1>2. PICK h, v : IsLossSum(h, v, f, E)
  BY LossIsSum
<1>3. /\ S \in SUBSET D /\ T \in SUBSET E
      /\ \A s \in T \intersect S : v[s] <= w[s]
      /\ \A s \in T \ S : v[s] <= 0
      /\ \A s \in S \ T : w[s] >= 0
  BY <1>1, <1>2 DEF IsLossSum
<1>4. LossOf(e, S) = g[S] /\ LossOf(f, T) = h[T]
  BY <1>1, <1>2 DEF IsLossSum
<1>5. IsSum(g, D, w) /\ IsSum(h, E, v)
  BY <1>1, <1>2 DEF IsLossSum
<1> HIDE DEF D, E
<1>6. h[T] <= g[S] /\ h[T] \in Int /\ g[S] \in Int
  BY <1>3, <1>5, SumOrder
<1> QED BY <1>4, <1>6

\* What counts against the limit: losses of the last day before the cycle's start at c,
\* and profits whenever they came.
Counted(e, t, c) ==
    {s \in DOMAIN e : e[s].loss < 0 \/ (e[s].completedAt >= t - Day /\ e[s].completedAt < c)}

\* From Monitor's answer to the end of the cycle.
MidCycle == pc \in {"discovering", "scanning", "awaiting"}

\* What LossStopsSubmissions adds up are the losses that count.
LEMMA CountedLoss ==
  ASSUME IsFiniteSet(DOMAIN executions), \A s \in DOMAIN executions : executions[s].loss \in Int
  PROVE  LET today == {s \in DOMAIN executions : executions[s].completedAt >= now - Day
                                                 /\ executions[s].completedAt < cycleNow}
             profits == {s \in DOMAIN executions \ today : executions[s].loss < 0}
         IN NetLoss(today) + NetLoss(profits)
              = LossOf(executions, Counted(executions, now, cycleNow))
<1> DEFINE U == DOMAIN executions
           today == {s \in U : executions[s].completedAt >= now - Day
                                /\ executions[s].completedAt < cycleNow}
           profits == {s \in U \ today : executions[s].loss < 0}
<1>1. PICK g, w : IsLossSum(g, w, executions, U)
  BY LossIsSum
<1>2. \A X : NetLoss(X) = LossOf(executions, X)
  BY DEF NetLoss, LossOf, MapThenSumSet, MapThenFoldSet
<1>3. /\ today \in SUBSET U /\ profits \in SUBSET U /\ today \intersect profits = {}
      /\ today \union profits = Counted(executions, now, cycleNow)
  BY DEF Counted
<1> SUFFICES NetLoss(today) + NetLoss(profits)
               = LossOf(executions, Counted(executions, now, cycleNow))
  OBVIOUS
<1> HIDE DEF today, profits
<1>4. g[today \union profits] = g[today] + g[profits]
  <2>1. Splits(g, U)
    BY <1>1, SumSplits DEF IsLossSum
  <2> QED BY <1>3, <2>1 DEF Splits
<1>5. /\ LossOf(executions, today) = g[today] /\ LossOf(executions, profits) = g[profits]
      /\ LossOf(executions, today \union profits) = g[today \union profits]
  BY <1>1, <1>3 DEF IsLossSum
<1> QED BY <1>2, <1>3, <1>4, <1>5, Zenon

\* After a reconciliation the losses that count stay below the limit, or no request
\* goes out; open executions have lost nothing yet.
LossInv ==
    /\ IsFiniteSet(DOMAIN executions \union wire)
    /\ Cardinality(DOMAIN executions \union wire) <= MaxExecutions
    /\ cycleNow <= now
    /\ \A s \in OpenAtEngine : executions[s].loss = 0
    /\ pc = "awaiting" => ~dailyLossHalted
    /\ MidCycle /\ ~dailyLossHalted =>
         LossOf(executions, Counted(executions, now, cycleNow)) < DailyLossLimit

\* No time has passed and nothing was executed.
LEMMA InitLossInv == Init => LossInv
<1> SUFFICES ASSUME Init PROVE LossInv
  OBVIOUS
<1>1. DOMAIN executions \union wire = {} /\ IsFiniteSet({}) /\ Cardinality({}) = 0
  BY FS_EmptySet DEF Init
<1> QED BY <1>1, LimitsAssumption DEF Init, LossInv, MidCycle, OpenAtEngine, IsOpen

\* Monitor's list is complete when the limit of the request is not reached.
LEMMA ListIsComplete ==
  ASSUME NEW U, IsFiniteSet(U), ListLimit \in Nat, Cardinality(U) <= ListLimit,
         NEW listed \in SUBSET U,
         Cardinality(listed) = Min({ListLimit, Cardinality(U)})
  PROVE  listed = U
<1>1. Cardinality(U) \in Nat
  BY FS_CardinalityType
<1>2. Min({ListLimit, Cardinality(U)}) = Cardinality(U)
  BY <1>1 DEF Min
<1> QED BY <1>2, FS_Subset

\* A step in which the executions only get profits, or the day moves on, leaves the
\* losses that count where they were, or lowers them.
LEMMA LossFalls ==
  ASSUME TypeOK, TypeOK', LossInv,
         IsFiniteSet(DOMAIN executions), IsFiniteSet(DOMAIN executions'),
         cycleNow' = cycleNow, cycleNow <= now, now <= now',
         \A s \in DOMAIN executions' :
           \/ /\ s \in DOMAIN executions
              /\ executions'[s].loss = executions[s].loss
              /\ executions'[s].completedAt = executions[s].completedAt
           \/ /\ s \in DOMAIN executions => executions[s].loss = 0
              /\ \/ executions'[s].loss = 0
                 \/ executions'[s].completedAt = now,
         \A s \in DOMAIN executions : s \in DOMAIN executions',
         LossOf(executions, Counted(executions, now, cycleNow)) < DailyLossLimit
  PROVE  LossOf(executions', Counted(executions', now', cycleNow')) < DailyLossLimit
<1> DEFINE S == Counted(executions, now, cycleNow)
           T == Counted(executions', now', cycleNow')
<1>1. /\ \A s \in DOMAIN executions : executions[s].loss \in Int /\ executions[s].completedAt \in Nat
      /\ \A s \in DOMAIN executions' : executions'[s].loss \in Int /\ executions'[s].completedAt \in Nat
      /\ {now, now', cycleNow, Day} \subseteq Nat
  <2>1. Losses \subseteq Int /\ Times \subseteq Nat /\ Day \in Nat
    BY LimitsAssumption DEF Times
  <2>2. \A s \in DOMAIN executions : executions[s].loss \in Int /\ executions[s].completedAt \in Nat
    <3>1. executions \in [DOMAIN executions -> Executions]
      BY DEF TypeOK
    <3> QED BY ONLY <2>1, <3>1 DEF Executions
  <2>3. \A s \in DOMAIN executions' : executions'[s].loss \in Int /\ executions'[s].completedAt \in Nat
    <3>1. executions' \in [DOMAIN executions' -> Executions]
      BY DEF TypeOK
    <3> QED BY ONLY <2>1, <3>1 DEF Executions
  <2>4. {now, now', cycleNow} \subseteq Times
    BY DEF TypeOK
  <2> QED BY <2>1, <2>2, <2>3, <2>4
<1>2. S \in SUBSET DOMAIN executions /\ T \in SUBSET DOMAIN executions'
  BY DEF Counted
<1>3. \A s \in T \intersect S : executions'[s].loss <= executions[s].loss
  BY <1>1 DEF Counted
<1>4. \A s \in T \ S : executions'[s].loss <= 0
  BY <1>1 DEF Counted
<1>5. \A s \in S \ T : executions[s].loss >= 0
  BY <1>1 DEF Counted
<1>6. DailyLossLimit \in Int
  BY LimitsAssumption
<1> HIDE DEF S, T
<1>7. LossOf(executions', T) <= LossOf(executions, S) /\ LossOf(executions', T) \in Int
      /\ LossOf(executions, S) \in Int
  BY <1>1, <1>2, <1>3, <1>4, <1>5, LossOrder
<1>8. LossOf(executions, S) < DailyLossLimit
  BY DEF S
<1> QED BY <1>6, <1>7, <1>8 DEF T
\* What the executions of a day lost is a number.
LEMMA DailyLossType ==
  ASSUME TypeOK, IsFiniteSet(DOMAIN executions)
  PROVE  DailyLoss(DOMAIN executions, now) \in Int
<1> DEFINE U == DOMAIN executions
           S == {s \in U : executions[s].completedAt >= now - Day}
<1>1. executions \in [U -> Executions] /\ Losses \subseteq Int
  BY LimitsAssumption DEF TypeOK
<1>2. \A s \in U : executions[s].loss \in Int
  BY ONLY <1>1 DEF Executions
<1>3. PICK g, w : IsLossSum(g, w, executions, U)
  BY <1>2, LossIsSum
<1>4. DailyLoss(U, now) = LossOf(executions, S)
  BY DEF DailyLoss, LossOf, MapThenSumSet, MapThenFoldSet
<1>5. S \in SUBSET U
  OBVIOUS
<1> HIDE DEF S
<1>6. LossOf(executions, S) = g[S] /\ g[S] \in Int
  BY <1>3, <1>5 DEF IsLossSum, IsSum
<1> QED BY <1>4, <1>6

\* What Monitor lists of the last day bounds the losses that count.
LEMMA ListBoundsLoss ==
  ASSUME TypeOK, IsFiniteSet(DOMAIN executions), cycleNow <= now,
         DailyLoss(DOMAIN executions, now) < DailyLossLimit
  PROVE  LossOf(executions, Counted(executions, now, cycleNow)) < DailyLossLimit
<1> DEFINE S == {s \in DOMAIN executions : executions[s].completedAt >= now - Day}
           T == Counted(executions, now, cycleNow)
<1>1. /\ \A s \in DOMAIN executions : executions[s].loss \in Int /\ executions[s].completedAt \in Nat
      /\ {now, cycleNow, Day} \subseteq Nat
  <2>1. Losses \subseteq Int /\ Times \subseteq Nat /\ Day \in Nat
    BY LimitsAssumption DEF Times
  <2>2. \A s \in DOMAIN executions : executions[s].loss \in Int /\ executions[s].completedAt \in Nat
    <3>1. executions \in [DOMAIN executions -> Executions]
      BY DEF TypeOK
    <3> QED BY ONLY <2>1, <3>1 DEF Executions
  <2>3. {now, cycleNow} \subseteq Times
    BY DEF TypeOK
  <2> QED BY <2>1, <2>2, <2>3
<1>2. DailyLoss(DOMAIN executions, now) = LossOf(executions, S)
  BY DEF DailyLoss, LossOf, MapThenSumSet, MapThenFoldSet
<1>3. S \in SUBSET DOMAIN executions /\ T \in SUBSET DOMAIN executions
  BY DEF Counted
<1>4. \A s \in T \ S : executions[s].loss <= 0
  BY <1>1 DEF Counted
<1>5. \A s \in S \ T : executions[s].loss >= 0
  BY <1>1 DEF Counted
<1>6. \A s \in T \intersect S : executions[s].loss <= executions[s].loss
  BY <1>1, <1>3
<1>7. DailyLossLimit \in Int
  BY LimitsAssumption
<1> HIDE DEF S, T
<1>8. LossOf(executions, T) <= LossOf(executions, S) /\ LossOf(executions, T) \in Int
      /\ LossOf(executions, S) \in Int
  BY <1>1, <1>3, <1>4, <1>5, <1>6, LossOrder
<1>9. LossOf(executions, S) < DailyLossLimit
  BY <1>2, Zenon
<1> QED BY <1>7, <1>8, <1>9 DEF T

\* Monitor's answer sets the limit against every loss, and what happens until the end
\* of the cycle adds no loss that counts: completions are later than its start.
LEMMA NextLossInv ==
  ASSUME ListLimit \in Nat, MaxExecutions <= ListLimit
  PROVE  TypeOK /\ TypeOK' /\ LossInv /\ [Next]_vars => LossInv'
<1> SUFFICES ASSUME TypeOK, TypeOK', LossInv, [Next]_vars PROVE LossInv'
  OBVIOUS
<1> USE DEF serviceVars, circuitVars, monitorVars, engineVars, worldVars
<1> DEFINE Known == DOMAIN executions \union wire
           Below == LossOf(executions, Counted(executions, now, cycleNow)) < DailyLossLimit
<1>1. /\ IsFiniteSet(Known) /\ Cardinality(Known) <= MaxExecutions /\ Cardinality(Known) \in Nat
      /\ IsFiniteSet(DOMAIN executions) /\ Cardinality(DOMAIN executions) \in Nat
      /\ Cardinality(DOMAIN executions) <= Cardinality(Known)
      /\ MaxExecutions \in Nat
      /\ cycleNow <= now /\ {now, cycleNow} \subseteq Nat
  <2>1. IsFiniteSet(Known) /\ Cardinality(Known) <= MaxExecutions /\ cycleNow <= now
    BY DEF LossInv
  <2>2. DOMAIN executions \in SUBSET Known
    OBVIOUS
  <2>3. IsFiniteSet(DOMAIN executions) /\ Cardinality(DOMAIN executions) <= Cardinality(Known)
    BY <2>1, <2>2, FS_Subset
  <2>4. MaxExecutions \in Nat /\ {now, cycleNow} \subseteq Nat
    BY LimitsAssumption DEF TypeOK, Times
  <2> HIDE DEF Known
  <2> QED BY <2>1, <2>3, <2>4, FS_CardinalityType
<1>2. /\ \A s \in OpenAtEngine : executions[s].loss = 0
      /\ pc = "awaiting" => ~dailyLossHalted
      /\ MidCycle /\ ~dailyLossHalted => Below
  BY DEF LossInv
<1>3. ASSUME UNCHANGED <<pc, cycleNow, dailyLossHalted>>, now' \in Nat, now <= now',
             Known' \in SUBSET Known,
             \A s \in DOMAIN executions : s \in DOMAIN executions',
             \A s \in DOMAIN executions' :
               \/ /\ s \in DOMAIN executions
                  /\ executions'[s].loss = executions[s].loss
                  /\ executions'[s].completedAt = executions[s].completedAt
               \/ /\ s \in DOMAIN executions => executions[s].loss = 0
                  /\ \/ executions'[s].loss = 0
                     \/ executions'[s].completedAt = now,
             \A s \in OpenAtEngine' : executions'[s].loss = 0
      PROVE  LossInv'
  <2>1. IsFiniteSet(Known') /\ Cardinality(Known') <= MaxExecutions
    <3> HIDE DEF Known
    <3>1. /\ IsFiniteSet(Known') /\ Cardinality(Known') <= Cardinality(Known)
          /\ Cardinality(Known') \in Nat
      BY <1>1, <1>3, FS_Subset, FS_CardinalityType
    <3> QED BY <1>1, <3>1
  <2>2. cycleNow' <= now'
    BY <1>1, <1>3
  <2>3. Below => Below'
    <3>1. IsFiniteSet(DOMAIN executions')
      <4>1. DOMAIN executions' \in SUBSET Known'
        OBVIOUS
      <4> HIDE DEF Known
      <4> QED BY <2>1, <4>1, FS_Subset
    <3> QED BY <1>1, <1>3, <3>1, LossFalls
  <2>4. MidCycle' = MidCycle
    BY <1>3 DEF MidCycle
  <2> HIDE DEF Below
  <2> QED BY <1>2, <1>3, <2>1, <2>2, <2>3, <2>4 DEF LossInv, Below
<1>4. ASSUME UNCHANGED <<now, executions, wire>>, cycleNow' <= now,
             Below /\ MidCycle' /\ ~dailyLossHalted' => cycleNow' = cycleNow,
             MidCycle' /\ ~dailyLossHalted' => Below,
             pc' = "awaiting" => ~dailyLossHalted'
      PROVE  LossInv'
  <2>1. Known' = Known /\ OpenAtEngine' = OpenAtEngine
    BY <1>4 DEF OpenAtEngine, IsOpen
  <2>2. Below /\ cycleNow' = cycleNow => Below'
    BY <1>4
  <2> HIDE DEF Below
  <2> QED BY <1>1, <1>2, <1>4, <2>1, <2>2 DEF LossInv, Below
<1>5. CASE UNCHANGED <<now, pc, cycleNow, dailyLossHalted, executions>> /\ wire' \subseteq wire
  <2>1. now' \in Nat /\ now <= now' /\ Known' \in SUBSET Known /\ OpenAtEngine' = OpenAtEngine
    BY <1>1, <1>5 DEF OpenAtEngine, IsOpen
  <2> QED BY <1>2, <1>3, <1>5, <2>1
<1>6. CASE Tick
  <2>1. now' \in Nat /\ now <= now' /\ Known' \in SUBSET Known /\ OpenAtEngine' = OpenAtEngine
    BY <1>1, <1>6 DEF Tick, OpenAtEngine, IsOpen
  <2>2. UNCHANGED <<pc, cycleNow, dailyLossHalted, executions>>
    BY <1>6 DEF Tick
  <2> QED BY <1>2, <1>3, <2>1, <2>2
<1>7. ASSUME NEW s \in wire, NEW state \in {"running", "risk_rejected"},
             s \notin DOMAIN executions, Remember(s, state), wire' = wire \ {s},
             UNCHANGED <<worldVars, serviceVars>>
      PROVE  LossInv'
  <2>1. /\ DOMAIN executions' = DOMAIN executions \union {s}
        /\ executions'[s].loss = 0
        /\ \A t \in DOMAIN executions : executions'[t] = executions[t]
    BY <1>7 DEF Remember, NewExecution
  <2>2. now' \in Nat /\ now <= now' /\ Known' \in SUBSET Known
    BY <1>1, <1>7, <2>1
  <2>3. \A t \in OpenAtEngine' : executions'[t].loss = 0
    BY <1>2, <2>1 DEF OpenAtEngine, IsOpen
  <2> QED BY <1>3, <1>7, <2>1, <2>2, <2>3
<1>8. ASSUME NEW s \in DOMAIN executions,
             EngineRecovers(s) \/ EngineCompletes(s) \/ EngineReleases(s)
      PROVE  LossInv'
  <2>1. /\ DOMAIN executions' = DOMAIN executions
        /\ \A t \in DOMAIN executions : t # s => executions'[t] = executions[t]
        /\ UNCHANGED <<now, pc, cycleNow, dailyLossHalted, wire>>
    BY <1>8 DEF EngineRecovers, EngineCompletes, EngineReleases
  <2>2. \/ /\ executions'[s].loss = executions[s].loss
           /\ executions'[s].completedAt = executions[s].completedAt
           /\ IsOpen(s)' => IsOpen(s)
        \/ /\ IsOpen(s) /\ ~IsOpen(s)'
           /\ executions'[s].completedAt = now
    BY <1>8 DEF EngineRecovers, EngineCompletes, EngineReleases, OpenStates, IsOpen, TypeOK, Executions
  <2>3. IsOpen(s) => executions[s].loss = 0
    BY <1>2 DEF OpenAtEngine, IsOpen
  <2>4. now' \in Nat /\ now <= now' /\ Known' \in SUBSET Known
    BY <1>1, <2>1
  <2>5. \A t \in OpenAtEngine' : executions'[t].loss = 0
    BY <1>2, <2>1, <2>2, <2>3 DEF OpenAtEngine, IsOpen
  <2> QED BY <1>3, <2>1, <2>2, <2>3, <2>4, <2>5
<1>9. ASSUME NEW listed \in SUBSET DOMAIN executions, Reconcile(listed) PROVE LossInv'
  <2>1. listed = DOMAIN executions
    <3>1. Cardinality(listed) = Min({ListLimit, Cardinality(DOMAIN executions)})
      BY <1>9 DEF Reconcile
    <3>2. Cardinality(DOMAIN executions) <= ListLimit
      BY <1>1
    <3> QED BY <1>1, <3>1, <3>2, ListIsComplete
  <2>2. ~dailyLossHalted' => ~(DailyLoss(listed, now) >= DailyLossLimit)
    BY <1>9 DEF Reconcile
  <2>3. /\ UNCHANGED <<now, cycleNow, executions, wire>> /\ pc' = "discovering"
    BY <1>9 DEF Reconcile
  <2>4. DailyLoss(DOMAIN executions, now) \in Int /\ DailyLossLimit \in Int
    BY <1>1, DailyLossType, LimitsAssumption
  <2>5. ~dailyLossHalted' => DailyLoss(DOMAIN executions, now) < DailyLossLimit
    <3>1. ~dailyLossHalted' => ~(DailyLoss(DOMAIN executions, now) >= DailyLossLimit)
      BY <2>1, <2>2, Zenon
    <3> QED BY <2>4, <3>1
  <2>6. ~dailyLossHalted' => Below
    BY <1>1, <2>5, ListBoundsLoss
  <2> QED BY <1>1, <1>4, <2>3, <2>6
<1>10. ASSUME NEW m \in todo, Submit(m) PROVE LossInv'
  <2>1. PICK s \in Signals : RiskAllows(s) /\ RoomAtEngine(s) /\ wire' = wire \union {s}
    BY <1>10 DEF Submit, Opportunities
  <2>2. /\ UNCHANGED <<now, cycleNow, executions, dailyLossHalted>> /\ MidCycle
        /\ ~dailyLossHalted /\ Known' = Known \union {s} /\ OpenAtEngine' = OpenAtEngine
    BY <1>10, <2>1 DEF Submit, RiskAllows, OpenAtEngine, IsOpen, MidCycle
  <2>3. Cardinality(Known \union {s}) <= MaxExecutions
    BY <2>1 DEF RoomAtEngine
  <2> HIDE DEF Known
  <2>4. IsFiniteSet(Known') /\ Cardinality(Known') <= MaxExecutions
    BY <1>1, <2>2, <2>3, FS_AddElement
  <2>5. Below'
    BY <1>2, <2>2
  <2> HIDE DEF Below
  <2> QED BY <1>1, <1>2, <2>2, <2>4, <2>5 DEF LossInv, Known, Below
<1>11. CASE Crash \/ StartCycle \/ CycleFails \/ EndCycle
  BY <1>1, <1>4, <1>11 DEF Crash, StartCycle, CycleFails, EndCycle, MidCycle, TypeOK
<1>12. CASE Discover \/ SubmitStarts \/ SubmitRejected \/ SubmitFails
  BY <1>1, <1>2, <1>4, <1>12 DEF Discover, SubmitStarts, SubmitRejected, SubmitFails, MidCycle
<1>13. CASE UNCHANGED <<now, pc, cycleNow, dailyLossHalted, executions, wire>>
  BY <1>5, <1>13
<1>14. ASSUME NEW s \in wire, EngineAccepts(s) \/ EngineRejects(s) \/ EngineDeduplicates(s)
       PROVE  LossInv'
  BY <1>5, <1>7, <1>14 DEF EngineAccepts, EngineRejects, EngineDeduplicates
<1> QED
  BY <1>6, <1>8, <1>9, <1>10, <1>11, <1>12, <1>13, <1>14
  DEF vars, Next, EngineAnswers, EngineWorks, MonitorAnswers, Evaluate, SubmitReturns,
      NoSignal, CannotStart

(***************************************************************************)
(* As long as Monitor's list holds every execution, no request is out      *)
(* while what completed in the last day before the cycle's start lost the  *)
(* limit: losses only ever count up to the start, and what happens between *)
(* Monitor's answer and the submission can only lower the sum.             *)
(***************************************************************************)
THEOREM LossLimitHolds ==
  ASSUME ListLimit \in Nat, MaxExecutions <= ListLimit
  PROVE  Spec => []LossStopsSubmissions
<1>1. TypeOK /\ LossInv => LossStopsSubmissions
  <2> SUFFICES ASSUME TypeOK, LossInv, pc = "awaiting" PROVE LossStopsSubmissions
    BY DEF LossStopsSubmissions
  <2>1. LossOf(executions, Counted(executions, now, cycleNow)) < DailyLossLimit
    BY DEF LossInv, MidCycle
  <2>2. IsFiniteSet(DOMAIN executions)
    BY FS_Subset DEF LossInv
  <2>3. \A s \in DOMAIN executions : executions[s].loss \in Int
    <3>1. executions \in [DOMAIN executions -> Executions] /\ Losses \subseteq Int
      BY LimitsAssumption DEF TypeOK
    <3> QED BY ONLY <3>1 DEF Executions
  <2> QED BY <2>1, <2>2, <2>3, CountedLoss, Zenon DEF LossStopsSubmissions
<1>2. TypeOK /\ TypeOK' /\ LossInv /\ [Next]_vars => LossInv'
  BY NextLossInv
<1> QED BY TypeCorrect, InitLossInv, <1>1, <1>2, PTL DEF Spec
=============================================================================
