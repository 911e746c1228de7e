---------------------------- MODULE SignalLedger ----------------------------
(***************************************************************************)
(* What the strategy promises about the complete-set cycles it has open at *)
(* the execution engine, said without any of the machinery that keeps the  *)
(* promise: a cycle opens only when its market and direction have none and *)
(* when the capital of the open cycles stays within the configured limits. *)
(* Cycles close whenever the engine is done with them.                     *)
(***************************************************************************)
EXTENDS Integers, FiniteSetsExt

CONSTANTS
    Signals,           \* what can be opened: market, direction, size and book
    UnderlyingOf,      \* the underlying of each market
    MaxPerCycle, MaxPerMarket, MaxPerUnderlying, MaxAggregate

VARIABLE open          \* the cycles that are open

Capital(S) == MapThenSumSet(LAMBDA s : s.size, S)

SamePair(s, t) == s.market = t.market /\ s.direction = t.direction

\* At most one cycle per market and direction.
OnePerPair(S) == \A s, t \in S : SamePair(s, t) => s = t

\* Every capital limit of the risk section holds of the set S of cycles.
WithinLimits(S) ==
    /\ \A s \in S :
         /\ s.size <= MaxPerCycle
         /\ Capital({t \in S : t.market = s.market}) <= MaxPerMarket
         /\ Capital({t \in S : UnderlyingOf[t.market] = UnderlyingOf[s.market]})
              <= MaxPerUnderlying
    /\ Capital(S) <= MaxAggregate

Init == open = {}

Open(s) ==
    /\ s \notin open
    /\ open' = open \union {s}
    /\ OnePerPair(open')
    /\ WithinLimits(open')

Close == open' \in SUBSET open

Next == Close \/ \E s \in Signals : Open(s)

Spec == Init /\ [][Next]_open
=============================================================================
