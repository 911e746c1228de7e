------------------------------- MODULE Pricing -------------------------------
(***************************************************************************)
(* How evaluate_market (service.rs) finds and confirms an opportunity with *)
(* the arithmetic of pricing.rs: the best quantity on the books of the     *)
(* WebSocket feed, the final REST refresh by when the books may have moved,*)
(* the comparison of the two, and the best quantity on the REST books.     *)
(*                                                                         *)
(* Fixed point stands for Decimal: a price is a whole number of 1/One, a   *)
(* quantity a whole number of units, and money a whole number of 1/One^3   *)
(* of a unit's collateral, in which every product below is exact.  Books   *)
(* are normalized (Book::normalize): valid levels, best price first.  The  *)
(* time stamps of books are SignalCycle's concern.                         *)
(***************************************************************************)
EXTENDS Integers, Sequences, FiniteSets, Functions, FiniteSetsExt

CONSTANTS
    One,                   \* a price of 1
    Books,                 \* books that occur, [bids, asks]
    Directions,            \* subset of {"buy_merge", "split_sell"}
    FeeRate,               \* the taker fee rate, in 1/One
    SlippageBps, Latency, Orphan, Grain,      \* [reserves]; Grain is the rounding scale
    MinProfit, MinReturnBps,
    DepthNum, DepthDen,    \* depth_fraction
    BandLow, BandHigh,     \* the price band; it is off when BandLow >= BandHigh
    MaxPerCycle,           \* risk.max_per_cycle
    TickTolerance          \* tick_size * max_tick_disagreement, in 1/One

ASSUME PricingAssumption ==
    /\ {One, Grain, DepthDen, DepthNum, MinProfit, MinReturnBps, MaxPerCycle}
          \subseteq Nat \ {0}
    /\ {FeeRate, SlippageBps, Latency, Orphan, BandLow, BandHigh, TickTolerance} \subseteq Nat
    /\ DepthNum <= DepthDen
    /\ Directions \subseteq {"buy_merge", "split_sell"}
    /\ \A book \in Books : \A levels \in {book.bids, book.asks} :
         /\ levels \in Seq([price : 1 .. One - 1, size : Nat \ {0}])
         /\ \A i \in DOMAIN levels : levels[i].size % DepthDen = 0

VARIABLES
    stage,         \* "reading" -> "preliminary" -> "refreshed" -> "done"
    ws, rest,      \* the books of the two outcome tokens
    preliminary,   \* the opportunity on the WebSocket books
    final,         \* the opportunity on the REST books
    outcome        \* what evaluate_market comes to

vars == <<stage, ws, rest, preliminary, final, outcome>>

Legs == {1, 2}
Opportunities == [direction : Directions, quantity : Nat \ {0}, gross : Nat, capital : Nat,
                  profit : Nat \ {0}]
None == [direction |-> "none"]

-----------------------------------------------------------------------------
(* pricing.rs                                                              *)

Levels(book, d) == IF d = "buy_merge" THEN book.asks ELSE book.bids
Depth(levels) == SumFunction([i \in DOMAIN levels |-> levels[i].size])
DepthBefore(levels, i) == SumFunction([j \in 1 .. i - 1 |-> levels[j].size])

\* What a quantity q takes from level i.
Filled(levels, i, q) ==
    LET left == q - DepthBefore(levels, i)
    IN IF left <= 0 THEN 0 ELSE Min({left, levels[i].size})

\* executable_with_fee, for q no larger than the depth; it fails beyond.
Gross(levels, q) ==
    One * One * SumFunction([i \in DOMAIN levels |-> Filled(levels, i, q) * levels[i].price])
Fee(levels, q) ==
    FeeRate * SumFunction(
        [i \in DOMAIN levels |-> Filled(levels, i, q) * levels[i].price * (One - levels[i].price)])

\* Seeded fault: rounding down where the code rounds up.
FloorOfRatio(n, d) == Grain * (n \div (d * Grain))

\* n / d rounded up to the rounding scale.
CeilRatio(n, d) == Grain * ((n + d * Grain - 1) \div (d * Grain))
Ceil(n) == CeilRatio(n, 1)
Floor(n) == Grain * (n \div Grain)

Value(q) == q * One * One * One

\* evaluate, on the levels a and b of the two legs.
Evaluated(a, b, d, q) ==
    LET gross == Gross(a, q) + Gross(b, q)
        fees == Ceil(Fee(a, q) + Fee(b, q))
        reserve == CeilRatio(gross * SlippageBps + (Latency + Orphan) * 10000, 10000)
        cost == Ceil(gross + fees + reserve)
        proceeds == Floor(gross - fees - reserve)
    IN [direction |-> d, quantity |-> q, gross |-> gross,
        capital |-> IF d = "buy_merge" THEN cost ELSE Value(q),
        profit |-> IF d = "buy_merge" THEN Value(q) - cost ELSE proceeds - Value(q)]

\* Seeded fault: only the capital is limited.
AcceptableOnCapital(o) == o.capital <= MaxPerCycle

\* The limits of best_for_direction; return_bps is 0, and too small, without capital.
Acceptable(o) ==
    /\ o.capital <= MaxPerCycle
    /\ o.profit >= MinProfit
    /\ IF o.capital > 0 THEN o.profit * 10000 >= MinReturnBps * o.capital ELSE FALSE

Cap(a, b) == (Min({Depth(a), Depth(b)}) * DepthNum) \div DepthDen

\* Seeded fault: only the levels of the first leg are tried.
QuantitiesOfOneLeg(a, b) ==
    {q \in {DepthBefore(a, i + 1) : i \in DOMAIN a} : q > 0 /\ q <= Cap(a, b)}

\* cumulative_breakpoints of both legs and the participation cap.
Quantities(a, b) ==
    {q \in {DepthBefore(a, i + 1) : i \in DOMAIN a} \union
           {DepthBefore(b, i + 1) : i \in DOMAIN b} \union {Cap(a, b)} :
        q > 0 /\ q <= Cap(a, b)}

\* The band looks at the first leg's best price only.
InBand(a) == BandLow < BandHigh /\ a[1].price > BandLow /\ a[1].price < BandHigh

\* compare_opportunities: more profit, then less capital.
Beats(o, p) == o.profit > p.profit \/ (o.profit = p.profit /\ o.capital < p.capital)

Candidates(a, b, d) ==
    IF a = <<>> \/ InBand(a) THEN {}
    ELSE {o \in {Evaluated(a, b, d, q) : q \in Quantities(a, b)} : Acceptable(o)}

\* best_for_direction on a pair of books.
BestForDirection(pair, d) ==
    LET candidates == Candidates(Levels(pair[1], d), Levels(pair[2], d), d)
    IN IF candidates = {} THEN None
       ELSE CHOOSE o \in candidates : \A p \in candidates : ~Beats(p, o)

\* The comparison at the end of validate_final_books: enough depth on both books
\* of each leg, and totals that differ by max_tick_disagreement ticks at most.
Agrees(d, q) ==
    \A leg \in Legs :
        LET w == Levels(ws[leg], d)
            r == Levels(rest[leg], d)
        IN /\ q <= Depth(w) /\ q <= Depth(r)
           /\ Gross(w, q) - Gross(r, q) <= TickTolerance * q * One * One
           /\ Gross(r, q) - Gross(w, q) <= TickTolerance * q * One * One

-----------------------------------------------------------------------------
(* evaluate_market                                                         *)

Init ==
    /\ stage = "reading"
    /\ ws \in [Legs -> Books]
    /\ rest = ws
    /\ preliminary = None /\ final = None
    /\ outcome = "none"

\* The more profitable direction; on a tie max_by takes the later, split_sell.
FindPreliminary ==
    LET found == {BestForDirection(ws, d) : d \in Directions} \ {None}
        best == {o \in found : \A p \in found : p.profit <= o.profit}
    IN /\ stage = "reading"
       /\ IF found = {}
          THEN /\ stage' = "done" /\ outcome' = "no_opportunity"
               /\ UNCHANGED preliminary
          ELSE /\ stage' = "preliminary"
               /\ preliminary' = CHOOSE o \in best :
                    o.direction = "split_sell" \/ \A p \in best : p.direction # "split_sell"
               /\ UNCHANGED outcome
       /\ UNCHANGED <<ws, rest, final>>

\* The books of the REST answer, whatever they have become by then.
Refresh ==
    /\ stage = "preliminary"
    /\ rest' \in [Legs -> Books]
    /\ stage' = "refreshed"
    /\ UNCHANGED <<ws, preliminary, final, outcome>>

Disagree ==
    /\ stage = "refreshed"
    /\ ~Agrees(preliminary.direction, preliminary.quantity)
    /\ stage' = "done" /\ outcome' = "rejected"
    /\ UNCHANGED <<ws, rest, preliminary, final>>

Confirm ==
    LET best == BestForDirection(rest, preliminary.direction)
    IN /\ stage = "refreshed"
       /\ Agrees(preliminary.direction, preliminary.quantity)
       /\ stage' = "done"
       /\ final' = best
       /\ outcome' = IF best = None THEN "disappeared" ELSE "opportunity"
       /\ UNCHANGED <<ws, rest, preliminary>>

Next == FindPreliminary \/ Refresh \/ Disagree \/ Confirm

Spec == Init /\ [][Next]_vars

-----------------------------------------------------------------------------
(* Properties.                                                             *)

\* Every variable has its type.
TypeOK ==
    /\ stage \in {"reading", "preliminary", "refreshed", "done"}
    /\ ws \in [Legs -> Books] /\ rest \in [Legs -> Books]
    /\ preliminary \in Opportunities \union {None}
    /\ final \in Opportunities \union {None}
    /\ outcome \in {"none", "no_opportunity", "rejected", "disappeared", "opportunity"}

\* The profit of quantity q without any rounding, in 1/10000 of money.
ExactProfit(pair, d, q) ==
    LET a == Levels(pair[1], d)
        b == Levels(pair[2], d)
        gross == Gross(a, q) + Gross(b, q)
        charges == (Fee(a, q) + Fee(b, q) + Latency + Orphan) * 10000 + gross * SlippageBps
    IN IF d = "buy_merge" THEN (Value(q) - gross) * 10000 - charges
       ELSE (gross - Value(q)) * 10000 - charges

\* What goes on to the gate and the engine is real on the books it was confirmed
\* on: both legs can be filled within the participation cap, and no rounding of
\* evaluate makes the profit look larger than it is.
FinalIsExecutable ==
    outcome = "opportunity" =>
        LET d == final.direction
            q == final.quantity
        IN /\ d = preliminary.direction
           /\ \A leg \in Legs : DepthDen * q <= DepthNum * Depth(Levels(rest[leg], d))
           /\ final.profit * 10000 <= ExactProfit(rest, d, q)

\* The quantities tried next to q, on either side of it.
NextTo(a, b, q) ==
    {p \in Quantities(a, b) : \A r \in Quantities(a, b) : ~(p < r /\ r <= q) /\ ~(q <= r /\ r < p)}

\* Leaving max_per_cycle aside, no quantity but the breakpoints of the two books is worth
\* trying: one that lies between two earns no more than the better of them, but for the
\* three roundings of evaluate.  And of the breakpoints none that the limits allow earns
\* more than what is found.  A limit that falls between two breakpoints may allow a
\* quantity there and not the better breakpoint: best_for_direction does not try it.
NothingBetterLeft ==
    stage = "preliminary" \/ outcome = "no_opportunity" =>
        \A d \in Directions :
            LET a == Levels(ws[1], d)
                b == Levels(ws[2], d)
                earned == IF preliminary = None THEN MinProfit - 1 ELSE preliminary.profit
                profit == [q \in 0 .. Cap(a, b) |-> Evaluated(a, b, d, q).profit]
            IN \A q \in 1 .. Cap(a, b) :
                 /\ profit[q] > 0 => \E p \in NextTo(a, b, q) : profit[q] <= profit[p] + 3 * Grain
                 /\ q \in Quantities(a, b) /\ Acceptable(Evaluated(a, b, d, q)) /\ ~InBand(a) =>
                      profit[q] <= earned
=============================================================================
