----------------------------- MODULE DecisionLog -----------------------------
(***************************************************************************)
(* What the service records of its evaluations: log_decision with the      *)
(* heartbeats that thin out repeated rejections (service.rs), and the      *)
(* table of decisions it appends to (decision_store.rs).  What reads the   *)
(* table is in StoreSummaries.                                             *)
(*                                                                         *)
(* What a market's evaluation comes to is an input: one of the reasons for *)
(* which there is no opportunity, "opportunity" for every decision about   *)
(* one, "rejected" for every error.  The id of a decision is its position. *)
(***************************************************************************)
EXTENDS Integers, Sequences, FiniteSets, Functions, SequencesExt

CONSTANTS
    Markets,
    Rejections,        \* "no_profitable_depth", "outside_price_band", "market_not_subscribable"
    Heartbeat,         \* REJECTION_HEARTBEAT_MS
    StoreFails,        \* an append may fail
    MaxRestarts,       \* bound: restarts of the service
    MaxTime,           \* bound: the clock
    MaxDecisions       \* bound: rows of the table

ASSUME LogAssumption ==
    /\ Heartbeat \in Nat \ {0}
    /\ {MaxRestarts, MaxTime, MaxDecisions} \subseteq Nat
    /\ StoreFails \in BOOLEAN
    /\ {"opportunity", "rejected"} \intersect Rejections = {}

VARIABLES
    now,
    pc,                \* "idle", or "scanning" within a cycle
    todo,              \* markets of the cycle still to evaluate
    retry,             \* the market whose decision failed and whose error is logged next
    heartbeats,        \* rejection_heartbeats
    decisions,         \* the table, in the order of its ids
    \* bookkeeping of the model
    restarts,
    life,              \* rows there were when the market's heartbeat was last forgotten
                       \* or set without a row
    unwritten          \* markets whose heartbeat stands for a row that was not written

logVars == <<heartbeats, decisions, life, unwritten>>
vars == <<now, pc, todo, retry, logVars, restarts>>

Times == 0 .. MaxTime
Reasons == Rejections \union {"opportunity", "rejected"}
Decisions == [market : Markets, reason : Reasons, at : Times, life : Nat]
Nobody == "none"

-----------------------------------------------------------------------------
(* log_decision.                                                           *)

\* Seeded fault: the heartbeat is the market's, whatever the reason.
DueOfMarket(m, reason, t) ==
    m \in DOMAIN heartbeats => t - heartbeats[m].at >= Heartbeat

\* Seeded fault: the heartbeat comes one unit of time early.
DueEarly(m, reason, t) ==
    m \in DOMAIN heartbeats /\ heartbeats[m].reason = reason
        => t - heartbeats[m].at >= Heartbeat - 1

\* should_log_rejection.
Due(m, reason, t) ==
    m \in DOMAIN heartbeats /\ heartbeats[m].reason = reason
        => t - heartbeats[m].at >= Heartbeat

\* Seeded fault: the time of the next record is kept instead of the last one's.
BeatNext(m, reason, t) ==
    heartbeats' = [n \in DOMAIN heartbeats \union {m} |->
                     IF n = m THEN [reason |-> reason, at |-> t + Heartbeat]
                     ELSE heartbeats[n]]

Beat(m, reason, t) ==
    heartbeats' = [n \in DOMAIN heartbeats \union {m} |->
                     IF n = m THEN [reason |-> reason, at |-> t] ELSE heartbeats[n]]

AppendRow(m, reason, t) ==
    /\ Len(decisions) < MaxDecisions
    /\ decisions' = Append(decisions, [market |-> m, reason |-> reason, at |-> t,
                                       life |-> life[m]])

Suppressed(m, reason) ==
    /\ reason \in Rejections /\ ~Due(m, reason, now)
    /\ UNCHANGED logVars

Logged(m, reason) ==
    /\ reason \in Rejections => Due(m, reason, now)
    /\ IF reason \in Rejections THEN Beat(m, reason, now) ELSE UNCHANGED heartbeats
    /\ AppendRow(m, reason, now)
    /\ unwritten' = IF reason \in Rejections THEN unwritten \ {m} ELSE unwritten
    /\ UNCHANGED life

\* The heartbeat is set before the append that fails.
LogFails(m, reason) ==
    /\ StoreFails
    /\ reason \in Rejections => Due(m, reason, now)
    /\ IF reason \in Rejections
       THEN /\ Beat(m, reason, now)
            /\ unwritten' = unwritten \union {m}
            /\ life' = [life EXCEPT ![m] = Len(decisions)]
       ELSE UNCHANGED <<heartbeats, unwritten, life>>
    /\ UNCHANGED decisions

-----------------------------------------------------------------------------
Init ==
    /\ now = 0 /\ pc = "idle" /\ todo = {} /\ retry = Nobody
    /\ heartbeats = [m \in {} |-> {}] /\ decisions = <<>>
    /\ restarts = 0
    /\ life = [m \in Markets |-> 0] /\ unwritten = {}

Tick ==
    /\ now < MaxTime
    /\ now' = now + 1
    /\ UNCHANGED <<pc, todo, retry, logVars, restarts>>

\* Forget(S): the heartbeats of the markets outside S are gone.
Forget(S) ==
    /\ heartbeats' = Restrict(heartbeats, DOMAIN heartbeats \intersect S)
    /\ life' = [m \in Markets |-> IF m \in DOMAIN heartbeats \ S THEN Len(decisions)
                                           ELSE life[m]]
    /\ unwritten' = unwritten \intersect S
    /\ UNCHANGED decisions

\* The start of iteration: the heartbeats of markets not listed any more go.
StartCycle ==
    /\ pc = "idle"
    /\ \E discovered \in SUBSET Markets :
         /\ todo' = discovered
         /\ Forget(discovered)
    /\ pc' = "scanning"
    /\ UNCHANGED <<now, retry, restarts>>

\* A market is evaluated and its decision logged, or passed over.
Decide(m, reason) ==
    /\ pc = "scanning" /\ m \in todo /\ retry = Nobody
    /\ Suppressed(m, reason) \/ Logged(m, reason)
    /\ todo' = todo \ {m}
    /\ UNCHANGED <<now, pc, retry, restarts>>

\* The `?` behind log_decision: out of evaluate_market it leads to the error
\* handler of iteration, out of iteration itself it ends the cycle.
DecideFails(m, reason) ==
    /\ pc = "scanning" /\ m \in todo /\ retry = Nobody
    /\ LogFails(m, reason)
    /\ IF reason \in {"market_not_subscribable", "rejected"}
       THEN pc' = "idle" /\ todo' = {} /\ retry' = Nobody
       ELSE pc' = pc /\ todo' = todo \ {m} /\ retry' = m
    /\ UNCHANGED <<now, restarts>>

\* The error handler logs "rejected:..." for the market.
LogError ==
    /\ retry # Nobody
    /\ retry' = Nobody
    /\ \/ Logged(retry, "rejected") /\ UNCHANGED <<pc, todo>>
       \/ LogFails(retry, "rejected") /\ pc' = "idle" /\ todo' = {}
    /\ UNCHANGED <<now, restarts>>

EndCycle ==
    /\ pc = "scanning" /\ todo = {} /\ retry = Nobody
    /\ pc' = "idle"
    /\ UNCHANGED <<now, todo, retry, logVars, restarts>>

\* The table survives, the heartbeats do not.
Restart ==
    /\ restarts < MaxRestarts
    /\ restarts' = restarts + 1
    /\ pc' = "idle" /\ todo' = {} /\ retry' = Nobody
    /\ Forget({})
    /\ UNCHANGED now

Next ==
    \/ Tick
    \/ StartCycle
    \/ \E m \in todo, reason \in Reasons : Decide(m, reason) \/ DecideFails(m, reason)
    \/ LogError
    \/ EndCycle
    \/ Restart

Spec == Init /\ [][Next]_vars

-----------------------------------------------------------------------------
(* Properties.                                                             *)

\* Every variable has its type.
TypeOK ==
    /\ now \in Times /\ pc \in {"idle", "scanning"} /\ todo \in SUBSET Markets
    /\ retry \in Markets \union {Nobody}
    /\ DOMAIN heartbeats \in SUBSET Markets
    /\ Range(heartbeats) \subseteq [reason : Rejections, at : Times]
    /\ decisions \in Seq(Decisions)
    /\ restarts \in 0 .. MaxRestarts /\ life \in [Markets -> Nat]
    /\ unwritten \in SUBSET DOMAIN heartbeats

RowsOf(m) == {i \in DOMAIN decisions : decisions[i].market = m}

\* The thinning works: a rejection of a market for the same reason is recorded
\* again only a heartbeat later, unless one for another reason came between or the
\* market's heartbeat was forgotten (it left the listing, the service restarted) or
\* moved on by an append that failed.
RepeatsAreSpaced ==
    \A m \in Markets : \A i, j \in RowsOf(m) :
        (/\ i < j
         /\ decisions[i].reason \in Rejections /\ decisions[i].reason = decisions[j].reason
         /\ decisions[i].life = decisions[j].life
         /\ \A k \in RowsOf(m) : i < k /\ k < j /\ decisions[k].reason \in Rejections
              => decisions[k].reason = decisions[i].reason)
        => decisions[j].at - decisions[i].at >= Heartbeat

LastRejection(m) ==
    LET rows == {i \in RowsOf(m) : decisions[i].reason \in Rejections}
    IN IF rows = {} THEN 0 ELSE CHOOSE i \in rows : \A j \in rows : j <= i

\* The thinning loses nothing: a rejection that is passed over repeats the market's
\* last rejection in the table, which is of this service and less than a heartbeat
\* old (README: "on transition and every 15 minutes"), unless the append of the
\* repeated one had failed.
SilenceIsExplained ==
    [][\A m \in Markets \ unwritten, reason \in Rejections :
         Decide(m, reason) /\ decisions' = decisions =>
             LET last == LastRejection(m)
             IN /\ last # 0
                /\ decisions[last].reason = reason
                /\ decisions[last].life = life[m]
                /\ now - decisions[last].at < Heartbeat]_vars
=============================================================================
