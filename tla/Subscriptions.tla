---------------------------- MODULE Subscriptions ----------------------------
(***************************************************************************)
(* From the listing to the connections: every cycle of the service runs a  *)
(* discovery (Discovery) and sends the tokens of the subscribable markets  *)
(* to the task that assigns them to connections (ShardAssignments), over a *)
(* watch channel that keeps the last list only (StrategyService::iteration,*)
(* service.rs, and spawn_sharded_market_feed, clob.rs).  The cycle does    *)
(* not wait for the task, and never learns of a list that was rejected.    *)
(***************************************************************************)
EXTENDS Discovery, ShardAssignments

CONSTANTS
    Tradable           \* the markets that are subscribable, of those that are eligible

ASSUME TradableAssumption ==
    Tradable \subseteq Eligible /\ MarketsOfItems \subseteq Markets

VARIABLES
    sent,              \* the markets of the last list sent
    fresh              \* the assigning task has not seen it

vars == <<discoveryVars, assignVars, sent, fresh>>

\* The filter by `subscribable`.
Targets(markets) == markets \intersect Tradable

-----------------------------------------------------------------------------
SubscriptionsInit == Init /\ AssignInit /\ sent = {} /\ fresh = FALSE

Listing == ListingChanges /\ UNCHANGED <<assignVars, sent, fresh>>

\* A cycle begins with its discovery.
BeginCycle == Start /\ UNCHANGED <<assignVars, sent, fresh>>

\* What discover returns is sent at once; its error ends the cycle before.
Page ==
    /\ Request
    /\ IF phase' = "done" THEN sent' = Targets(result') /\ fresh' = TRUE
                          ELSE UNCHANGED <<sent, fresh>>
    /\ UNCHANGED assignVars

\* The assigning task wakes up and takes the list there is.
AssignSent ==
    /\ fresh /\ fresh' = FALSE
    /\ Assign(sent)
    /\ UNCHANGED <<discoveryVars, sent>>

Next == Listing \/ BeginCycle \/ Page \/ AssignSent

Spec == SubscriptionsInit /\ [][Next]_vars

\* Cycles come again and again, requests return, and the runtime runs the task.
\* Each is told by the variables only such a step changes.
PageComes ==
    phase = "paging" /\ phase' \in {"paging", "done", "failed"} /\ page' \in 0 .. MaxPages - 1
Fairness ==
    /\ WF_<<phase, page>>(PageComes)
    /\ WF_<<phase>>(phase # "paging" /\ phase' = "paging")
    /\ WF_<<fresh>>(fresh /\ fresh' = FALSE)

FairSpec == Spec /\ Fairness

-----------------------------------------------------------------------------
(* Properties.                                                             *)

\* Every variable has its type.
TypeOK ==
    /\ DiscoveryTypeOK /\ AssignTypeOK
    /\ sent \in SUBSET Tradable /\ fresh \in BOOLEAN

Carried == UNION {shards[k] : k \in Shards}
Served(i) == AssetsOf(Range(MarketsOf[i]) \intersect Tradable) \subseteq Carried

\* Markets that are listed or that shift onto a page a second time cost nothing,
\* and every item that closes during the paging costs the books of one other at
\* most: a discovery that ends on a short page, and whose list is not rejected,
\* leaves all the rest on a connection (gamma.rs, service.rs, clob.rs).
OutagesBoundedByClosings ==
    ended = "short_page" /\ phase = "done" /\ ~fresh /\ rejected = "no" =>
        Cardinality({i \in throughout : ~Served(i)}) <= closings

\* The markets of the first items of the listing, those the pages reach.
Reached == {i \in listed : Offset(i) < PageLimit * MaxPages}
Reachable == UNION {Range(MarketsOf[i]) : i \in Reached} \intersect Tradable

\* The sets of markets the connections have room for.
Manageable == {S \in SUBSET Tradable : Outcomes * Cardinality(S) <= MaxTotal /\ Fits(S)}

\* No history of lists fragments the shards, not even of lists that failed with half
\* of their pairs placed: a list is rejected for want of a place only when it would
\* not fit empty connections either (ShardAssignments::assign).
PlacedIfTheyFit == ~fresh /\ rejected = "no_capacity" => ~Fits(sent)

\* Once the listing stays as it is, the connections carry exactly the markets within
\* the reach of the pages, unless these are too many for them, whatever closings,
\* refusals, failures and rejected lists came before.
ListingIsServed ==
    <>[](Reachable \in Manageable => Carried = AssetsOf(Reachable))
=============================================================================
