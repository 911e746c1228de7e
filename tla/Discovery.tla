------------------------------ MODULE Discovery ------------------------------
(***************************************************************************)
(* How GammaClient::discover (gamma.rs) reads the listing of markets page  *)
(* by page while the listing changes under it: markets close, and new ones *)
(* are listed.                                                             *)
(*                                                                         *)
(* Gamma lists items in the order of their end dates; here an item is its  *)
(* rank in that order, which the query fixes for the whole discovery.  An  *)
(* item is an event with several markets or a market by itself.  Markets   *)
(* are ordered numbers, as their ids are.  Eligible stands for what        *)
(* parse_market lets through: well-formed binary markets in the horizon.   *)
(***************************************************************************)
EXTENDS Integers, Sequences, FiniteSets, Functions

CONSTANTS
    Items,             \* what Gamma may list, as ranks
    MarketsOf,         \* [Items -> the markets of the item, in order]
    Eligible,          \* the markets parse_market accepts
    PageLimit,         \* discovery.page_limit
    MaxPages,          \* discovery.max_pages
    MaxFaults          \* bound: requests refused or failed

ASSUME DiscoveryAssumption ==
    /\ Items \subseteq Nat /\ IsFiniteSet(Items)
    /\ MarketsOf \in [Items -> Seq(Nat)]
    /\ PageLimit \in Nat \ {0} /\ MaxPages \in Nat \ {0} /\ MaxFaults \in Nat

VARIABLES
    listed,            \* the items Gamma lists now
    unlisted,          \* the items it has not listed yet
    phase,             \* "idle", "paging", "done" or "failed"
    page,              \* the page to request next
    found,             \* the markets parsed so far
    result,            \* what discover returns
    ended,             \* why it stopped paging
    \* bookkeeping of the model
    throughout,        \* the items listed since the discovery began
    closings,          \* the items closed since then
    faults             \* the requests refused or failed so far

listingVars == <<listed, unlisted>>
bookkeeping == <<throughout, closings, faults>>
discoveryVars == <<listingVars, phase, page, found, result, ended, bookkeeping>>

MarketsIn(items) == UNION {Range(MarketsOf[i]) : i \in items}
MarketsOfItems == MarketsIn(Items)

\* How many items come before i in the listing.
Offset(i) == Cardinality({j \in listed : j < i})

\* What Gamma answers for a page: PageLimit items from its offset on.
PageItems(p) ==
    {i \in listed : p * PageLimit <= Offset(i) /\ Offset(i) < (p + 1) * PageLimit}

\* Seeded fault: what does not parse is kept.
ParsedUnchecked(items) == MarketsIn(items)

\* collect_markets and the filter_map of parse_markets.
Parsed(items) == MarketsIn(items) \intersect Eligible

\* Seeded fault: the markets that parse are counted instead of the items.
ParsedCount(items) == Cardinality(Parsed(items))

\* page_item_count: events count once, whatever markets they hold.
ItemCount(items) == Cardinality(items)

-----------------------------------------------------------------------------
Init ==
    /\ listed \in SUBSET Items /\ unlisted \in SUBSET (Items \ listed)
    /\ phase = "idle" /\ page = 0
    /\ found = {} /\ result = {} /\ ended = "not"
    /\ throughout = {} /\ closings = 0 /\ faults = 0

\* A new item appears in the listing.
ItemOpens(i) ==
    /\ i \in unlisted
    /\ listed' = listed \union {i} /\ unlisted' = unlisted \ {i}
    /\ UNCHANGED <<phase, page, found, result, ended, bookkeeping>>

\* An item is closed, or not active any more, and leaves the listing.
ItemCloses(i) ==
    /\ i \in listed
    /\ listed' = listed \ {i}
    /\ throughout' = throughout \ {i}
    /\ closings' = IF phase = "paging" THEN closings + 1 ELSE closings
    /\ UNCHANGED <<unlisted, phase, page, found, result, ended, faults>>

Start ==
    /\ phase # "paging"
    /\ phase' = "paging" /\ page' = 0 /\ found' = {} /\ result' = {} /\ ended' = "not"
    /\ throughout' = listed /\ closings' = 0
    /\ UNCHANGED <<listingVars, faults>>

Leave(to) == phase' = to /\ page' = 0 /\ found' = {}

\* What was read of a market more than once is returned once (sort_by, dedup_by).
Finish(all, why) == Leave("done") /\ result' = all /\ ended' = why

\* One turn of the loop over pages.
FetchPage ==
    LET items == PageItems(page)
        all == found \union Parsed(items)
    IN /\ phase = "paging"
       /\ IF ItemCount(items) < PageLimit THEN Finish(all, "short_page")
          ELSE IF page + 1 = MaxPages THEN Finish(all, "max_pages")
          ELSE page' = page + 1 /\ found' = all /\ UNCHANGED <<phase, result, ended>>
       /\ UNCHANGED <<listingVars, bookkeeping>>

\* 422 Unprocessable Entity: an offset Gamma does not serve ends the loop.
PageRefused ==
    /\ phase = "paging" /\ faults < MaxFaults /\ faults' = faults + 1
    /\ Finish(found, "refused")
    /\ UNCHANGED <<listingVars, throughout, closings>>

\* Any other failure is discover's error, and the markets read so far are lost.
PageFails ==
    /\ phase = "paging" /\ faults < MaxFaults /\ faults' = faults + 1
    /\ Leave("failed")
    /\ UNCHANGED <<listingVars, result, ended, throughout, closings>>

ListingChanges == \E i \in Items : ItemOpens(i) \/ ItemCloses(i)

Request == FetchPage \/ PageRefused \/ PageFails

-----------------------------------------------------------------------------
\* Every variable has its type.
DiscoveryTypeOK ==
    /\ listed \in SUBSET Items /\ unlisted \in SUBSET (Items \ listed)
    /\ phase \in {"idle", "paging", "done", "failed"}
    /\ page \in 0 .. MaxPages - 1
    /\ found \subseteq MarketsOfItems \intersect Eligible
    /\ result \subseteq MarketsOfItems \intersect Eligible
    /\ ended \in {"not", "short_page", "max_pages", "refused"}
    /\ throughout \in SUBSET listed /\ closings \in 0 .. Cardinality(Items)
    /\ faults \in 0 .. MaxFaults
=============================================================================
