----------------------------- MODULE MarketFeed -----------------------------
(***************************************************************************)
(* The order books kept from the WebSocket feed (MarketFeed and            *)
(* spawn_sharded_market_feed, clob.rs): the service hands its targets to a *)
(* task that assigns them to shards, every shard's task keeps a connection *)
(* subscribed to its own targets, and all of them write one map of books.  *)
(* The tasks are connected by watch channels, which keep the last value    *)
(* only.  The venue at the other end is outside the repository.            *)
(*                                                                         *)
(* The two assets of a market always travel together (PairsTogether of     *)
(* ShardAssignments), so the instances here take one asset per market.     *)
(* A book has two price levels.  The venue changes them in turn, so that   *)
(* the n-th state of a book is known from n alone and a book that mixes    *)
(* two states shows.                                                       *)
(***************************************************************************)
EXTENDS ShardAssignments

CONSTANTS
    MaxLists,          \* bound: lists of targets the service sends
    MaxDrops,          \* bound: connections that are lost
    MaxVersion         \* bound: changes of books at the venue

ASSUME FeedAssumption == {MaxLists, MaxDrops, MaxVersion} \subseteq Nat

VARIABLES
    offered,           \* the service's last list of markets
    offeredNew,        \* the assigning task has not seen it
    shardNew,          \* the shards whose task has not seen its last targets
    connected,         \* the shards with a connection
    subscribed,        \* what the task of each shard takes frames for
    pending,           \* <<targets a task is changing to>>, or Nothing
    frames,            \* from the venue to each shard, in order
    books,             \* the shared map
    venue,             \* the state of each asset's book at the venue
    \* bookkeeping of the model
    shared,            \* the assets two connections have carried at once
    lists, drops       \* bounds

targetVars == <<offered, offeredNew, lists>>
taskVars == <<connected, subscribed, pending, frames, drops>>
feedVars == <<assignVars, targetVars, shardNew, taskVars, books, venue, shared>>

Nothing == <<>>
Versions == 0 .. MaxVersion
Sides == {0, 1}
Frames == [asset : Assets, kind : {"book", "price_change"}, version : Versions]

\* The n-th state of a book: which change set each of its levels.
VenueBook(n) == [l \in Sides |-> IF n % 2 = l THEN n ELSE IF n = 0 THEN 0 ELSE n - 1]

Snapshot(a) == [asset |-> a, kind |-> "book", version |-> venue[a]]

\* Snapshots of the assets of S, in some fixed order.
Snapshots(S) == [i \in 1 .. Cardinality(S) |-> Snapshot(SetToSeq(S)[i])]

\* What the venue sends to shard k, which it learns of before the task is done.
AtVenue(k) == IF pending[k] = Nothing THEN subscribed[k] ELSE pending[k][1]

\* Connection k takes frames of asset a, is sent them, or has some on their way.
Carries(k, a) ==
    \/ a \in subscribed[k] \union AtVenue(k)
    \/ \E i \in DOMAIN frames[k] : frames[k][i].asset = a

\* Connection k asks for the assets S, some of which others may carry still.
Asks(k, S) ==
    shared' = shared \union {a \in S : \E j \in Shards \ {k} : Carries(j, a)}

-----------------------------------------------------------------------------
FeedInit ==
    /\ AssignInit
    /\ offered = {} /\ offeredNew = FALSE /\ lists = 0
    /\ shardNew = {}
    /\ connected = {} /\ drops = 0
    /\ subscribed = [k \in Shards |-> {}] /\ pending = [k \in Shards |-> Nothing]
    /\ frames = [k \in Shards |-> <<>>]
    /\ books = [a \in {} |-> VenueBook(0)]
    /\ venue = [a \in Assets |-> 0]
    /\ shared = {}

\* iteration sends the markets to subscribe to.
Offer ==
    /\ lists < MaxLists
    /\ lists' = lists + 1
    /\ offered' \in SUBSET Markets
    /\ offeredNew' = TRUE
    /\ UNCHANGED <<assignVars, shardNew, taskVars, books, venue, shared>>

\* The assigning task takes the last list and tells every shard, or none.
AssignOffered ==
    /\ offeredNew
    /\ offeredNew' = FALSE
    /\ Assign(offered)
    /\ shardNew' = IF rejected' = "no" THEN Shards ELSE shardNew
    /\ UNCHANGED <<offered, lists, taskVars, books, venue, shared>>

\* run_once up to its loop: a connection subscribed to the targets of the moment.
Connect(k) ==
    /\ k \notin connected /\ shards[k] # {}
    /\ connected' = connected \union {k}
    /\ subscribed' = [subscribed EXCEPT ![k] = shards[k]]
    /\ frames' = [frames EXCEPT ![k] = Snapshots(shards[k])]
    /\ shardNew' = shardNew \ {k}
    /\ Asks(k, shards[k])
    /\ UNCHANGED <<assignVars, targetVars, pending, drops, books, venue>>

\* run_once ends; the books stay, and what was on its way is lost.
Disconnect(k) ==
    /\ k \in connected /\ drops < MaxDrops
    /\ drops' = drops + 1
    /\ connected' = connected \ {k}
    /\ subscribed' = [subscribed EXCEPT ![k] = {}]
    /\ pending' = [pending EXCEPT ![k] = Nothing]
    /\ frames' = [frames EXCEPT ![k] = <<>>]
    /\ UNCHANGED <<assignVars, targetVars, shardNew, books, venue, shared>>

\* The targets changed: the task sends the difference ...
SendDifference(k) ==
    /\ k \in connected \intersect shardNew /\ pending[k] = Nothing
    /\ shardNew' = shardNew \ {k}
    /\ pending' = [pending EXCEPT ![k] = <<shards[k]>>]
    /\ frames' = [frames EXCEPT ![k] = @ \o Snapshots(shards[k] \ subscribed[k])]
    /\ Asks(k, shards[k] \ subscribed[k])
    /\ UNCHANGED <<assignVars, targetVars, connected, subscribed, drops, books, venue>>

\* Seeded fault: the books of dropped assets are left in the map.
WithoutNone(S) == books

\* books.remove of every dropped asset.
Without(S) == Restrict(books, DOMAIN books \ S)

\* ... and, when it is sent, drops the books.
ApplyDifference(k) ==
    /\ k \in connected /\ pending[k] # Nothing
    /\ books' = Without(subscribed[k] \ pending[k][1])
    /\ subscribed' = [subscribed EXCEPT ![k] = pending[k][1]]
    /\ pending' = [pending EXCEPT ![k] = Nothing]
    /\ UNCHANGED <<assignVars, targetVars, shardNew, connected, frames, drops, venue, shared>>

\* books.insert.
Stored(a, book) == [x \in DOMAIN books \union {a} |-> IF x = a THEN book ELSE books[x]]

\* Seeded fault: a change of an unknown book begins an empty one.
ChangedOrBegun(f) ==
    LET old == IF f.asset \in DOMAIN books THEN books[f.asset] ELSE VenueBook(0)
    IN Stored(f.asset, [old EXCEPT ![f.version % 2] = f.version])

\* apply_changes: a change of a book that is missing is skipped.
Changed(f) ==
    IF f.asset \notin DOMAIN books THEN books
    ELSE [books EXCEPT ![f.asset][f.version % 2] = f.version]

\* Seeded fault: changes are not recognized.
AppliedSnapshots(f, k) ==
    IF f.asset \in subscribed[k] /\ f.kind = "book"
    THEN Stored(f.asset, VenueBook(f.version)) ELSE books

\* apply_frame.
Applied(f, k) ==
    IF f.asset \notin subscribed[k] THEN books
    ELSE IF f.kind = "book" THEN Stored(f.asset, VenueBook(f.version))
    ELSE Changed(f)

\* The select loop reads a frame only between two changes of its targets.
Receive(k) ==
    /\ k \in connected /\ pending[k] = Nothing /\ frames[k] # <<>>
    /\ books' = Applied(Head(frames[k]), k)
    /\ frames' = [frames EXCEPT ![k] = Tail(@)]
    /\ UNCHANGED <<assignVars, targetVars, shardNew, connected, subscribed, pending, drops,
                   venue, shared>>

\* The venue's book changes and every connection subscribed to it is told.
VenueChanges(a) ==
    /\ SumFunction(venue) < MaxVersion
    /\ venue' = [venue EXCEPT ![a] = @ + 1]
    /\ frames' = [k \in Shards |->
                    IF k \in connected /\ a \in AtVenue(k)
                    THEN Append(frames[k], [asset |-> a, kind |-> "price_change",
                                            version |-> venue[a] + 1])
                    ELSE frames[k]]
    /\ UNCHANGED <<assignVars, targetVars, shardNew, connected, subscribed, pending, drops,
                   books, shared>>

Task(k) == Connect(k) \/ SendDifference(k) \/ ApplyDifference(k) \/ Receive(k)

FeedNext ==
    \/ Offer
    \/ AssignOffered
    \/ \E k \in Shards : Task(k) \/ Disconnect(k)
    \/ \E a \in Assets : VenueChanges(a)

FeedSpec == FeedInit /\ [][FeedNext]_feedVars

\* The runtime runs every task that can run, and the venue delivers.  AssignOffered is
\* told by the variable that only it resets.
FeedFairness ==
    /\ WF_<<offeredNew>>(offeredNew /\ offeredNew' = FALSE)
    /\ \A k \in Shards : WF_feedVars(Task(k))

FairFeedSpec == FeedSpec /\ FeedFairness

-----------------------------------------------------------------------------
(* Properties.                                                             *)

\* Every variable has its type.
FeedTypeOK ==
    /\ AssignTypeOK
    /\ offered \in SUBSET Markets /\ offeredNew \in BOOLEAN
    /\ shardNew \in SUBSET Shards /\ connected \in SUBSET Shards
    /\ \A k \in Shards :
         /\ subscribed[k] \in SUBSET Assets
         /\ pending[k] \in {Nothing} \union {<<S>> : S \in SUBSET Assets}
         /\ frames[k] \in Seq(Frames)
    /\ DOMAIN books \in SUBSET Assets /\ Range(books) \subseteq [Sides -> Versions]
    /\ venue \in [Assets -> Versions] /\ shared \in SUBSET Assets

\* Every book that can be read is one the venue really had: lost connections, dropped
\* and repeated subscriptions, changes that arrive before their snapshot and moves from
\* one connection to another never mix two states (apply_frame and run_once, clob.rs),
\* as long as no connection asks for the asset while another carries it still.
BookIsReal ==
    \A a \in DOMAIN books \ shared : \E n \in 0 .. venue[a] : books[a] = VenueBook(n)

\* As long as no connection is lost there is no book without a subscription to
\* keep it current, on however many shards.
BooksAreSubscribed ==
    drops = 0 => DOMAIN books \subseteq UNION {subscribed[k] : k \in Shards}

\* "maintains paired CLOB books" (README): once the targets, the connections and
\* the venue come to rest, the book of every target is there and up to date.
Maintained(a) == a \in DOMAIN books /\ books[a] = VenueBook(venue[a])
MaintainsBooks ==
    <>[](rejected = "no" => \A a \in AssetsOf(offered) : Maintained(a))

\* What the shard tasks keep of that promise: however late they learn of their targets
\* and whatever they lose, the books of all targets that two connections never carried
\* at once end up there and up to date, those that moved included.
MaintainsUnshared ==
    <>[](rejected = "no" => \A a \in AssetsOf(offered) \ shared : Maintained(a))
=============================================================================
