# A verification project for moni-strategy-beta

TLA+ models of the strategy daemon in `src/crates/moni-strategy-beta`, the TLC
configurations that check them on small instances, and proofs of all they check but
liveness, by TLAPS for every value of the constants.  Paths below are relative
to `src/crates/moni-strategy-beta/src/` unless they begin with `src/`;
`PROJECT.json` maps every definition to its lines.

    tlc -config SignalCycle_safety.cfg MCSignalCycle.tla     # a run
    tlapm SignalCycleProofs.tla                              # the proofs

Module and configuration of every run are in `PROJECT.json` under `runs`.

## 1. Inventory

| Component | State | Operations | Interacts with |
|---|---|---|---|
| evaluation cycle, `StrategyService` (service.rs) | `submitted`, `blocked_markets`, `daily_loss_halted`, heartbeats, cached fees | `run`, `iteration`, `evaluate_market`, `finish_opportunity`, `reconcile_monitor`, `check_risk` | everything below, one task that awaits Gamma, the CLOB, Monitor and the engine in turn |
| circuit state, `CircuitState` (gate.rs) | `active_cycles`, `unresolved_orphan`, `recent_signals_ms` | `can_start`, `started`, `terminal`, `set_unresolved_orphan` | called by the cycle before and after a submission and by the reconciliation |
| submission, `Submitter` (link.rs), `Monitor` (clients.rs) | the connection, the engine's capabilities | `submit`, `executions` | gRPC to moni-engine and moni-monitor |
| calibration gates, `GateState` (gate.rs) | samples, seen episode ids, statuses per direction and duration bucket; the state file and its temporary; the JSONL log | `record`, `evaluate`, `relock`, `relock_all`, `load`, `save`, `append_jsonl` | written by the cycle, saved at its end and on ctrl-c, loaded at start; by `manual-signal` (lib.rs) as well |
| opportunity episodes, `EpisodeTracker` (service.rs) | open episode of each market and direction, a sequence number | `episode`, `close_other_directions`, `close_market` | its ids decide what the gates count |
| decision log (service.rs, decision_store.rs) | heartbeats of rejections; the SQLite table | `log_decision`, `should_log_rejection`, `append` | written by the cycle, read by the summaries of other processes |
| store calibration and replay summaries (store_calibration.rs, store_replay.rs) | what they gather | `summarize_config`, `Accumulator`, `select_candidate`, `episode_slice` | the live table, the Store's snapshots |
| pricing (pricing.rs) | none | `best_for_direction`, `evaluate`, `validate_final_books` | called on WebSocket books, then on REST books |
| discovery, `GammaClient` (gamma.rs) | none | `discover`, `parse_markets` | pages of a listing that changes meanwhile |
| shard assignment (clob.rs) | shard of each asset | `assign` | fed with the targets of the cycle |
| market feed, `MarketFeed` (clob.rs) | subscriptions of each connection, the shared books | `run`, `run_once`, `apply_frame`, `apply_changes` | watch channels from the cycle to the assigning task to the shard tasks, one shared map of books back |
| REST client (clob.rs), configuration (config.rs), the rest of the command line (lib.rs, main.rs), metrics (metrics.rs), protocol (src/crates/moni-proto) | — | — | — |

What is hard in it, and what makes each part correct:

* **Cycle, circuits, engine.**  Limits are checked before an await and recorded
  after it; cycles end at the engine, and the service learns of it from a list it
  asks for once per cycle; answers are lost, the process restarts with an empty
  memory.  Correct means: memory and engine agree, limits hold of what is really
  open, at most one open cycle per market and direction, nothing stays taken or
  blocked for good.
* **Time.**  A sliding window of signals and a day of losses, both with boundaries
  that are met only by coincidence in a test.
* **Gates and episodes.**  Failing writes, relocks, restarts and saves come between
  the recording of a sample and the file.  Correct means: an episode counts once,
  what was saved stays, a gate opens only when its samples are old and many enough.
* **State file.**  Two processes save under one temporary name, a save is many system
  calls, and a process may end within one.
* **Decision log.**  Thinning that must lose nothing.
* **Summaries.**  Batches of a table and of a Store that both grow, a range of
  snapshots for each batch, pairs counted once, episodes, and a holdout that the
  selection must not see.
* **Pricing.**  Which quantities have to be tried, three roundings, and two feeds.
* **Feed.**  Three kinds of task that lag behind each other and write one map.
* **Discovery.**  Offsets in a listing that moves, lists that are replaced or rejected
  unnoticed, and room for pairs on connections that fill and empty.

`PROJECT.json` lists forty hazards at their lines, with the properties that would
show them.

## 2. Modules

| Module | Models |
|---|---|
| `SignalLedger` | abstract: which cycles may be open at the engine at all |
| `SignalCycle` | service task, circuit state, submission, engine and Monitor; implements `SignalLedger` |
| `CalibrationGate` | gates, episodes, state file, JSONL log, restarts |
| `AtomicFile` | abstract: what the state file holds, and when nothing is promised of it |
| `GateFile` | several processes that load and save the state file; implements `AtomicFile` |
| `DecisionLog` | heartbeats and the table |
| `ReplayReport` | split in time, episodes, selection of a candidate: operators only |
| `StoreSummaries` | extends `ReplayReport` with the two summaries beside service and Store |
| `Pricing` | selection, confirmation and rounding of an opportunity |
| `Discovery` | paging over a changing listing |
| `ShardAssignments` | incremental placement of asset pairs |
| `Subscriptions` | extends `Discovery` and `ShardAssignments`: from the listing to the connections |
| `MarketFeed` | extends `ShardAssignments` with the tasks, the venue and the shared books |
| `SignalCycleProofs`, `CalibrationGateProofs`, `GateFileProofs`, `DecisionLogProofs`, `StoreSummariesProofs`, `PricingProofs` | theorems about the module they are named after |
| `ConnectionsProofs` | theorems about `MarketFeed` and `Subscriptions`, which share the assignment |
| `FiniteFolds` | lemmas on finite sets, sorting by rank, and the folds and sums of the community modules |
| `MC*` | values of constants that a configuration cannot write, symmetry sets |

Each module holds, beside its definitions, *seeded faults*: a copy of one
definition with a plausible bug, marked as such and used by nothing.
`PROJECT.json` (`mutants`) says which property finds it in which run.

### SignalCycle

The service is one task, and an action is the stretch of code between two awaits:
`StartCycle` (reading `now_ms`), `Reconcile` (the body of `reconcile_monitor` after
Monitor answers, with any `listed` subset of executions the request limit allows),
`Discover`, one of `NoSignal`, `CannotStart`, `Submit` per market, and
`SubmitStarts`, `SubmitRejected` or `SubmitFails` when the call returns.  `pc` says
where the task is suspended; `cycleNow` is the `now_ms` of the cycle, which the code
hands around instead of reading the clock again; `circuitVars` and `monitorVars`
are the fields of `CircuitState` and `StrategyService` by their names.  A signal is
the record its SHA-256 id is computed from.  The engine (`Engine*`) is external: it
deduplicates by id, which `SubmitOutcome::Duplicate` presumes, and executions run,
recover, end with a profit or a loss, and may hold inventory after the end.  "failed"
is treated like "completed" by the code and "unknown" like "recovering", so the model
has one of each.  What a market's books and gate decide is an input (`NoSignal`).

`lost` is bookkeeping of the model: the signals of which the process has no record
although it sent them, because no answer came or because it died.  A later
"duplicate" answer takes a signal out of it again.  `KnownOpen`, the open cycles
outside `lost`, is what the safety properties are about, and the two properties that
speak of *all* open cycles, `NoSecondCycle` and `AggregateAtEngine`, are those the
code violates (section 5).  `starts` is bookkeeping too: the last Rate + 1 cycle times
at which a signal started, against which the window is judged.

### CalibrationGate

One action is the evaluation of one market, since nothing else reads or writes gates
or episodes while it awaits.  `Opportunity` is the whole of `finish_opportunity`:
other directions' episodes close, an episode is found or begun, the sample is
recorded, appended to the log and the gate evaluated.  `failure` says where it fails, if
it does: at the append, or after the gate was evaluated (a risk refusal, the submission,
the store of decisions); then the error comes back to `iteration`, which closes the
market's episodes and relocks its bucket.
`EndCycle` saves; `Crash` keeps the file as it was; `Shutdown` is the save on ctrl-c.
The samples the service records are all valid, without orphan and of positive profit,
so the branches of `RelockReason` for others are translated but not reached.  The
learned reserves are left out, and with them the orphan reserve.

### GateFile and AtomicFile

`CalibrationGate` saves in one step; here a save is what the system sees of
`fs::write` and `fs::rename`: `BeginSave` creates or empties the temporary file,
`Write` adds the text cell by cell, and `Install` renames whatever has the temporary
name by then.  Files are inodes, so that a process goes on writing into a file that
another has renamed meanwhile.  A state is a set of samples; its text has a cell for
each, in a fixed order, and one that closes it, so a cut or mixed text does not parse,
as JSON does not.
`Loaded` is empty for a file that does not parse, and then the process does not start.
`WriteFails` and `InstallFails` return the error: `run` logs it and goes on,
`diagnostic_once` ends.  `Stop` ends a process anywhere, ctrl-c's last save included.
`AtomicFile` promises that the file changes from one process's memory to another's in
one step; `overlapped` says that two saves have been under way at once, after which it
promises nothing, and `RepairedWhileUp` is what can still be said.

### DecisionLog

`Suppressed`, `Logged` and `LogFails` are the three ways through `log_decision`, in
the code's order: the heartbeat is set before the append.  `Decide`, `DecideFails` and
`LogError` place them in the cycle with its error handler.  `life` and `unwritten` are
bookkeeping: they tell rows before a heartbeat was forgotten from rows after, and the
markets whose heartbeat stands for a row that was never written.

### StoreSummaries and ReplayReport

`Start` reads the greatest id, `ReadBatch` is a turn of the loop: a batch of rows, the
range of snapshots asked of the Store for it, and the two loop bodies (`Observe`,
`Sampled`), which the accumulated record `acc` goes through; `Finish` makes the report.
Between them the service appends decisions, of its cycle's time and so not in the order
of time, and the Store samples books.  The properties do not follow the code: they
compare the report with what table and Store hold as a whole.  `late` excludes runs in
which the Store took a sample that a decision read already should have seen, which no
reader can know; and the Store samples a token at most once in an instant, without
which `max_by_key` would choose among equals.  What a candidate setting hits on two
books is an input (`Best`, which `Pricing` is about); `ReplayReport` turns hits into
slices and slices into the candidate.  The Store's answer is the set of snapshots in
range, and what `preceding` finds in it a set too, empty for `None`.  The hits of a
candidate are a function on the numbers of the observations hit, and `Order` is the
stable sort, which gives an element the number of those that go before it as its rank.
`WorldsAssumption` and `BestAssumption` say what tables, stores and inputs may be.
`EpisodesBelongTogether` defines an episode without an order, as a class of hits no cut
in time separates.

### Pricing

Prices are whole numbers of 1/One, money of 1/One^3, in which the products of the
code are exact; `Grain` is the unit rounded to.  `FindPreliminary` is the choice on
WebSocket books, `Refresh` lets the books become any others, `Disagree` and `Confirm`
are the two ends of the confirmation.  Stamps and skew of books are left out.

### Discovery, ShardAssignments and Subscriptions

An item of the listing is its rank by end date (ties keep one order), its `Offset` the
number of listed items before it, and a page the items with the offsets asked for.
`FetchPage` is one turn of the loop, `PageRefused` the 422 that ends it, `PageFails`
every other error.  `Eligible` stands for `parse_market`.  `Assign` checks the length of
a list, retains what it shares with the last and folds the loop over the pairs
(`AssignEach`), including what a failed list leaves behind.  `Subscriptions` joins them:
`Page` sends the subscribable markets when `discover` returns, into a channel that keeps
the last list only (`sent`, `fresh`), and `AssignSent` is the task that takes it when it
gets there.  `OutagesBoundedByClosings` and `ListingIsServed` compare the listing at one
end with the connections at the other.

### MarketFeed

`MarketFeed` adds the watch channels (last value only: `offeredNew`, `shardNew`), one
task per shard whose handling of changed targets is two actions because the code
awaits between sending the difference and removing books, frames in order per
connection, and a venue that answers a subscription with a snapshot and then sends
changes.  A book has two levels that the venue changes in turn, so a book mixed from
two states is recognisable.  `shared` is bookkeeping: the assets a connection asked for
while another carried them still (`Carries`: subscribed, being subscribed, or with frames
under way), which happens when an asset moves between shards and the task of the old one
is late.  Two tasks then write one book, and nothing orders them; `BookIsReal` and
`MaintainsUnshared` exempt those assets and no others, and `MaintainsBooks`, which exempts
none, is violated (section 5).  An asset that moves after its old connection dropped it,
or lost it, is not exempt.

## 3. Runs

| Run | Checks | Bounds |
|---|---|---|
| `SignalCycle_safety` | types, `CycleBookkeeping`, `ExposureWithinLimits`, `OpenCyclesTracked`, refinement of `SignalLedger` | 2 markets of one underlying, both directions, sizes 1 and 2, 2 executions, one crash |
| `SignalCycle_time` | `OneOpenCycle`, `RateWindow`, `LossStopsSubmissions`; `ActivePairReleased` and `BlockLifts` under fairness | 1 market and direction, 3 executions, clock 0..2, rate 2 per window of 2, profits and losses of 1, lost answers |
| `SignalCycle_lost_answer`, `SignalCycle_restart` | violated, section 5 | |
| `CalibrationGate` | `OneOpenEpisode`, `EpisodesCounted`, `OpenGateIsMature`, `SavedOnlyGrows` | 1 market, both directions, two buckets, clock 1..3, 2 episodes, one restart, failing writes |
| `GateFile` | refinement of `AtomicFile`, `OneByOneKeepsSamples`, `RepairedWhileUp` under fairness | one service and one manual-signal, 2 samples, 3 starts, one failing write, processes ended anywhere |
| `DecisionLog` | `RepeatsAreSpaced`, `SilenceIsExplained` | 1 market, 2 reasons, heartbeat 2, clock 0..3, 4 rows, one restart, failing appends |
| `StoreSummaries` | `CalibrationIsExact`, `ReplayIsExact`, `EpisodesBelongTogether`, `HoldoutIsUntouched` | 2 markets, tables of 3 rows (with old ones, and times that fall) in batches of 2 against every choice of 5 snapshots; tables of up to 9 rows over all fifths of the time; two changes meanwhile |
| `Pricing` | `FinalIsExecutable`, `NothingBetterLeft` | ladders of up to 2 levels at 3 prices and 2 sizes on each side, two-sided and empty books, price band on |
| `Subscriptions` | `OutagesBoundedByClosings`, `WithinCapacity`, `PairsTogether`, `PlacedIfTheyFit`; `ListingIsServed` under fairness | 4 items of up to 3 markets, pages of 1, 3 pages, 2 refused or failed requests, 2 connections of 5 assets |
| `MarketFeed_shards` | `BookIsReal`, `BooksAreSubscribed`, `MaintainsUnshared` under fairness | 2 assets, two connections of one asset, 3 lists, 2 drops, 2 changes |
| `MarketFeed_moved` | violated, section 5 | two shards |

Why this is enough.  The limits of `SignalCycle_safety` are such that two signals of
size 2 exceed each of the market, underlying and aggregate limits and other pairs do
not; the interesting conflicts are between two cycles, and two sizes let a pair get a
second, different signal.  Three executions at a rate of two per window of two make
every boundary of the queue occur, and the theorem covers all others.  The market of
`CalibrationGate` is at two times in one bucket, so that a gate can open, and at a
third in the next, where nothing may carry over.  Two restarts or a second heartbeat
would repeat situations that are reached with one.  Two processes are what it takes to
overlap, and three starts let one come after both.  In `StoreSummaries` a batch ends
within a table, its earliest decision is not always its first, snapshots are as old as
allowed and older, and two candidates differ in what they hit.  In `Pricing`,
`MaxPerCycle` is below the capital of the larger quantities, so that the limit decides;
`NothingBetterLeft` compares what is found with the quantities tried, and shows that one
between two of them earns no more than the better of the two, but for three roundings
(the limit itself may still lie between two, section 5).  In
`Subscriptions` the pages reach fewer items than may be listed, so that a discovery
also ends by `max_pages`, and lists are rejected for either reason: six tradable markets
are more than `max_total_assets`, and five are not but do not fit, because the odd limit of
five assets leaves room for two pairs on each connection.  The second kind leaves the pairs
placed before the failure behind, and the lists after it are placed on them.  Items close
and refused or failed requests come in every order.  In `MarketFeed_shards` an asset moves
between the connections in both ways, while its old connection carries it and after, and
either connection may be lost meanwhile.

`SignalCycle_safety` has crashes and two markets, `SignalCycle_time` lost answers and
books of several times; both together are what the proofs cover.  In
`SignalCycle_safety` and `CalibrationGate` markets or directions are symmetric; no
liveness run uses symmetry.

`CHECK_DEADLOCK FALSE` stands where clock, executions, episodes, rows, starts, lists,
the one evaluation or the one summary run out: the bounded model stops there and the
daemon does not.  `Subscriptions` is checked for deadlock.

**Fairness.**  `SignalCycle`: weak fairness of the steps of the service task and of
the engine's answers, because the runtime polls a task that is ready and a request
that was delivered is answered; strong fairness of Monitor's answers, because a
request may fail (`CycleFails`) but not all of infinitely many.  No fairness of
crashes, of failing submissions, or of the engine ending an execution: the liveness
properties only promise something once it has.  `GateFile`: weak fairness of the save
of a process that is up, since the interval ticks again after a cycle that failed;
none of starting or ending processes.  Failing writes are bounded.  This presumes that
cycles reach their save: an error of Gamma or Monitor ends one before it (`?` in
`iteration`), and as long as either keeps failing no save comes and a garbled file stays
garbled, which `RepairedWhileUp` says nothing about.  `Subscriptions`:
cycles begin again and again, requests return, and the assigning task runs; refused and
failed requests are bounded.  `MarketFeed`: weak fairness of the assigning task and of
each shard task; drops are bounded.  In `SignalCycle`, `Subscriptions` and `MarketFeed`
fair steps that change one variable nothing else changes in their place are stated by
that variable, which is the same condition and much faster to check.

## 4. Proofs

Every theorem has the form `Spec => []P`, or `Spec => P` for a refinement and an action
property, and rests on an inductive invariant of its module, which is described here
with what it adds to the property and why.

**SignalCycle** (`SignalCycleProofs`)

* `TypeCorrect` — inductive as it stands because `TypeOK` has the conjunct that an
  awaited request left a free place in the queue: without it the bound on
  `recentSignals` would not survive `SubmitStarts`.
* `BookkeepingCorrect` — `CycleBookkeeping` is inductive by itself; the one step with an
  argument is `Reconcile`, where removing a set of signals and removing their pairs
  agree only because no two submitted signals share a pair.
* `OpenCyclesAreTracked`, `OneOpenCyclePerPair` — with crashes and lost answers.
  `OpenCyclesTracked` is not inductive: an answer "rejected" might be about an open
  execution, and a request on the wire might be one nobody waits for.  `EngineInv` adds
  that a request on the wire is awaited or lost, that one that was answered is off the
  wire, and that a rejected one is not open.
* `RateWindowHolds` — `RateInv` relates the queue to the history: the queue is the
  newest part of `starts`, and what is in `starts` but popped from the queue is at
  least a window older than the current cycle (`PrunedIsSuffix`).
* `ExposureHolds` — `ExposureWithinLimits` with the finiteness of `submitted`, without
  which a sum means nothing; the lemmas `CapitalAdds` and `CapitalGrows` say that one
  signal more adds its size and that fewer signals never tie up more.
* `LedgerImplemented` — the refinement of `SignalLedger`, step by step: the initial
  state maps to the empty ledger, the steps by which a cycle comes to be open and known
  to `Open`, ends, crashes and lost answers to `Close`, everything else to a stutter.
* `LossLimitHolds` — `LossInv` says that the losses of what *counts since the cycle
  began* are below the limit from `Reconcile` to the end of the cycle.  Hypothesis:
  `MaxExecutions <= ListLimit`, Monitor lists every execution there is.  With more than
  `ListLimit` the code judges by an incomplete list.

**CalibrationGate** — `TypeCorrect`, `OneEpisodePerMarket`, `EpisodesCountOnce`,
`OpenGatesAreMature`, and `SavedSamplesStay`, an action property.  `IInv` says of memory
and file alike that a key's samples are those of the episodes it has seen, one each
(`Counts`), that a status is no older than the first sample (`Ages`), and that the file
is a prefix of memory (`Extends`), which is what a crash falls back to.

**GateFile** — `TypeCorrect`, `SamplesKept` (`OneByOneKeepsSamples`) and `SaveIsAtomic`
(the refinement of `AtomicFile`), for any number of processes.  `Undisturbed` says that
a save no other overlaps works on the temporary file alone, which holds the beginning of
its text, and that the gate file is whole; `OneByOne` that a process that was up alone
knows every sample of the file.  `TextType` and `TextParses` show that reading a text
gives back the state it was made of.

**DecisionLog** — `TypeCorrect`, `RepeatsHold` and `SilenceHolds`.  `Remembered` says
that a heartbeat stands for its market's last rejection in the table, unless that row
was not written; rows are in the order of time within and across lives.

**Pricing** — `TypeCorrect`, `FinalHolds` (`FinalIsExecutable`) and `BestIsFound`, on books of any
length and for every fee, reserve, limit and rounding scale.  `CandidatesAreReal` shows
that whatever passes `evaluate` can be filled within the depth and that the three
roundings never make its profit larger than the exact one; `BestIsReal` that the fold
of `best_for_direction` returns one that no other beats.  `BestIsFound` is the part of
`NothingBetterLeft` about the quantities tried, in both directions, and
`NothingBetterHolds` the whole of it: between two neighbouring breakpoints every level
of either book is filled not at all, wholly, or one unit more with every unit of the
quantity, so that the exact profit, a sum over levels, runs along a straight line
(`SumFunctionCombines`) and one of its ends is at least as high; the three roundings of
`evaluate` take at most a grain each.

**StoreSummaries** (`StoreSummariesProofs`), for tables and stores of any length, batches
of any size and any grid of candidates.  `SumInv` has the types, that a token is sampled
once in an instant, how far the reading is, and that the report is what `Finish` makes
of the record.  `Described` adds what the record says: until a snapshot is `late`, the
first `afterId` decisions have been given what the *whole* Store has for them.

* `SummariesTypeCorrect` — types, ages within `MaxAge`, and no observation in a sixth
  part of the time (`SplitIs`).
* `SummaryIsExact` (`CalibrationIsExact`) and `ReplayIsOfThePairs` (`ReplayIsExact`) — the
  range asked of the Store for a batch is enough for each of its decisions
  (`StreamedIsEnough`, `BatchSees`), and decisions and snapshots that are added later
  change nothing for those already read (`ViewsStay`).  The fold over a batch is taken
  decision by decision (`GatheredSteps`, `ChainHolds`).  The ages gathered are then
  paired off with the covered legs, so that the sorted list has the same median
  (`MedianIs`), and the keys seen with the decisions that were the first to see a pair.
* `HoldoutStaysUntouched` (`HoldoutIsUntouched`) — taking out the hits of the last fifth
  leaves the slices of training and validation as they are, on which alone
  `select_candidate` decides.
* `EpisodesAreOfThoseTogether` (`EpisodesBelongTogether`) — the sort lists the hits in
  their order (`HitsListed`); two hits have no cut between them exactly if no episode
  begins between them in that list (`CloseIsJoined`), so that the classes are those the
  beginnings make (`ClassesAre`), and the sums of least profits agree along that
  bijection (`SumAlong`).  The candidate is one of the grid because the order it is
  chosen by has a greatest element (`BestExists`).

**ShardAssignments and MarketFeed** (`ConnectionsProofs`, on the specification of
`MarketFeed`, whose lists are arbitrary)

* `FeedTypeCorrect`, `CapacityHolds`, `PairsStayTogether` — `AssignInv`: what is assigned,
  and what the shards were told last, is `Sound`, at most `MaxPerShard` assets on each
  and a market's assets on one shard or on none.  A turn of the loop over the pairs
  preserves it, and so does a list that fails in between.
* `ListsThatFitArePlaced` — every list that fits empty connections (`Fits`) is placed,
  whatever the lists before it left behind, those that failed half way included.  The
  lemma behind it counts (`RoomIsLeft`): were no shard to have room, each would carry as
  many pairs as it can, and all pairs of the list would be placed.  With an even
  `max_assets_per_connection`, as the default (200), every list within `max_total_assets`
  fits (`WholePairsFit`); with an odd one a place is lost on each shard.
* `BooksHaveTasks` (`BooksAreSubscribed`) — a book belongs to a subscription as long as
  no connection was lost.
* `BooksAreReal` (`BookIsReal`) — no book mixes two states of the venue, on any number of
  connections and without a hypothesis on the limits.  The property exempts the assets in
  `shared`, of which it is false: frames of the shard that had the asset and of the one
  that has it now both reach the map.  `OrderInv` says of each connection that the frames
  under way, applied to the books in their order, lead each from the state it has through
  consecutive states to the venue's; it names what holds after the i-th frame (`After`),
  because `Receive` takes frames one at a time and difference and books change in two
  steps.  `Alone`, that of an asset not in `shared` one connection at most has frames or a
  subscription, is what makes the order on one connection enough: a step of one task
  disturbs no book that another carries (`OthersInOrder`).

**Discovery and Subscriptions** (`ConnectionsProofs`) — `TypeCorrect`,
`SentListsKeepLimits` (`WithinCapacity`, `PairsTogether`) and `SentListsArePlaced`
(`PlacedIfTheyFit`), which are the properties of the assignment for the lists that
discoveries send, and
`OutagesHold` (`OutagesBoundedByClosings`).  The property speaks of a finished
discovery; `DiscoveryInv` says what holds between two pages: of the items listed since
the discovery began, those before the offset of the next page that have not been read
(`Missed`) are at most as many as closed meanwhile.  An item that opens moves others to
later offsets only (`OpeningMoves`), one that closes moves them one place at most
(`ClosingMoves`), so that a closing adds one item to `Missed`, the first of the page to
come; a page that is read adds none, and after a page with fewer than `PageLimit` items
no item is left (`ShortPageIsLast`, a count of offsets).  That closings are at most as
many as there are items needs a part of its own: what closes is not listed again.
`SubInv` carries the bound over to the connections: what was sent is what the last
discovery found, and a list that was not rejected is carried as a whole, by an
induction over the loop over its pairs (`EachPlaces`).

**Assumptions.**  `LimitsAssumption`, `GateAssumption`, `FileAssumption`,
`LogAssumption`, `SummaryAssumption`, `ReportAssumption`, `PricingAssumption`,
`ShardAssumption`, `FeedAssumption`, `DiscoveryAssumption` and `TradableAssumption` state what `config.rs` validates (limits
are positive, an age is not negative, a connection carries at least one asset and
`max_total_assets` no less than one connection), that markets, items, assets and
processes are finite in number, that a page is of at least one item, and that a book's
levels are a sequence of prices between 0 and 1 and positive sizes.  `WorldsAssumption`
says that tables and stores hold decisions and snapshots and that the Store samples a
token once in an instant, `BestAssumption` that what `select_best` finds has a direction
and a whole profit.  Bounds such as
`MaxTime` and `MaxCrashes` are any natural numbers.

**Folds and sums.**  Sums of the models are folds of the community modules, over
finite sets.  `FiniteFolds` proves what is needed of them without an induction theorem:
strict inclusion is well-founded on the subsets of a finite set, so a set of
counterexamples has a smallest one, and removing an element from it gives a
contradiction (`SmallestSubset`).  `SumExists`, `SumUnique` and `SumAdds` tie the
recursive function inside a fold to a function with the arithmetic one expects;
`SumFunctionCombines` says that sums of linear combinations are what they should be.
`RanksOf` and `RankedIs` are about sorting: the ranks of a strict order on a finite set
are the numbers below its size, each once, and the list by ranks is increasing.

**Only model-checked.**  Liveness (`ActivePairReleased`, `BlockLifts`,
`RepairedWhileUp`, `ListingIsServed`, `MaintainsUnshared`) needs fairness and `ENABLED`,
which the prover does not handle.  Every invariant, action property and refinement that
a passing run checks is stated by a theorem.

## 5. Where code and documents differ

Three have a run that ends in the violation:

* `SignalCycle_lost_answer`: link.rs:63 — a submission that fails in transport is
  forgotten although the engine may have it; with newer books the id is another one
  and a second cycle starts, which gate.rs:346 says is refused.
* `SignalCycle_restart`: service.rs:143 — a restarted service knows of no open cycle
  and applies its limits from zero; src/SPEC.md:147 limits all open executions.
* `MarketFeed_moved`: clob.rs:381 — the shard that drops an asset removes its book
  from the shared map, possibly after the new shard stored the snapshot; the book of
  a subscribed asset is then missing until the next snapshot (src/README.md:4-5).

Others, found while modelling; the properties above are stated so that they hold with them:

* service.rs:607 always passes `false` to `set_unresolved_orphan`: the refusal
  "an unresolved orphan blocks new cycles" (gate.rs:340) cannot happen.  An orphan
  blocks its own market only.
* service.rs:184: freshness is judged against the start of the cycle, not against
  the moment of submission (src/SPEC.md:161).
* service.rs:144: episode numbers begin at 1 after a restart, and an episode whose id
  an earlier process used is not counted (src/README.md:35).
* service.rs:231: an error behind an open gate, a risk refusal for instance, closes the episode as
  invalid data would, so one lasting opportunity is counted again (src/README.md:35).
* service.rs:727: the heartbeat is stored before the append; if that fails the
  rejection is silent for a heartbeat (src/README.md:39-40).
* service.rs:625: decisions about opportunities do not touch the heartbeats; the
  return to the rejection before is not recorded (src/README.md:39-40).
* pricing.rs:205: with `max_per_cycle` between two breakpoints no smaller quantity is
  tried (src/SPEC.md:109).
* service.rs:358: the feeds are compared for the preliminary quantity, and the final
  one is chosen afterwards (src/SPEC.md:163).
* gamma.rs:82: a market that closes between two pages can hide an open one;
  `OutagesBoundedByClosings` says how many at most (src/SPEC.md:5).
* gate.rs:266: `manual-signal` and the service each save what they hold: of two that
  were up at once the later save drops the samples of the other, and
  two saves at once may leave a file that does not load until the next save.
* service.rs:278: market information is cached before it is validated and refreshed
  only behind an opportunity on the cached one: a market first met while it takes no
  orders stays rejected as long as it is listed (src/SPEC.md:5).
* pricing.rs:324: a book newer than the start of the cycle is rejected as future-dated,
  in the last refresh too, and the market handled as invalid data.
* clob.rs:444: while two connections carry one asset (a move to another shard with the
  old shard's task late) changes from both reach one book, which may then mix two states
  (src/README.md:4-5); `BookIsReal` exempts these assets.
* clob.rs:299: with an odd `max_assets_per_connection`, which config.rs admits, a list
  within `max_total_assets` may be rejected: no connection carries half a pair.
* clob.rs:238: a list that is rejected as a whole is only logged; the service goes on as
  if its markets were subscribed.
* src/README.md:28-31 announces an import of an existing JSONL file into a new
  decision database; decision_store.rs has none.

## 6. Not modelled

The REST client and the rest of the command line (request and response; dispatch),
configuration (what `validate` guarantees is in the assumptions), metrics (never read
back), the protocol bindings (generated).  Within modelled components: parsing of frames
and markets, PING and the reconnect delay, skew between two books, the cache of market
information and the comparison of the two fee curves, the capability handshake, learned
reserves, observe-only mode (a `NoSignal` for every market), spreads and the funnel of
the summaries, a machine that stops (save does not sync), a clock that steps backwards,
and a venue that sends snapshots nobody asked for.  The gRPC calls have no deadline; the
models assume that they return.

## 7. Plan

Done: `SignalCycle` with `SignalLedger` and its proofs, `CalibrationGate`,
`DecisionLog`, `Pricing`, `ShardAssignments`, `MarketFeed`, `Discovery`, then `GateFile`
with `AtomicFile`, `StoreSummaries` with `ReplayReport`, and `Subscriptions`; proofs
about all of them (section 4).  Next:

1. The cache of market information with the two fee curves, over several cycles.
2. The cycle composed with the gate, so that what `NoSignal` and `failure` leave open
   is decided; the capability handshake and the reconnect delay.
