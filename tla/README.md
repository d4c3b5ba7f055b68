# MarketHub: a TLA+ verification development

This directory holds TLA+ models of the stateful parts of MarketHub, the TLC
configurations that check them on small instances, and TLAPS proofs that all of what
those runs show of safety holds for every value of the constants. Every definition is a
translation of the Python source;
`PROJECT.json` maps each one to the lines it stands for, lists the checks, the hazards
they are for, and the places where the code and its own documentation disagree.

1. [The system](#1-the-system)
2. [Modules](#2-modules)
3. [Runs](#3-runs)
4. [Fairness](#4-fairness)
5. [Proofs](#5-proofs)
6. [Where code and documentation part](#6-where-code-and-documentation-part)
7. [What is not modelled](#7-what-is-not-modelled)
8. [Plan](#8-plan)

To repeat a check: `tlc -workers 2 -config MCReplay.cfg MCReplay.tla`; to repeat the
proofs of a module: `tlapm PublicationProofs.tla` (each takes seconds to a few minutes).

## 1. The system

MarketHub is one asyncio process. Broker feeds and pollers ("sources") run as
background tasks; they publish events and apply quotes. A SQLite store keeps events,
consumers, acknowledgements, checkpoints, alerts and runtime state. MCP tools and HTTP
routes let clients replay and acknowledge, control sources and manage alerts.

Everything runs on one event loop, so a step of a task is atomic up to its next await.
Every store call goes to a worker thread (`asyncio.to_thread`), opens its own SQLite
connection and runs one transaction. Concurrency therefore comes from three places:
tasks interleave at awaits, transactions interleave with each other, and a worker
thread keeps running, and commits, when the task that waited for it is cancelled.

| Component | State it keeps | Operations that change it | Talks to |
|---|---|---|---|
| Durable event store, `core/persistence` | tables of events, consumers, topics, delivery rows, checkpoints | register, add topic, save, mark returned, acknowledge, advance, prune | everything that publishes; the replay tools; the retention task |
| Replay tools, `mcp_server/tools/replay.py` | none: several store calls per tool call | list pending, acknowledge (and advance) | event store |
| Event publication, `core/events.py` | recent history, recent journal | `publish_event`, `finalize_persisted_event`, restore at start | store, MCP bus, SSE broker, generic alerts |
| SSE broker, `core/sse_broker.py` | a bounded queue per connection | broadcast, subscribe, disconnect | publication |
| Generic alerts, `core/alerts.py` | alert rows, one lock per alert | evaluate, trigger, record, create, enable, disable | publication, in both directions |
| Source lifecycle, `sources/__init__.py`, `core/runtime.py` | registered tasks, stop events, flags | start, stop, restart, start all, shutdown | HTTP routes, feeds, pollers |
| HTTP poller, `sources/http_poller.py` | id list in memory, table of seen ids, cursor | one polling cycle | upstream, store, publication |
| Market state, `market/service.py` | one quote and one depth per instrument | apply quote, apply depth | feeds; calls the alert engines back |
| Market alerts, `app/alerts.py` | rules and previous values in memory, table | evaluate, trigger, reload, rule routes | market state, publication |
| Condition alerts, `app/condition_alerts.py` | three-valued leaf and root states in memory and table, dependency index, last values | evaluate, trigger, save states, reload, tools | market state, analytics, publication |
| Chain analytics, `app/market_analytics.py` | registered chains with their alerts, snapshots, the scheduler's round | register, unregister, reconstruct, refresh | condition alert tools, REST adapters |
| Upstox feed, `brokers/upstox/feed.py` | connection state, desired instruments, live socket, lock | run, add and remove instruments, new credentials | broker, market state |
| Fyers feed, `brokers/fyers/feed.py` | the same, plus the symbol translation and the numbered topics of the session | run, add and remove instruments, decode, deliver | broker, market state |
| Tick-by-tick feed, `brokers/fyers/tbt/` | desired symbols, one order book each | run, subscribe, unsubscribe, apply snapshot and delta | broker, market state |
| OAuth and secrets, `secrets_store.py`, `secrets.py`, auth routes | key file, encrypted rows, cached keys, credentials and tokens in memory, pending logins | save, delete, boot, login, callback | brokers, feeds |
| Schema, `store.py`, `schema.py` | version stamp, tables and indexes | create, migrate | every table above |
| Watchlists, `products.py`, `product_routes.py` | lists, items, subscriptions made for them | create, rename, delete, add, remove, import | feeds |
| Instrument catalog, `instruments.py` | one set of rows per provider | sync | brokers |
| Composition, `app/server.py` | what boot puts into memory | start, stop | everything |

Behaviours that are hard to test, and what should be true in spite of them:

* **Several transactions per call.** Acknowledge and advance, select a page and mark
  it, publish and record: other writers get in between, or the second never happens.
  No event may be lost, a checkpoint may not pass a debt, a one-shot alert may not fire
  twice without a fault.
* **Tasks cancelled while a thread commits.** Stopping a feed cancels what it awaits.
  Memory must not run ahead of the store, nor fall behind in a way that repeats work.
* **State used after an await.** Rules replaced by a reload, a source stopped while a
  restart awaits its old task, an alert disabled between its two reads.
* **Moving windows.** Retention prunes under a paging client; the upstream page moves
  under the poller; a full SSE queue.
* **Sessions.** Feeds reconnect; what was asked for, translated, numbered or counted in
  one session is still there in the next, and handlers change it meanwhile.
* **Kills between commits.** Migrations, key replacement and boot write in several
  steps and must be able to go on from any of them.
* **Order.** Quotes in two clocks, journal and history and streams at different awaits.

## 2. Modules

| Module | Models |
|---|---|
| `Inbox` | abstract specification: what durable delivery promises a consumer |
| `EventStore` | every transaction of the event, consumer, delivery and checkpoint tables; implements `Inbox` |
| `LiveStream` | abstract specification: what live notification promises a listener; `Publication` implements it |
| `ReplayService` | the replay tools over `EventStore`, with all other writers in between |
| `Publication` | publication, journal, SSE and generic alerts over `EventStore` |
| `SourceManager` | the lifecycle of one source: handlers, task manager, its tasks |
| `HttpPoller` | the polling loop, deduplication and cursor |
| `MarketAlerts` | one instrument's quote and the market rules on it |
| `ConditionAlert` | one `market_condition` alert: tree, states, trigger transaction, tools |
| `UpstoxFeed` | the Upstox feed: sessions, subscription lock and mutations, stop, cancellation |
| `FyersFeed` | the Fyers feed: lookup, topic numbers, decoding, delivery by tasks |
| `OrderBook`, `TbtFeed` | the tick-by-tick book as operators, and the feed that keeps books |
| `ChainAnalytics` | condition alert tools, chain registry, refresh loop |
| `Schema`, `Credentials`, `Watchlists`, `Catalog` | parts of the server over one database |
| `Server` | their composition: boot, serving, kills and restarts |
| `MC…` | small instances of the above for TLC |
| `EventStoreProofs`, `ReplayServiceProofs`, `PublicationProofs`, `MarketAlertsProofs`, `ServerProofs` | theorems about the module each is named after (section 5) |
| `SourceProofs` | theorems about `SourceManager`, `HttpPoller` and `FyersFeed` |
| `AlertProofs` | theorems about `ConditionAlert` and `ChainAnalytics` |
| `FeedProofs` | theorems about `UpstoxFeed` and `TbtFeed` |

`ReplayService` and `Publication` both extend `EventStore`: the same transactions,
seen from the calls that run them. `Server` extends its four parts and conjoins their
steps; each part says what a kill forgets. `TbtFeed` instantiates `OrderBook`. Modules
that share a proof module give their specifications, bounds and common variables names
of their own (`PollerSpec`, `FyersSpec`, `TbtSpec`, `ServiceSpec`), so that the proofs
extend them as they are.

The first invariant of each module also asserts its `TypeOK`.

Operators named `… Mutant of X` are plausible wrong versions of `X`. They are used by
no specification; `PROJECT.json` pairs each property with the mutant that breaks it.

### EventStore and Inbox

An event is its sequence number. Its id, type, source and payload decide nothing here;
its age is chosen by `Prune` from all subsets, because `created_at` is the publisher's
clock and need not follow the sequence. A delivery row is a pair
`<<consumer, sequence>>`; a nullable timestamp column is the set of rows where it is
set. One action per `EventStore` method: `RegisterConsumer`, `AddTopic`, `Save`
(the event and its audience's rows in one transaction), `MarkReturned` (the upsert of
`replay_events`, which needs every event of the page to exist), `AcknowledgeEvent`,
`AdvanceCheckpoint` (candidate from the first unacknowledged event, monotone guard),
`Prune` (age and row limits, minus what a consumer still requires). Foreign keys are
part of `StoreTypeOK`.

`Inbox` knows only registered consumers, the topics they follow, how many events were
published, and who still owes an acknowledgement for which. A debt is created by
publication and removed by its consumer's acknowledgement. `KeepsPromise` says that
the store implements it, with `owed` mapped to what a replay from the durable
checkpoint would hand out. Advancing, replaying and pruning must be stuttering steps.

### ReplayService

`consumer_event_pending_list` becomes `BeginReplay`, `SelectPage`, `ReturnPage` (or
`ReturnPageFails` when an event of the page was pruned, which raises);
`consumer_event_acknowledge` becomes `Acknowledge` and `Advance`. `LoseReplay` and
`LoseAdvance` are a timeout, a disconnect or a restart in the middle; the thread of a
call that timed out may still mark its page. `session` follows one paging client per
consumer, which passes `next_after_sequence` back while `has_more` holds. `due` and
`got` are history: what was pending when paging started, and what was handed out.

### Publication

A task's publication is a frame of a stack: `save`, `journal`, `wake`, `candidates`,
and, per matching alert, `lock`, `fresh` and `record`. A step reaches to the next call
that leaves the loop; `broadcast` and the evaluation's loop header are synchronous
and belong to the step before. The `alert.triggered` event of an alert is published
from inside the evaluation that holds the alert's lock, so it is a second frame on
the same stack. `EvaluationFails` is an exception inside an evaluation (isolated by
`_maybe_evaluate_alerts`), `SaveFails` one of the save (which ends a nested evaluation
and not the outer publication), `Cancel` a cancellation at any await, after which
the thread's transaction may still commit, and `Restart` rebuilds the history from
the journal. Conditions are compared with the payload as in the code: missing fields,
mixed types and booleans included (`compare_values`, `alert_matches`), and creation
refuses what validation refuses (`Valid`). `Watchers` are alerts whose source is the
alert engine itself, the case the recursion guard exists for.
`struck` collects the publications a fault cut short.

`LiveStream` says what the connections amount to: a listener hears what was said since
it began to listen, in order and leaving nothing out; how far it gets is not promised,
since a full queue ends its registration. Under `Live` what was said is `broadcasts`, a
listener is an open connection and what it heard are the lines it was sent. Queues and
registrations are gone, so a broadcast is `Say`, a line sent is `Hear`, and
`Disconnect` and `Restart` are both `Leave`. The run checks this refinement;
`StreamsAreGapless`, which also counts the lines still queued, is proved beside it.

### SourceManager

One source. `task` is what `BackgroundTaskManager._tasks` holds; every created task is
a `Run` with a phase and the stop event it listens to. The three route handlers are
processes (`Call`); a stop waits for the grace window, then cancels and awaits; a
restart cancels, awaits and starts. `cancel_and_wait` pops the name before it awaits,
which is why other calls see no task meanwhile. A task may end by itself at any time,
may ignore its stop event, and takes as long as it likes to clean up. `Shutdown` is the
lifespan's teardown, which begins when the handlers have returned: `SignalAll` sets the
events, `CancelAll` empties the manager and cancels, `TeardownOver` is the end of the
bounded wait. `ChangeReady` is the readiness gate, and `UpdateCredentials` what a login
does to a source that waits for one.

`StopReason` is what `get_status` reports, in its order: a source's own `auth_required`,
the words of a run that ended `terminal` or with an `error`, nothing while a task
runs, then what the manager recorded, then the last words of any other kind.
`NotesExit` is how a run ends: the words the source keeps, or the wrapper's if it
keeps none. So `AnswersAfterCleanup` says "shown as stopped" with the exceptions the
function makes.

### HttpPoller

An item is its number in order of creation, which is also its cursor value. The
upstream lists its newest `Window` items, oldest or newest first, and may or may not
honour the cursor as a lower bound. One action per call that leaves the loop:
`GetCursor`, `FetchJson`, `IsSeen`, `Publish`, `MarkSeen`, `Prune`, `SetCursor`.
Skipping what the in-memory list knows is synchronous and part of the step before.
`BreakBatch` is the `except` clause that leaves the rest of the page to the next
cycle. `Rejected` items are those `publish_event` always refuses. `Interrupt` is a
restart (the instance keeps its memory) or a crash (it does not); the thread may
have committed.

### MarketAlerts

A delivery is received (and stamped) and later applied: the instruments of one Upstox
message are applied in turn, and Fyers starts a task per tick. `ApplyQuote` is the
stale check, the merge and the evaluation up to the first rule that fires: nothing in
between suspends. There the trigger is recorded, synchronously, and its publication
awaited; `Announced` marks the rule and goes on. `Reload` replaces the rule objects, so
a delivery in flight goes on with the old ones (`held`). A publication that raised
and one that returned have the same effect and are one action. `forgotten` and
`excused` are history: the rules whose announcement was cancelled since the last
reload, and the rules the newest quote has not been compared with, or in vain.

### ConditionAlert

One alert with a root group, leaves and at most one nested group. A value is only ever
compared with its leaf's threshold, so it is `above`, `below` or `none`; results are
three-valued as in the code. An evaluation queues at the alert's lock, computes,
and then either runs the trigger transaction (`SaveTrigger`: states, alert row and
event at once), saves its states, or ends. `Remember` is the in-memory update after the
commit. `LeaveIndex` takes a `once` alert out of the index. `Cancel` detaches a running
transaction. `Refresh` is the analytics service replacing a leaf's chain snapshot.
The tools are three steps (reset, enable, reload) and may break off.

`disturbed` becomes true when a tool call, a reload or a cancellation meets an
evaluation in flight, and when a tool call breaks off; it becomes false when
`ResetStates` starts the alert over with nothing in flight. In disturbed histories
the engine really can differ from the store (section 6), so the properties are about
the others. `LeavesRememberObservations` leaves out the nested group, whose new sides
the code may drop (also section 6).

### UpstoxFeed

One run is a loop over `authorize`, `connect`, `subscribe`, `recv`, `apply`,
`hangup`, `release`, `close` and `backoff`; each label is a place where the code waits. Handlers
change the desired set under the fair lock (`_sub_lock`, a queue) and then send their
frame under it again; in between, the run or another handler may take it. A socket
remembers what the broker was told on it (`granted`), whether it is open here and
alive there. `Stop` sets the event. A session that ends with an error closes its socket
first (`HangUp`, `HungUp`); `Release` is its `finally`.

`Cancel` is `cancel_and_wait`, which takes the name out of the registry before it
waits: the run becomes one of the `leaving`, and `Start` may begin another run of the same
instance at once. A leaver closes its own socket where its handler does
(`SocketsOnCancel`, `LeaverHungUp`), clears the live socket in `finally`
(`LeaverReleases`), takes and closes whatever is live by then in `_close_live_ws`
(`LeaverAborts`) and sets the label (`LeaverEnds`). The live socket may be another run's
by then: the model has what the code does about that, which is nothing.

`missed`, `lost` and `overlapped` are history: keys changed while a socket was live and
the label did not say streaming, which no frame covers until the next session; open
sockets that no run will close any more; and whether a run was ever started while another
was leaving. `BrokerFollowsDesired` excuses a session of overlapping runs only when
its socket is no longer the live one, and `NoSocketLeaks` what is `lost` only if runs
overlapped (section 6).

### FyersFeed

The Fyers broker talks of topics. A REST lookup translates the desired symbols once
and the feed keeps the result; a session subscribes the topics and the broker numbers
them as it likes (`Subscribe`, external). A snapshot names its topic, an update has
only the number, which `_sym_data` resolves, and `_sym_data` outlives the session.
`Receive` decodes a whole message: a record the normalizer refuses ends the message.
Every emitted tick gets a task of its own, and `Deliver` runs them in any order the
event loop allows (first in, first out, as they never suspend before applying).
`Parsed` is the decoder's loop over the records of a message.

An answered lookup names any subset of the keys it was sent (`Resolved`); a key it does
not name stands for itself, except an `Index`, an index of the NSE, whose topic the code
makes up from the symbol. An answer is kept, whatever it lacks; after a failed lookup
nothing is (`AfterFailedLookup`). Cancelled runs leave as in `UpstoxFeed`. Of their own
sockets nothing is kept but whether one is still the live one (`former`).

`skipped` and `barren` are history: keys with a refused record or one dropped behind
it, and whether an answer was kept that gives no desired key a topic.

### OrderBook and TbtFeed

`OrderBook` is the pure part: sequence check, snapshot, delta, what is held.
`TbtFeed` is one session over it: the exchange (external) changes a book and sends
snapshots and deltas, which may be left out or repeated; a gap invalidates the book
and resubscribes it by two frames with a wait between. `history` keeps the exchange's
book per sequence number, which is what `BookIsTheExchanges` compares with.
`Unreadable` is a message in sequence that the normalizer refuses: the book stays.
Calls send their frames outside the lock; `Due` says that some frame for a symbol is
still to be sent, and `disturbed` is history: symbols a call changed while one was, or
with a snapshot that could not be read.

### ChainAnalytics

A tool call is `Ask` (ownership and validation), `ThreadCommits` (the row) and
`FinishCall` (reload the engine, register the chains; one step on the event loop).
`CancelCall` breaks it off between the two, `DetachedCommits` lets its thread commit.
`Tick`, `RefreshOne`, `Fetched` and `Sleep` are the scheduler; `Answer` is what asking the market service
can come to. `Start` rebuilds memory from the rows as `reconstruct_from_alerts` does.
`OnceFires` is the engine disabling a once alert.

### Schema, Credentials, Watchlists, Catalog and Server

`Schema` gives every migration as the sequence of its commits (drop, make, plain or
`IF NOT EXISTS`, stamp), in the order of the code, because only the first migrations are
transactions and the later ones stamp before or after their tables. `MigrateStep` commits
the next one, `MigrateFails` is a `CREATE TABLE` of a table that is there.

`Credentials` has one key in the file (keys are numbered), one row per secret that
remembers its key and value, and two stores in the process which cache a key each.
`_get_encryption` is the decision of the code: use the cached key, read the file, make
one, replace one. Boot reads Fyers' credentials (moving plaintext ones from the
configuration), configures the Upstox login and trades the refresh token. Logins and
callbacks are handlers with their awaits. The two rows of an app's credentials are
written in one transaction and are one row; the Fyers callback reads it twice.

`Watchlists` has a step per store or feed call of each route; removing an item counts
the references list by list before it unsubscribes. The feed knows instruments by their
`Token` only, without the exchange, as the server's adapter does. `Catalog` has a step
per fetched file and the replacement at the end. A Fyers segment that cannot be fetched is
left out (`failed`) and the sync goes on; the Upstox file, or one that is no JSON, ends
it. `unfetched` is history: what the sync a catalog comes from left out.

`Server` starts (`StartServer`), migrates, reads the credentials, serves, and may be
killed at any step (`Crash`), which forgets memory and keeps the file. Requests are
counted by `MaxCalls`; the callback of a login that was begun is not. While the server is
down, the key file may be lost or replaced (`KeyFileFault`). A database of the newest
version may have been in use, with lists, items and secrets; older ones are empty.
Where several handlers, requests or workers are free, one is chosen; they are
interchangeable.

## 3. Runs

Times are for two workers.

| Run | Instance | Distinct states | Shows |
|---|---|---|---|
| `replay` | 2 consumers of which 1 pages, 1 topic, 2 events, pages of 1, 1 retained row, age limit, 1 lost call | 380,000 (150 s) | `CheckpointSafe`, `CheckpointMonotone`, `KeepsPromise`, `PagingComplete`, `EventuallySettled` |
| `source_manager` | 2 concurrent handlers, 4 stop events, teardown | 583,000 (140 s) | `NoOrphan`, `AnswersAfterCleanup`, `CallsReturn`, `ShutdownEndsTasks` |
| `condition_alert` | 2 feeds, a crossing, a level and a nested analytics leaf, 2 triggers, 1 fault | 981,000 (80 s) | `MemoryMatchesStore`, `LeavesRememberObservations`, `TriggersAreTransitions` |
| `http_poller` | 5 items, pages of 2, item 4 refused, lists of 2 and 3, 2 mishaps | 42,600 (15 s) | `OneDuplicatePerFault`, `SeenWasPublished`, `Ingested` |
| `publication` | 2 tasks, 2 feed events, 1 consumer, 2 alerts (one watching the engine) created or enabled twice together, 1 connection with a queue of 1, journal of 2, 1 fault | 1,330,000 (75 s) | `OwedAreWoken`, `OneTriggerPerEnabling`, `StreamsKeepPromise`, `CausesComeFirst`, `HoldersNeverWait` |
| `market_alerts` | 2 deliveries, 2 level rules and a crossing rule, 4 kinds of patch, 3 patches, 2 calls, 1 fault | 1,350,000 (65 s) | `TriggeredIsKnown`, `NoMissedLevel`, `ExchangeTimeMonotone` |
| `upstox_feed` | 2 instruments (1 configured), 2 handlers, 1 cancelled run at a time, 2 connections, 2 calls, 1 frame, 3 faults | 677,000 (105 s) | `BrokerFollowsDesired`, `NoSocketLeaks`, `StopEndsRun` |
| `fyers_feed` | 2 instruments (1 configured, its first tick refused; 1 an index), 1 handler, 1 cancelled run at a time, 2 starts, 2 calls, 1 tick, 1 fault | 951,000 (170 s) | `QuotesAreTheirOwn`, `CaughtUp`, `SessionsSubscribe` |
| `tbt_feed` | 1 symbol, 2 prices, 2 subscribers, 4 states of the book, 3 requests, 2 failures | 767,000 (20 s) | `BookIsTheExchanges`, `BooksAreFed` |
| `server` | databases of versions 0, 1, 2, 3 and 13, 2 callbacks, 2 requests, 2 lists, 1 instrument, 2 segments, 2 syncs, 3 calls (2 if the database is migrated), 1 fault | 925,000 (95 s) | `SchemaComplete`, `BootCompletes`, `RotationOrphansNothing`, `SavedWins`, `SingleExchange`, `StableReferenceKeeps`, `CatalogIsWhole` |
| `chain_analytics` | 2 alerts (one on a chain and a quote, one on 2 chains), 2 callers, 1 breakage | 638,000 (60 s) | `EnabledAreServed`, `NoChainStarves` |

The `violation` run, `chain_snapshots`, is in section 6.

Why these bounds:

* `replay`. Consumers share nothing but events and pruning: one client pages, the other
  is somebody for retention and routing to forget. Two events and pages of one give a
  page boundary, a candidate below, at and above the checkpoint, and one retained row
  with an age limit makes every subset prunable. One lost call is enough to leave an
  acknowledgement without its advance. The proofs cover all other sizes of the store.
* `source_manager`. Two handlers give every overlap of two calls. Each start takes a
  fresh event, so four events allow a start, two overlapping restarts, and one more
  start after either. Once they are used up no further start is accepted; calls in
  progress go on.
* `condition_alert`. Two feeds give one waiting and one evaluating; three leaves one of
  each kind, the last in a nested group. A second trigger is needed for "fires again".
  The state constraint `Undisturbed` cuts evaluations that queue in a disturbed history,
  of which no property of the run speaks.
* `http_poller`. Five items move a page of two past a refused item and past
  both lists. `DedupMax` is the smallest size for which `OneDuplicatePerFault` holds,
  `2 * Window - 1` (sections 5 and 6).
* `publication`. Two tasks are enough for the race on one alert, one connection
  with a queue of one for a full queue. One feed event is persistent and meets no alert,
  the other is a fleeting tick that does; either may be published twice. Two creations
  or enablings give both alerts once, or the one-shot alert twice.
* `market_alerts`. Two deliveries give the race at the awaited publication; the level
  rules are a band (`> 1`, `< 3`), so that one quote fires both and another fires one,
  and the crossing rule shares their previous value. Patches are low and high at
  two exchange times, cleared, and without a price and a time of their own.
* `upstox_feed`. Two connections give what is carried from one session to the next; two
  handlers queue at the lock while the run waits for it, and a run that was cancelled
  leaves beside the one in progress. Three faults are a cancellation, a socket lost around
  it, and a second cancellation once the first run is gone.
* `fyers_feed`. Two topics can change numbers, two starts keep a translation across runs,
  and one refused record has a record before and behind it. A symbol and an index give
  answers that name everything, something and nothing. One fault is a cancellation with a
  start beside it, or a failed lookup, or a lost socket.
* `tbt_feed`. Symbols share only the socket, so one symbol meets everything. Four states
  of the book give a snapshot, a delta, a lost message and another behind the snapshot
  that follows; two failures lose, repeat or garble two messages. Neither property speaks
  of what traffic comes to in the end, so that the end of the book's states settles
  nothing.
* `server`. Versions 1, 2 and 3 are where the three kinds of early migration begin, and
  from each every later one is run; 0 is a fresh file, 13 one in use. Three calls are the
  longest races the routes have (two callbacks and a save; a removal and two changes).
  One kill reaches every pair of commits, and one loss of the key the replacement.
  Requests make no difference to how a start goes, so a database that has to be migrated
  first gets two.
* `chain_analytics`. The two alerts share a chain and each has something of its own; two
  callers race on one alert. A snapshot that arrives changes only the cache, which no
  step reads, so "nothing" stands for it; `chain_snapshots` asks about snapshots.

`CHECK_DEADLOCK FALSE` appears only where the bounded inputs run out and nobody need
act again: `publication`, `market_alerts`, the feeds and `server`. No counter is cut
off by a constraint except as said above; all other bounds are guards and are marked
where they are declared.

## 4. Fairness

* `ReplayService!FairSpec`: weak fairness on the steps of the paging client and on the
  pending advance (worker threads finish, the client keeps reading), strong fairness
  on acknowledging something it was handed. It is strong because handing out and
  pruning can enable and disable it again and again. This is the diligent consumer the
  liveness property is about; nothing is assumed of publishers, retention or faults.
* `SourceManager!FairSpec`: weak fairness on a task beginning, taking its cancellation
  and cleaning up, and on a handler continuing. These are the event loop running what
  is ready. No fairness on honouring the stop event, ending by itself, or any request.
* `HttpPoller!PollerFairSpec`: weak fairness on the poller's steps: the loop runs until it is
  stopped and its calls return (they have timeouts). None on the upstream or on faults.
* `UpstoxFeed!FairSpec` and `FyersFeed!FyersFairSpec`: weak fairness on the run's steps (its
  waits for the broker have timeouts, backoff ends), on each cancelled run's and each
  handler's next step, and on the delivery tasks. None on the broker sending, on starts,
  stops or faults.
* `ChainAnalytics!ServiceFairSpec`: weak fairness on the scheduler and on a request to the
  broker coming to an end. None on tools.
* `Server!FairSpec`: weak fairness on the operator starting a stopped server and on the
  boot's steps. None on requests.
* The other runs check safety only and assume none. In `SourceManager` weak fairness is
  also on the end of the bounded teardown wait.

## 5. Proofs

Every theorem holds for all values of the constants that satisfy the assumptions below:
any number of consumers, tasks, alerts, handlers, instruments or symbols, any bounds.
The pattern is the same everywhere: a run checks the property, an invariant that implies
it is shown inductive (`Init => I`, `I /\ [Next]_vars => I'`, one step per action), and
the temporal theorem follows. No proof uses fairness.

| Module | Theorem | States |
|---|---|---|
| `EventStoreProofs` | `Invariance`, `TypeCorrectness` | `StoreSpec => []IInv`, `[]StoreTypeOK` |
| | `Safety`, `Monotonicity` | `[]CheckpointSafe`, `CheckpointMonotone` |
| | `Refinement` | `KeepsPromise`: the store implements `Inbox` |
| `ReplayServiceProofs` | `ReplayInvariance`, `PagesToTheEnd` | `[]RInv`, `[]PagingComplete` |
| | `ToolsImplementStore` | `Spec => StoreSpec` |
| | `ToolsCheckpointSafe`, `ToolsCheckpointMonotone`, `ToolsKeepPromise` | the store's three results for the tools |
| `PublicationProofs` | `PublicationInvariance`, `DeliveryInvariance`, `DebtInvariance` | the three invariants below |
| | `PublicationUsesStore` | `Spec => StoreSpec` |
| | `NobodyDeadlocks` | `[]HoldersNeverWait` |
| | `CausesPrecedeTriggers`, `NoStreamHasGaps` | `[]CausesComeFirst`, `[]StreamsAreGapless` |
| | `StreamRefinement` | `StreamsKeepPromise`: publication implements `LiveStream` |
| | `NobodySleepsOnADebt`, `OneShotsShootOnce` | `[]OwedAreWoken`, `[]OneTriggerPerEnabling` |
| `SourceProofs` | `LifecycleInvariance`, `NoTaskIsOrphaned`, `AnswersAreTrue` | `[]MInv`, `[]NoOrphan`, `[]AnswersAfterCleanup` |
| | `NothingIsSkippedUnpublished`, `RepetitionsArePaidFor` | `PollerSpec => []SeenWasPublished`, and `[]OneDuplicatePerFault` if the table is long enough |
| | `QuotesAreNeverMixedUp`, `TheFeedCatchesUp` | `FyersSpec => []QuotesAreTheirOwn`, `[]CaughtUp` |
| `MarketAlertsProofs` | `MarketAlertsInvariance`, `TriggersAreKnown`, `LevelsAreNotMissed` | `[]MInv`, `[]TriggeredIsKnown`, `[]NoMissedLevel` |
| | `ExchangeTimeNeverGoesBack` | `ExchangeTimeMonotone` |
| `AlertProofs` | `AlertInvariance`, `MemoryIsTheStore`, `LeavesKeepUp` | `[]AInv`, `[]MemoryMatchesStore`, `[]LeavesRememberObservations` |
| | `TriggersFollowTheRoot` | `TriggersAreTransitions` |
| | `ChainInvariance`, `ServesEnabled` | `ServiceSpec => []CInv`, `[]EnabledAreServed` |
| `FeedProofs` | `UpstoxInvariance`, `NoSocketIsLost`, `BrokerIsToldWhatIsDesired` | `[]UpstoxInv`, `[]NoSocketLeaks`, `[]BrokerFollowsDesired` |
| | `FeedInvariance`, `BooksAreTheExchanges`, `EverySymbolIsFed` | `TbtSpec => []FeedInv`, `[]BookIsTheExchanges`, `[]BooksAreFed` |
| `ServerProofs` | `ServerInvariance`, `SavedCredentialsWin`, `LoginsTradeOnce` | `[]SInv`, `[]SavedWins`, `[]SingleExchange` |
| | `ReferencesAreCounted`, `CatalogStaysWhole`, `KeysOrphanNothing` | `[]StableReferenceKeeps`, `[]CatalogIsWhole`, `RotationOrphansNothing` |
| | `SchemaIsComplete` | `[]SchemaComplete` |

Why each property needs more than itself to be inductive, and along which argument:

* `EventStore`. `CheckpointSafe` alone is not inductive: from a state whose checkpoint
  lies at or beyond the next sequence, `Save` would create a debt below it. `IInv` adds
  that stored sequences and checkpoints lie below `nextSequence`, and says the property
  as the transactions see it: every unacknowledged row of a stored event lies above its
  consumer's checkpoint. `AdvanceCheckpoint` takes an argument: by `CandidateBelow`, whichever
  of its three cases the candidate comes from, it stays below all that is left to
  acknowledge. `Refinement` maps `Save` to `Publish`, `AcknowledgeEvent` to `Settle` or a
  stutter, and the rest to stutters, which is where the invariant is used.
* `ReplayService`. Every step is one transaction of the store or none, which carries the
  store's three results over. `RInv` follows a paging client: each event that was due
  and still is lies in what was handed out, in the page being handed out, or above the
  position the next page starts from; and what was due has a number no later event gets.
  The last page needs a lemma on the operator: what `FirstOf` leaves out comes after a
  full page.
* `Publication`. `Control` says what stacks are possible (one frame, or a trigger's
  publication nested in the evaluation that records it), that a lock belongs to whoever
  stands between its acquisition and its record, and that an event which has not reached
  its evaluation has caused nothing. Deadlock freedom and the order of causes follow: what
  is appended to the history, the journal or the streams is always an event that has caused
  none yet. `Streams` says that sent lines and queue continue the broadcasts without a
  gap from where the subscriber began; so the head of a queue is the next line of the
  broadcasts, and sending it is the abstract `Hear`. `Debts` says that a row in the store is its
  consumer's and, once past the wake-up, that consumer was woken or a fault noted. For
  one-shots the triggers already in the store are counted together with the one that may
  still come (`Shots`): an armed alert has a shot left, taking the lock spends none, saving
  the trigger turns the shot into a trigger, and only a fault between trigger and record
  arms it again.
* `SourceManager`. `Reachable` is the property; `WaitsTruly` says what a handler that
  took a task down still has to wait for, and `StopIsNoted` why a source was stopped,
  which is what the status shows where its earlier branches do not apply.
  `EventsSuffice` counts the restarts in progress, each of which will take a stop event.
* `HttpPoller`. That what is seen was published needs only to know that whoever records
  an item has published it. `OneDuplicatePerFault` counts: `Repeats` are the repetitions
  there were, `Risk` the items that the next pages can publish again without a further
  fault, and the two together are paid for by the faults so far (`PaidFor`). The item in
  hand joins `Risk` when a call fails or is interrupted after its publication, and only
  then, because pruning takes no item that can still be listed: the table keeps its
  newest entries in the order they were recorded, that order is off by less than a window
  (`TableInOrder`), so with `DedupMax >= 2 * Window - 1` whatever is pruned is older than
  the whole page (`WithinWindow`). The sum over items is the cardinality of a set of pairs
  (`Repeats`), which the theorems about finite sets can follow.
* `FyersFeed`. The number of a topic means what the last snapshot said, and snapshots and
  updates are on the same wire: `UpdatesFindTheirs` says that each update on its way will
  find its own instrument under its number when the frames before it are read, and that
  the next one the broker sends would too (`Stands`), but for instruments of which a
  record was dropped. `QuotesAreTheirOwn` follows for what is decoded. For `CaughtUp`,
  `Catching` says who has the exchange's value of an instrument: the last record of it
  on the wire, else the decoder, and then the delivery queue or the market service.
  A message is decoded record by record; `Decoding` describes the decoder's states
  along a frame, and what holds at each is shown from the first frame position at which it
  could fail, since the least element of a set of numbers takes the place of induction.
* `MarketAlerts`. `NoMissedLevel` speaks of quiet states; `Ahead` says what holds in
  all: an armed level rule that holds of the stored quote is excused or still ahead of a
  delivery. An evaluation that ends has compared every rule behind the last one that fired.
* `ConditionAlert`. `OneHolder` is the lock. `Calm` says, while nothing has disturbed the
  alert, what an evaluation in flight has told the store and will tell memory
  (`Pending`), that memory, store and index agree otherwise (`Coherent`), and that the
  stored leaves stand for the last observations. The lemmas about the tree say that a
  computed root is what its leaves make it.
* `ChainAnalytics`. `CInv` says of a call between its awaits which alert it will still
  register, so that an enabled alert is served or about to be.
* `UpstoxFeed`. `Queue` makes the lock a list without repetition of exactly those who
  wait, cancelled runs among them. `Sockets` ties the session's socket to its place and
  outcome; `Held` says of every open socket who leads to it, the session, a leaver by way
  of the live reference, or nobody (`lost`); and `Alone` that until runs overlap there is
  one run, nothing is lost and the live socket is its own. `Word` says, of the lock's
  queue, that the last handler waiting to send a frame for an instrument will send what
  the desired set says, because that set is changed under the same lock in queue order;
  `Told` that the broker was told so where no frame waits, so long as the session's socket
  is the live one. Leavers take the lock between handlers and change nobody's order
  (`Thins`, `Leaves`). `BrokerFollowsDesired` is the case with nobody waiting.
* `TbtFeed`. Every message on its way is truthful about the exchange's `history`, however
  that goes on, and every book built on a snapshot holds the state of its number; the
  sequence check does the rest, over losses, repetitions and resets. `BooksAreFed` needs
  of the frames that are due only `LeavesTold`: a call still to send its unsubscription
  has taken the symbol out of the desired set, where it stays unless the symbol was
  disturbed. Whoever sends the last frame due then sends what leaves the symbol fed
  (`Fed`), and only a gap, which makes a resubscription due, drops a book.
* `Server`. The parts interleave freely but share the phase, the key file and the
  secrets, so the invariant is one: no store keeps a key other than the file's while the
  server runs; what logins use agrees with what is saved; a pending login has not been
  traded and at most one handler carries it; and a count of references still in progress
  has seen, or will still look at, every item older than itself. For the catalog,
  `SyncsCount` says that what a sync has parsed, failed and yet to fetch is each file of
  its provider once, through every step it takes beside other syncs. `BootInv` adds the schema:
  what a migration has committed so far is in the file, and the file carries the version
  the migration started from, but for the one migration that stamps its version first. A
  migration that drops nothing and stamps last (`Leading`, nine of them and the creation
  of a fresh database) is complete when it stamps (`MostCommits`); the three others, two of
  one commit and the one that stamps first, are `OtherCommits`. Whichever
  way version 13 is reached, a server past its boot serves from a complete schema.

Assumptions. They are the `ASSUME`s of the modules, which TLC evaluates in the runs:
limits are naturals (page size, queue size, capacities and numbers of stop events or book
states are positive), the marker values (`None`, `Absent`, `Nothing`, `Environment`,
`Broadcast`, `Whole`) are none of the values they stand beside, and `Configured`, `Symbol`
and what an alert depends on are not empty. Where a property counts (`Call`, `Price`, the
first watchlists), the set is finite. A condition without groups is a single leaf
(`ConditionAlertAssumption`), as the code's tree is. The first watchlists satisfy the
tables' unique keys.
`RepetitionsArePaidFor` has a hypothesis of its own, `DedupMax >= 2 * Window - 1`: the
code does not ask for it, its default of 10000 ids satisfies it for pages of up to 5000
items, and below it the property is false (section 6).

Model-checked only:

* All liveness: temporal reasoning under fairness is out of the prover's reach.
  These are `EventuallySettled`, `CallsReturn`, `ShutdownEndsTasks`, `Ingested`,
  `StopEndsRun`, `SessionsSubscribe`, `NoChainStarves` and `BootCompletes`.

Every invariant and every action property of the runs is a theorem.

## 6. Where code and documentation part

One run checks what a comment says and finds it refuted:

| Run | Claim | What the code does |
|---|---|---|
| `chain_snapshots` | `app/market_analytics.py:12`: the service calls `MarketService.option_chain(...)` | The server hands it `market.service.MarketService` (`app/server.py:501`), which has no such method; `ProviderMarketData` (`app/market_data.py:119`) is the class that has it. Every refresh raises `AttributeError`, which `_refresh_one` counts and logs: no chain ever gets a snapshot. |

`chain_analytics` is the service with a market service that has the method and answers
or fails, so what its properties say holds once the right one is composed.

Further behaviour met while modelling, described here because a property could only
claim the opposite of what the code does. Sources and alerts:

* `sources/__init__.py:450` promises exactly one background task per source.
  `cancel_and_wait` pops the name before it awaits the task, so a start that arrives
  meanwhile creates a second task beside the first one's cleanup. A stop that arrives
  during a restart answers "stopped" and the restart then starts the source.
* The status prefers a source's own `auth_required` and the last words of a run that
  failed to the recorded intent (`sources/__init__.py:519-524`), also when that run is an
  earlier one: a source the operator stopped may be shown as `internal_error`, and one that
  runs again keeps showing the failure until its own run ends. `AnswersAfterCleanup` excepts
  both.
* The intents `stop_source` records are never cleared by `start_source`: a source that
  was stopped, started again and then ended by itself is shown as "operator_stop".
* `start_source` answers `"started"` (documented as "new background task created",
  `sources/__init__.py:405`) for a source whose task ended by itself: the name is still
  registered, `start()` refuses it silently, and only a stop or restart helps.
* A second stop, concurrent with the first, finds nothing registered and answers while
  the first one's task still cleans up.
* `docs/MCP_RUNTIME.md:458` says that the first valid metric establishes the crossing
  side. A nested leaf's new side is put into the evaluation's copy of the states and not
  counted as a change (`app/condition_alerts.py:540`, `693`), so it is dropped unless
  something else changed; the crossing that follows is taken for the first observation.
* `docs/MCP_TOOL_CONTRACT.md:395` says that a `once` alert fires once, then disables.
  When the feed is cancelled while the trigger commits, memory keeps the old root and
  index, and the next quote fires again.
* `app/alerts.py:36` says that a crossing alert fires once at the moment of crossing. The
  previous value is shared by all rules of the instrument and overwritten by the first
  rule of each tick that is compared, so a second crossing rule never sees a crossing.
* `app/alerts.py:8` says that re-arming through the API makes the alert inactive. The
  route writes the table and does not reload the engine, unlike all other rule routes.
* A market rule fires again when a second tick is evaluated while the first one's
  announcement is awaited, and when the feed is cancelled there, although
  `app/alerts.py:68` says that repeated ticks never re-notify. `TriggeredIsKnown` says
  exactly when: while announcing, or after a cancelled announcement.
* Also in `app/alerts.py`, the shared previous value is not kept per field: a rule on
  volume leaves a volume behind for a crossing rule on the price.
* The consumers to wake are computed after the commit. Those that are owed the event
  are among them (`OwedAreWoken`); one that registered in between is woken for
  nothing, against the comment at `core/events.py:191`.
* A publisher cancelled after its save leaves a durable event with no journal entry,
  wake-up, stream line or evaluation.
* `EventBroker.broadcast` drops the subscriber and not the line. Its reader then waits on the
  orphaned queue for ever and the client sees a silent stream.
* A crash between a generic alert's trigger and its record fires a one-shot alert
  again, hence the faults in `OneTriggerPerEnabling`. Enabling an alert during its
  evaluation can be undone by the record that follows.
* `save_condition_trigger` enables an alert that was disabled while its evaluation
  was in flight; a `set_enabled` call that breaks off leaves the engine as it was.
* An alert with analytics leaves only is never evaluated: evaluation starts from
  quotes. The chain key is split at its first colon (`app/market_analytics.py:189`), so
  that of an index, `NSE:INDEX:NIFTY`, names an expiry no chain has. Deleting an alert
  passes an empty condition and leaves its chains registered until the next start
  (`mcp_server/tools/condition_alerts.py:547`), and the tools register quote keys as
  chains, which are then refreshed in vain.
* The poller's table must hold at least `2 * page - 1` ids, or items that are
  still listed are published again without any fault. An item the publish path always
  refuses hides the items behind it in each page. An upstream that lists newest first
  and honours the cursor as a lower bound loses items after a broken batch, although
  the module says the cursor cannot cause loss; `MCHttpPoller` leaves that upstream
  out.

Feeds:

* Quotes of instruments subscribed on the Upstox feed at run time are dropped: only the
  configured ones have the metadata `process_binary_frame` needs, although
  `app/server.py:534` speaks of live subscription.
* `brokers/fyers/feed.py:16` says that a reconnect resubscribes what is desired. The
  translation of the first successful lookup is kept for the life of the feed, so
  instruments added later are subscribed under a name that is no topic.
* `brokers/fyers/feed.py:595` and `769` say that a useless identity mapping is not kept. A
  failed lookup keeps none; an answered one does, for every key the answer lacks, and for
  the life of the feed (`775-787`): an answer without tokens, or for keys that changed
  meanwhile, leaves a feed that streams nothing in every later session. `SessionsSubscribe`
  says that this is the only way (`barren`). An index of the BSE without a token gets a
  topic of the NSE (`779-783`).
* Runs of one feed instance can overlap, against `sources/__init__.py:450` and the comment
  at `brokers/upstox/feed.py:579`, since `cancel_and_wait` pops the name before it waits
  (`core/runtime.py:91`) and a start or second restart finds nothing running
  (`sources/__init__.py:426`, `473`). The `finally` of the first run then clears
  `_live_ws` under the second run's socket, and later mutations are never sent; or its
  handler closes that socket; its label overwrites the second's ("stopped" while
  streaming). A run that is cancelled while it waits for the lock at
  `brokers/upstox/feed.py:601` leaves its socket to `_close_live_ws`, which closes
  whatever is live by then: if another run has connected meanwhile, the first socket stays
  open. A mutation decided in one session may be sent in the next. The Fyers feed is built
  alike.
* `brokers/fyers/feed.py:18` says that one bad payload never kills sibling updates. A
  record the normalizer refuses ends its message. When the snapshot that renumbers a
  topic in a new session is dropped that way, the topic's later updates pass for the
  instrument that had the number before: prices of one instrument are shown on another,
  which may also stand in the place of the other's own value when the feed is quiet
  (the last alternative of `CaughtUp`; it takes three instruments).
* Depth snapshots of the Fyers feed always raise, and its tick-by-tick channel never
  starts (`self._config` is never set).
* `brokers/fyers/tbt/feed.py:21` speaks of reconnecting; `run` makes one session. A stop is
  noticed with the next message only. After a gap, deltas still on their way are published
  from an emptied book, and a snapshot keeps levels of quantity zero. Such a delta also sets
  the book's number, so that the snapshot behind it is another gap
  (`brokers/fyers/tbt/feed.py:249-260`): while trading goes on, one delta on its way at each
  resubscription can keep the repair from ever succeeding, and what is published meanwhile is
  built on no snapshot. `BooksAreFed` therefore promises a snapshot on its way and not its
  use. A first snapshot that cannot be read leaves a book of deltas alone.

Credentials and boot:

* `secrets_store.py:22` says that the key is never replaced silently. A boot that
  migrates plaintext Fyers credentials does so, and overwrites rows that could not be
  read (`server.py:283`).
* With a `data_dir` other than "data", the settings routes (`secrets_store.py:430`) and the
  server (`server.py:577`) use two databases. The models have one.
* Deleting the saved Upstox credentials leaves the login unconfigured until the next
  start, even when the environment has some, which are documented as the fallback.
* A Fyers callback in flight stores its refresh token after the app credentials it
  belongs to were deleted or replaced. `load_app_credentials` reads key and secret in two
  transactions and can pair an old one with a new one, against `secrets.py:43-45`.
* Saving the public URL (`product_routes.py:1259`) rewrites `config.json` from what
  `load_config` keeps, which drops unknown keys: the endpoint and model of the AI provider
  that `chat_routes.py` stores there, and all comments. A chat save reads the file in a
  worker thread and replaces it, losing an overlapping one; when it cannot read the file
  it replaces it by its own block alone.
* A fresh database killed while it is created has version 0 and tables: its plain `CREATE`
  fails at every later start (`BootCompletes` speaks of versions above 0). A kill between
  the stamp of version 5 and its index leaves the index to the next start.

Products:

* `product_routes.py:436` promises that the feed unsubscribes only when the last reference
  disappears. A removal that races an addition of the same instrument leaves it listed and
  unsubscribed; `StableReferenceKeeps` says what is true of older items. Instruments of
  the feed's configuration are not counted, and since `app/server.py:552` unsubscribes by
  token alone, removing an instrument stops another exchange's of the same token. Deleting
  a list keeps its subscriptions, and neither an import nor a restart makes any.
* `instruments.py:9` says that a failed download leaves the previous catalog intact. A Fyers
  sync skips segments that fail (`instruments.py:210-216`) and replaces the catalog by the
  rest, or by nothing. `CatalogIsWhole` says that this is all a catalog may lack.

## 7. What is not modelled

* Formatting, logging, metrics, counters, notification lists and the validation of
  requests: they decide nothing the properties speak of.
* Depths (replaced whole) and the field-wise merge of greeks in the market service.
* The configuration file and the settings that rewrite it: sequential code.
* Reordering watchlist items (positions within one transaction), instrument searches,
  the trigger history log, the catalog's reads.
* REST adapters and normalizers (field-by-field conversion without state), analytics
  formulas (floating-point arithmetic), the chat agent and the read-only tools.
* The key file's check and creation (`_get_encryption`) are one step. The code takes no lock
  there and worker threads call it too (`product_routes.py:981`, `1030`, `1076`, `1100`):
  while the file is missing or unusable and no store has its key cached, two of them could
  each make a key.
* Libraries: the broker is taken to answer every subscription of the tick-by-tick feed, and
  `websockets.client.connect` to accept `additional_headers` and to return a connection with
  `open` (`brokers/fyers/tbt/feed.py:36`, `174`), which depends on the installed version.
* Real time: intervals, delays and timeouts are steps that may happen.
* SQLite itself: a transaction is atomic and durable, a statement outside one commits
  on its own, and foreign keys are enforced, as the store's connections configure it.

## 8. Plan

Done, in order of importance: `EventStore` with its refinement and proofs,
`ReplayService`, `SourceManager`, `ConditionAlert`, `HttpPoller`, `Publication`,
`MarketAlerts`, `UpstoxFeed`, `FyersFeed`, `OrderBook` and `TbtFeed`, `ChainAnalytics`,
and `Server` with `Schema`, `Credentials`, `Watchlists` and `Catalog`.

Then the proofs of section 5: the store, the tools and publication over it, source
lifecycle, the poller, both alert engines, chain analytics, the three feeds, and the
server with its schema.

Left:

* An abstract specification of the subscription lock (a fair queue), beside `Inbox` and
  `LiveStream`, with the proof that `UpstoxFeed` implements it.
* Operations not modelled so far (section 7), first the depth merge of the market service
  and the reordering of watchlists.
