# Formal model of the order-book engine

This directory holds TLA+ models of the order-book engine under `src/` and of the
server around it, the TLC configurations that check them on small instances, and
proofs checked by TLAPS.

    tlc -config MCCore.cfg MCOrderBook.tla     # one run
    tlapm LedgerProofs.tla                     # one module's proofs

## 1. The system

One process serves one symbol. A worker thread owns an in-memory `OrderBook` and
takes commands from an mpsc queue, one at a time. Axum handlers run concurrently:
each validates its transport input, dispatches an engine command, waits for the
answer, writes an audit trail to SQLite or PostgreSQL under a mutex, and publishes
the command's events on a broadcast channel that WebSocket clients read. Snapshots,
checkpoints and a journal of events exist to rebuild the book in memory.

| Component | State it keeps | Operations | Talks to |
|---|---|---|---|
| order book (`engine/book.rs`) | bids, asks, `order_index`, `stop_orders`, `order_history`, `recent_trades`, id and sequence counters | `submit`, `cancel`, `replace`, `cancel_all`, `capture_snapshot`, `restore_from_snapshot`, `replay` | called by the worker |
| matching, price levels (`matching.rs`, `price_level.rs`) | FIFO queues of the book | `match_buy`, `match_sell`, `fill_at_ask`, `fill_at_bid` | part of `submit`; stop activation calls it recursively |
| validation (`reject_reason.rs`) | none | `validate_order` | reads the open-order counts |
| history, trades, sequencer | maps and counters of the book | `record_status`, `record_fill`, `retain_recent_trades`, `next_sequence`, `advance_to` | part of every command |
| command worker (`command.rs`) | the queue, one response channel per command | `dispatch`, `apply_command`, shutdown | handlers <-> book |
| REST API (`api.rs`) | the kill switch flag | order, cancel, replace, mass cancel, checkpoint, replay, restore, kill switch routes | worker, database, broadcast channel |
| audit database (`db.rs`) | `orders`, `trades`, `order_history`, `event_journal`, `engine_snapshots` | one transaction per `record_*` call | handlers, one at a time under a mutex |
| WebSocket feed (`api.rs:408-423`) | one receiver per client | snapshot, then subscribe, then forward | worker, broadcast channel |
| start-up (`main.rs`) | none | an empty book over whatever the database holds | |

Protocol envelopes (`send_json` wraps each event of the feed in one, which is text), the
command-line client, most of the frontend, the benchmarks and the performance guards
keep no state of the engine.

What is hard here, and what makes each part correct:

* **The book.** Every operation updates three containers and a history one after the
  other, and stop activation executes orders in the middle of another order's
  command, recursively. The containers must agree, quantities must be conserved,
  histories must tell the truth, priority must survive self-trade prevention, the
  book must not cross, a fill-or-kill order must fill or die, a cascade must miss no
  stop order and end. Taken together: whatever the containers do, the book is a
  ledger in which an order is entered once and closes once.
* **Replay and restore.** The journal says what was answered, not what was done:
  replay has to reconstruct which orders rest. Restored counters may go back.
* **Handlers.** Engine order, journal order and broadcast order are three orders. A
  checkpoint, a replay and the kill switch each read twice with other handlers in
  between. The database can fail, and a client can go away, after the engine has
  moved on. What a client was told must survive, and what is broadcast must be
  durable, the book that a restore or a replay broadcasts excepted.
* **The worker.** A panic ends it for good: callers that wait and callers to come
  must be told.
* **The feed.** Events between the snapshot and the subscription are seen by nobody;
  a slow reader is cut off, and must not be left with a hole; one that stops reading
  holds its own task for ever and must hold up nobody else.
* **Restart.** The process comes back with an empty book and old tables.

`PROJECT.json` lists these hazards one by one with their lines.

## 2. Modules

| Module | Models |
|---|---|
| `BookState` | the types of `model.rs` and the pure functions of the engine: risk checks, price levels, matching rules, stop rules, history |
| `OrderBook` | the live engine as a state machine |
| `OrderBookProperties` | what the engine promises |
| `OrderLedger`, `OrderBookRefinement` | an abstract order book, and the mapping under which `OrderBook` implements it |
| `BookReplay` | a book as a value: snapshot, restore and replay of journal events |
| `Recovery` | checkpoint, restore and replay over the live engine, one client at a time |
| `AuditDb` | the five tables and the calls of `db.rs` |
| `ApiServer` | concurrent handlers, queue, worker, database, kill switch, faults, restart: composes `OrderBook`, `BookReplay` and `AuditDb` |
| `Feed` | the WebSocket streams over `ApiServer` and a bounded channel |
| `MCOrderBook`, `MCRecovery`, `MCApiServer`, `MCFeed` | request and operation sets of the TLC instances |
| `FoldProofs` | lemmas: left folds of any operator |
| `OrderBookProofs`, `ActiveProofs` | lemmas about the operators of `BookState`; types, containers, histories, mass cancel, limits |
| `LedgerProofs`, `MatchingProofs` | the refinement and the trades; priority, stops, the uncrossed book and fill-or-kill |
| `RecoveryProofs` | restore is exact; replay rebuilds the book |
| `ServerProofs`, `TableProofs` | types, kill switch, journal, streams; what the tables hold at rest |

### The engine

`bids` and `asks` are one function `levels[side][price]`, a sequence per existing
price level. `order_index`, `stop_orders` and `order_history` are functions on the
ids they hold. `submitted` (every order as created) and `tape` (every trade) are
history variables that properties compare the book with; no action reads them.

A command is many steps, so that its intermediate states are checked too:

| Action | Code |
|---|---|
| `Submit` = `RejectInvalid`, `AcceptStop`, `RejectFok` or `BeginExecution` | `OrderBook::submit` up to its four ways out |
| `RejectPostOnly`, `FillBest` (one trade), `Settle` | `execute_taker` with `match_buy` and `match_sell` |
| `ActivateStop`, `SkipStop` | one turn of the loop of `trigger_stop_orders`; `pending` is its call stack |
| `Cancel`, `Replace` then `Submit`, `MassCancel`, `MassCancelOne`, `MassCancelDone` | `cancel`, `replace`, `cancel_all` |
| `RecordCheckpoint`, `ReplayFromJournal`, `RestoreSnapshot` (in `Recovery`) | the routes of `api.rs:276-358` |

`pc = "idle"` is the worker waiting for a command. In `OrderBook` commands answered
with `OrderNotFound` change nothing and are stuttering steps.

**The ledger.** `OrderLedger` has three actions: an order is entered under a new id,
two open orders match for a quantity neither exceeds, an order closes. Its open
orders are, under the mapping of `OrderBookRefinement`, the engine's wherever they
are: queued, dormant, or executing with something left. Prices and priority are left
to the properties of `OrderBookProperties`.

### The server

`handler[h]` is a request in progress. The phases are the places where its Rust
function lets others run, and every action is what the function does up to the next:

| Action | Code |
|---|---|
| `Receive` (into `received`; a replay into `loading`), `SetKillSwitch` | the start of a route, with the kill switch test of `submit_order` and `replace_order` |
| `Enqueue`, or `Abandon` when the worker is dead | `with_engine`, `EngineWorker::dispatch` and its two errors |
| `Serve`, `Work` (the engine's steps), `Respond` | `run_worker`, `apply_command`, the reports of `command.rs:160-263` |
| `Persist` | the closure each route hands to `with_db`: its calls as data (`AckCall`, `CancelCall`, `HistoryCall`, `EventsCall`), in the route's order |
| `Publish` | `state.events.send`, one event at a time; the client is answered after the last |
| `CoverJournal`, `SaveCheckpoint` | `record_snapshot_checkpoint` after the engine's answer |
| `LoadCheckpoint`, `ReadEvents` | `replay_from_journal` before it asks the engine |
| `SendSnapshot`, `Subscribe`, `Forward`, `Lagged` (in `Feed`) | `stream_events` |

Faults, at most `MaxFaults` of the kinds in `Faults`:

| Fault | What it stands for |
|---|---|
| `PersistFails`, `DbFails` (`"db"`) | a call of the closure fails: those before it have committed, each a transaction of its own; the client gets an error and nothing is published |
| `AnswerUnheard` (`"disconnect"`) | the client is gone, the runtime has dropped its handler at the one `.await` that suspends, `with_engine`: the command took effect and nobody persists it. (`with_db` joins its thread and does not suspend.) |
| `SocketFails` (`"disconnect"`) | a WebSocket send fails |
| `Panic` (`"panic"`) | a command panics: the worker thread ends with the queue |
| `Crash` (`"crash"`) | the process ends and starts again, as `main.rs` does, over the same database |

`acknowledged` (the event lists clients were told of) and `reloaded` (the book has
been replaced) are history variables. No action reads them.

### Abstractions

Absent and zero prices are one value (0), as the code treats them. A risk limit of
`None` is a number larger than anything in the instance. Which validation error is
returned is left out, and so are metrics, depth snapshots, time and text. u64 overflow
is out of reach of the order limits; underflow is not, and `TypeOK` rules it out.
`max_recent_trades` of 0 is excluded by `ConfigAssumption`.

`POST /api/engine-snapshot` takes any snapshot its client sends (`api.rs:319-324`). The
model restores those that a checkpoint has stored, in `Recovery` the latest: a snapshot
made up by a client has no promise to keep. In a book with two orders under one id, which
only a replay after such a restore can make, `cancel_all` may cancel an id twice; the
model does so too, and one row of `orders` stands for both.

A book event is its sequence number, which identifies the book it shows. A row of a
table keeps the columns that the program reads or writes again; a row id is a place
in a sequence. SQLite and PostgreSQL are one model: their statements and transactions
are the same.

While the worker is inside a command no handler moves (`WorkerWaits`), and the calls
of one `with_db` closure are one step. Both only remove interleavings that no
component can tell apart: the engine's steps touch the book alone, which handlers see
only in its answers, and the closure holds the mutex throughout. A failure in the
middle of the closure is not lost by this: `PersistFails` chooses how far it came.
Likewise a panic in mid-command is `Panic` before it, since nobody sees that book again.

In `Recovery` one client acts at a time: the events of a command are journaled before
the next command, and a checkpoint is one step. It separates what replay does with a
good journal from what handlers do to the journal. Checkpoint, replay and restore come in
any order. `lineage`, a history variable, says what the book comes from: the journal
with its latest checkpoint tells of it; it was restored since, of which the journal knows
nothing; or it was replayed from such a journal, and has two pasts.

Operators named `...Mutant` are the next operator with a plausible bug. They are
used by no specification. Substituted for the right one, each must break the
property that `PROJECT.json` pairs it with.

## 3. Runs

| Run | Instance | Shows |
|---|---|---|
| `core` | `MCCore`, 4 orders out of 7 requests at 2 prices, anonymous | containers agree, quantity and budget are conserved, history is true, closed orders stay closed, price-time priority, newest trades kept; every step is a step of the ledger |
| `accounts` | `MCAccounts`, 4 orders out of 7, two accounts and an anonymous client | no self-trade, never crossed, fill-or-kill |
| `stops` | `MCStops`, 4 orders out of 6, three kinds of stop order | the same with cascades; no stop that the last trade of a taker crossed is missed; mass cancel is complete; still the ledger |
| `risk` | `MCRisk`, tick and lot 2, at most 3 open orders, 1 per account, a blocked account | limits hold at all times; every command ends |
| `recovery` | `MCRecovery`, 3 orders out of 5, journal bound 5 | restore is exact, replay rebuilds a book that the journal tells of, and rebuilt and restored books keep their containers in agreement until a journal that ignores a restore is replayed |
| `server` | `MCServer`, 3 interchangeable handlers, any 3 requests of the 8 operations, any one fault | what clients were told is in the journal and what is broadcast was journaled (but for the books of restores and replays), whatever fails; without a fault or a reload the history and trade tables are the engine's; the kill switch drains |
| `feed` | `MCFeed`, a handler that trades, one that operates the server and a stream, 3 requests, channel of 2 events, a failed database call, a panic or a disconnect | a stream has no hole; it gets everything or ends, if its client goes on reading; every request is answered |
| `fok_stop`, `replay_stop`, `journal_race`, `stop_trades`, `feed_stale` | smallest request sets | five statements of `ARCHITECTURE.md` that the code does not keep |

Eight more configurations, each for one further way in which the code fails such a
statement, are not among the runs of `PROJECT.json`. They are run like the others, in a
few seconds, and end in the counterexample described below: `MCSweptStop`
(`MCOrderBook.tla`), `MCReplayDiscarded`, `MCReplayReplaced`, `MCReplayRestored`
(`MCRecovery.tla`), `MCCheckpointRace`, `MCReplayRace`, `MCRestartTrades`
(`MCApiServer.tla`) and `MCFeedOrder` (`MCFeed.tla`).

**Bounds of the engine.** `MaxOrders` bounds the orders ever submitted; cancels,
replacements and mass cancels are not bounded. Four orders hold every interaction of
the rules: two makers, a taker that sweeps them, and one more that comes before,
between or after. In `stops` they make an outer stop, an inner stop it triggers, and
one that both trigger, so that `SkipStop` happens. Quantities of 1 to 3 lots make
partial fills on both sides; `MaxRecentTrades = 2` is exceeded in three trades.
`MaxJournal` lets a command start on a journal of at most 5 events, so that commands
stop after two to five, with checkpoints, replays and restores anywhere between them.

**Bounds of the server.** `MaxRequests` bounds the requests, which bounds everything
else. Three handlers and three requests are the least in which a third party acts
between two that race: an order made, replaced or cancelled while another handler has
still to persist; a checkpoint, a replay or a switch between them. The two requests, a
maker of one lot and a taker of two, give a resting order, a full and a partial fill.
One fault at any place shows each fault alone. `feed` gives each of its three handlers a
role: a checkpoint, a restore, a replay or the switch of one meets a submission, a cancel,
a replacement or a mass cancel of another and the stream of the third at every point; a
crash, which answers nobody, is left to `server`. A channel of 2 events overflows with one
order that trades, which has an acknowledgement, a trade and a book event. Symmetry
among handlers is used in `server` and `journal_race` only, whose properties are
safety and name no handler; `feed` has liveness properties and no symmetry. `Finished`
is the bound reached with everything answered, and `FeedFinished` that or every handler a
stream that has caught up, so that deadlock is checked everywhere else.

`server` and `feed` submit valid limit orders without stops: a request that validation
turns away has no events and ends like the cancel of an unknown order (the entry it has in
the engine's history reaches no table, see the hazard at `book.rs:112`), and what is wrong
with the persistence of triggered stops is `stop_trades`. `HistoryTableComplete` and
`TradesTableComplete` speak of `CleanRest`, when all requests are answered, nothing has
failed and the book was never reloaded: after a reload the engine's own history and tape
start again, and the tables keep the old rows.

**Fairness.** `FairSpec` assumes only that the worker goes on with a command it has
begun (weak fairness of `EngineStep`): `run_worker` is a loop on its own thread and
nothing in a command waits. `CommandsComplete` needs no more. `ServerSpec` and
`FeedSpec` assume weak fairness of the worker and of each handler's own steps: the
runtime polls every task that can go on, the database mutex is held for one closure at
a time, and a broadcast send never blocks. Requests need not arrive, and faults need
not happen.

Streams have no fairness in `FeedSpec`. `socket.send` (`api.rs:431`) has no timeout: a
client that neither reads nor closes its connection fills the socket's buffers and holds
its stream's task there, and not even the lag of its receiver is noticed then.
`StreamDelivers` therefore says of each stream: if it keeps being polled out of its sends
(`KeepsReading`), it gets everything or ends, and whatever the other clients do.
`RequestsAnswered` needs no such hypothesis: no request waits for a stream.

**What the code does not keep.** Each of these runs ends in a counterexample to a
statement of `ARCHITECTURE.md`.

* `fok_stop`: a fill-or-kill stop-limit order skips the depth check when it
  triggers (`book.rs:492` calls `execute_taker`, the check is in `submit`), trades in
  part and rests. For the same reason, and because `blocked_by_self_trade` asks for
  good-till-cancelled (`book.rs:214`), it may rest across an order of its own account.
* `replay_stop`: a triggered stop order is dormant again after replay.
* `journal_race`: the events of two commands can be journaled in the other order than
  the engine ran them (`api.rs:182-188`): replay swaps the time priority of two orders.
* `stop_trades`: the handler stores the trades of the acknowledged order
  (`api.rs:183`), not those of the stop orders it triggered, which are journaled and
  broadcast.
* `feed_stale`: the snapshot is taken before the subscription (`api.rs:409-417`): a
  book event in between reaches the client in neither.

The further configurations show:

* `MCSweptStop` (`SweptStopsActivated`, `ARCHITECTURE.md:42`): stops trigger on the
  taker's last trade price only, never on a price it swept on the way (`book.rs:256`).
  `StopsActivated`, which holds, says it the way the code does it.
* `MCReplayDiscarded` (`ReplayRebuildsOrders`, `ARCHITECTURE.md:83`): the discarded
  remainder of an immediate-or-cancel limit order (and that which self-trade prevention
  discards) rests after replay (`book.rs:586`).
* `MCReplayReplaced` (`ReplayRebuildsOrders`): a rejected replacement has cancelled the
  old order, and the journal does not say so (`book.rs:314`): it is back after replay.
* `MCReplayRestored` (`MassCancelReachesAll`, `ARCHITECTURE.md:87`): a restore takes the
  id counters back (`book.rs:364`) and is not journaled. Commands on the restored book use
  ids a second time, and a replay without a new checkpoint queues two orders under one id,
  of which `order_index` knows one: a mass cancel leaves the other resting. This is why
  `RestoreIsExact` and `LoadedBookAgrees` leave books with two pasts out.
* `MCCheckpointRace` (`TablesRebuildOrders`, `ARCHITECTURE.md:83`): a checkpoint reads
  the engine first and the journal id later (`api.rs:342-350`): an order that is executed
  and journaled between the two is covered unseen, and, as in the counterexample, one that
  is in the snapshot and journaled later counts twice.
* `MCReplayRace` (`TablesRebuildOrders`): a replay reads the journal and replaces the book
  later (`api.rs:279-290`): an order that is journaled after the reading is lost from
  memory.
* `MCRestartTrades` (`AcknowledgedTradesStored`, `ARCHITECTURE.md:99`): after a restart
  ids begin at 1 over the old tables (`main.rs:41`): `INSERT OR IGNORE` drops the new
  trade of an old id.
* `MCFeedOrder` (`DisplayFollows`, `ARCHITECTURE.md:73`): two handlers publish in either
  order (`api.rs:191`): a dashboard that missed nothing goes back to an older book and
  stays there.

Reading the code for the model showed more, of which the repository promises nothing that
a run could refute:

* A request that fails validation takes an id and a sequence number that no event records
  (`book.rs:112`), and replay hands the id out again. `recovery` has no such requests,
  and only good-till-cancelled limits without accounts, market orders and stops that stay
  dormant, for the reasons just given.
* A client that goes away leaves its command executed and unrecorded
  (`AnswerUnheard`): neither tables, journal nor feed hear of it. `TablesRebuildOrders`
  speaks of runs without a fault.
* After a restart the kill switch is off, and rows of `orders` are overwritten.
* Rows of makers and of replaced orders are never updated in `orders`, and a late
  handler may write an older status over a newer one (`db.rs:655`). No route reads them.

## 4. Proofs

Every theorem holds for all values of the constants that satisfy `ConfigAssumption`,
`RequestsAssumption` and `MaxOrdersAssumption`, those about the server with
`ServerAssumption`, those about the feed with `CapacityAssumption` too, those about
replay with `RecoveryAssumption`. TLC evaluates
the assumptions in every run. The theorems about `Spec` are about the engine driven by
commands, and hold for `FairSpec` as well; those about `ServerSpec` and `FeedSpec` are
about the book whatever it is, also after reloads and restarts.

| Theorem | States | Module | Inductive invariant |
|---|---|---|---|
| `TypeCorrect` | `[]TypeOK` | `OrderBookProofs` | `TypeInv` |
| `ContainersAgree` | `[]IndexMatchesLevels` | `OrderBookProofs` | `IndexInv` |
| `HistoriesTrackBook` | `[]HistoryTracksBook` | `ActiveProofs` | `HistoryInv` |
| `ClosedStayFrozen` | `ClosedOrdersFrozen` | `ActiveProofs` | `HistoryInv` |
| `MassCancelCancelsAll` | `[]MassCancelComplete` | `ActiveProofs` | `MassCancelInv` |
| `LimitsHold` | `[]OpenOrdersBounded` | `ActiveProofs` | `LimitInv` |
| `EngineImplementsLedger` | `ImplementsLedger` | `LedgerProofs` | `LedgerInv` |
| `NeverTradesWithItself` | `[]NoSelfTrade` | `LedgerProofs` | `AccountInv` |
| `QuantitiesAddUp` | `[]QuantityConserved` | `LedgerProofs` | `QuantityInv` |
| `BudgetsKept` | `[]NotionalWithinBudget` | `LedgerProofs` | `QuantityInv` |
| `NewestRetained` | `[]RecentTradesNewest` | `LedgerProofs` | `TypeInv`, `Newest` |
| `BestFirst` | `PriceTimePriority` | `MatchingProofs` | `BaseInv`, `PriorityOK` |
| `CrossedStopsActivated` | `[]StopsActivated` | `MatchingProofs` | `BaseInv`, `StopsOK` |
| `BookStaysUncrossed` | `[]NeverCrossed`, if `NoFokStops` | `MatchingProofs` | `BaseInv`, `RestOK` |
| `FillOrKill` | `[]FokAllOrNothing`, if `NoFokStops` | `MatchingProofs` | `BaseInv`, `RestOK` |
| `RestoresExactly` | `[]SnapshotExact` | `RecoveryProofs` | `KindsInv` |
| `ReplayRebuildsBook` | `[]ReplayRebuilds`, `[]RestoreIsExact`, `[]LoadedBookAgrees` of `RecoverySpec`, if `[][EventsTellAll]` | `RecoveryProofs` | `TracedInv` |
| `ServerTypes` | `[]ServerTypeOK` | `ServerProofs` | `TypedInv` |
| `SwitchDrains` | `KillSwitchDrains` | `ServerProofs` | `ControlInv` |
| `AcknowledgedStays` | `[]AcknowledgedIsDurable` | `ServerProofs` | `JournalInv` |
| `PublishedAfterJournaled` | `[]PublishedIsJournaled` | `ServerProofs` | `PublishedInv` |
| `StreamsHaveNoGap` | `[]StreamGapless` | `ServerProofs` | `StreamInv` |
| `HistoriesWritten` | `[]HistoryTableComplete` | `TableProofs` | `TableInv` |
| `TradesWritten` | `[]TradesTableComplete` | `TableProofs` | `TableInv` |

Each module has one lemma per action for each invariant, after the lemmas about what
that action does to the containers it changes.

**Types.** `TypeOK` alone is not inductive: `FillBest` subtracts from maker and taker,
`Settle` may push the taker into a level, and an activated stop becomes a taker with the
price it was stored with. `ControlOK` adds that a limit order that executes and a
stop-limit order that sleeps have a price that can be rested at, that a phase that
visits triggered stops has one to visit, and that a mass cancel only has active orders
left (so that looking one up is defined).

**Containers.** Agreement is stated of a value, `Agree(book, index)`, and three lemmas
say what a change of a level does to it: an order with an unknown id joins level and
index, an order leaves both, an order with something left is reduced. `IndexOK` adds why
their hypotheses hold: ids in use are below `nextOrderId`, and the executing order is in
no container. So the branch of `CancelOrder` in which the level does not hold an indexed
order (`book.rs:276-280`) is dead.

**Histories and limits.** From `IndexInv` an active id has one record (`ActiveUnique`).
`HistoryOK` adds that only ids handed out have a history and that the history of an
order that is gone does not end resting; a step then changes the history of a live order
only. `MassCancelOK` says that a running mass cancel has every active order before it
and every order it reports behind it. `LimitOK` is why limits tested at submission only
hold later: an order that may come to rest found `Room` when it was admitted, or made
it when it was triggered, and nobody else takes it while the command runs.

**The ledger.** The open orders are those `Held` in a container or executing, one record
for each id (`HeldUnique`). Each action then changes the mapped variables by one ledger
action or none (`LedgerStep`): `BeginExecution` and `AcceptStop` enter, `FillBest`
matches, cancels and the end of an execution close, and activation stutters, since the
order only changes its place. `LedgerOK` is what an entry needs: ids grow, and what
executes was submitted in the same unit.

**Trades.** `AccountsOK` says that every copy of an order, in a level, dormant or
executing, is `Known`: it has the id and account of a submitted order. Self-trade
prevention compares copies; the property compares submissions. `QuantityOK` is about
sums over the whole tape. `Total` is a left fold, and folds recurse over sets of indices.
`FoldProofs` shows of any operator that its fold of the empty sequence is the base, that
one more element is one more application, and that a relation kept by each application
holds at the end; it is instantiated with addition here and with the database calls in
`ServerProofs`. With that a trade adds its quantity to the sums of its two orders and to
no other.

**Priority.** Time priority is read off the histories: `Place` says which entry tells
when an order took its place. `QueuesInTurn` keeps every queue sorted by it, `StopsWait`
and `TakerDue` say that the entry to come is the right one for an order that rests now
or after its activation. `Thinned` is what every other action does to queues: it removes
orders and changes the order of none.

**Stops.** `StopDue`: a dormant stop that the last trade of some taker has crossed is on
the call stack, or that taker still executes. It needs `TapePast` (an order submitted
now has no past trades to answer for) and `FillsFlow` (the fills of the taker are the end
of the tape).

**The book uncrossed, fill or kill.** Both are false for fill-or-kill stop orders, as run
`fok_stop` shows. `NoFokStops` excludes them: no request is a stop order with that time in
force. `TifOK` carries it from the submission to every copy, and `DepthOK` says that while
a fill-or-kill order executes, what is left of it is still there: the depth that `submit`
sums over a set of makers decreases by each trade as the order does. This part of
`MatchingProofs` therefore begins with sums over finite sets. That no uncrossed pair is
lost then follows from when `Settle` rests an order.

**Handlers and worker.** `ControlInv` relates phases, queue and worker: a handler is
queued exactly if it is in the queue of a live worker, once; one is running exactly if it
is served. A step of a handler `Goes` from one record to another and is no business of
the rest. `SwitchHolds` is then checked of each step.

**The journal.** `JournalInv` adds what a handler owes on its way from the engine's
answer to its client's: while it persists, its calls are some that leave the journal
alone and, last, the one that appends the events it will publish (`EndsWith`); while it
publishes, those events are in the journal, in order and without a gap. What the engine
reports (`Reports`) is needed to know that the calls are a list at all. The journal
only grows, so nothing already told is lost. `PublishedInv` adds what the channel holds
(`BroadcastOK`): every event on it is journaled, unless it is a book and the engine's has
been replaced; and a handler that publishes the book of a restore or a replay has
replaced it.

**Streams.** `StreamInv`: what a client has seen is what was broadcast between its
subscription and its cursor. Of the server's own steps none begins a stream (`Quiet`).

**Types through the tables.** `ServerTypeOK` includes `TypeOK` of a book that a restart,
a restore or a replay may have put together, so `TypeInv` is not inductive here. What
such a book is made of is typed as well: `BookOrder` is an order that can be rested at
its price whenever its kind can rest, and `TypedInv` says of every level, stop order,
event, snapshot and journal row, and of what a handler carries between the engine and the
tables, that its orders are such. Each operation of restore and replay keeps that of the
book it changes (`RestTyped`, `RemoveTyped`, `ReduceTyped`), and folds of them do by
`FoldProofs` (`RestoredTyped`, `ReplayedTyped`); in the other direction every action of
the engine writes typed events (`StepTyped`) and a snapshot of a typed book is typed
(`CapturedTyped`). That the queue, the worker and the phases agree is `ControlInv`; that
persisting appends a handler's events and changes no other journal row is
`PersistAppends`.

**The tables.** `HistoryTableComplete` and `TradesTableComplete` speak of a clean rest,
and hold whatever order the handlers wrote in. `TableInv` says of every moment what is
still to come. What is in a table, or in a call that a handler has not made yet, is true
of the engine: a trade is on the tape under its id, an entry is in the history
(`TablesTrue`, `CallTrue`). Conversely every trade of the tape and every entry of a
history is in its table, or some handler still has the call that will write it, or the
command that made it is running and its report will name it (`TablesOK`,
`HistoryCovered`). The two need the engine's own invariants (`EngineInv`) and what a
report covers: the histories a command touches are those `touched_histories` lists, the
taker's and each maker's. `INSERT OR IGNORE` loses nothing because one id has one trade.
At rest no handler has a call left. `StopsDormant` is needed since the trades of a
triggered stop are in no report (run `stop_trades`), and `NoneTurnedAway` since a request
that validation refuses has a history entry and no report.

**Snapshots.** `SnapshotExact` compares a book with one built by a fold over a list that
is itself a fold, of queues taken in price order, after a set of stop orders listed in a
chosen order. The proof names the book after each prefix: `Part(P)` is the book that has
exactly the levels of the places in `P`; restoring one more queue, order by order, makes
it the `Part` of one more place, since setting the queue of one place and setting that of
another commute (`SetQueueApart`). A listed set gives each stop order once, by its own id.
What the engine must know of itself is `WholeBook`: levels and index agree, and no stop
order rests in a level (`Kinds`), which restore would put to sleep.

**Replay.** While the book has one past (`lineage # "both"`: `TracedInv`), `RecoveryInv`
says in the middle of every command which book its events will replay to, all equalities
being up to the history (`BookIs`). Between commands it is the live book. While a
replacement or a mass cancel is under way it is the live book with an older sequence
number (`Behind`), since replay only hears of the later number at the end. While an order
executes the status it will end with is not known, and replay reads it first: the
acknowledgement comes before the trades. `FollowOK` therefore speaks of every status the
order may end with, and of the order as it will be then: if that rests, what replay has is
the live book with the order pushed already (`Acked`), and a trade of the taker with a
maker commutes with that push (`FillReplayedRested`). A checkpoint in the middle of the
journal splits the fold (`FoldConcat`), and a book that is loaded must be one the engine
could have (`Sound`), which `CheckpointOK` keeps of the stored snapshot. The hypothesis
`[][EventsTellAll]` excludes the three steps of section 3 whose effects no event tells: a
request that validation turns away, an execution that triggers stop orders, and a priced
order that traded and whose rest is discarded. Everything else is allowed:
immediate-or-cancel orders that fill, fill-or-kill and post-only rejections, accounts,
market orders, dormant stops, replacements, mass cancels, and any number of checkpoints,
restores and replays between commands.

**Only model-checked.** `CommandsComplete`, `RequestsAnswered` and `StreamDelivers` are
liveness and need fairness, which the prover does not handle. Every other property of a
passing run is stated by a theorem, two of the engine's under `NoFokStops` and
`ReplayRebuilds` under `[][EventsTellAll]`, as above.

## 5. What is left

**Not modelled.** Protocol envelopes (`protocol.rs`), in which `send_json` wraps every
event and which hold no state; the
command-line client, which is an HTTP call per command; of the frontend all but what a
dashboard makes of a book message; benchmarks and guards, which measure time; routes
and commands that only read, except the two snapshots; SQL text and the upgrade of old
schemas; encodings to JSON and to text columns; a change of `max_recent_trades`
between a snapshot and its restore (`book.rs:366`); the shutdown of the worker, which
comes after the last handler.
