# solana-sniper: TLA+ models and proofs

A verification development for the trading engine in `src/src/solana_sniper` (Python,
asyncio). Paths below are relative to that directory unless they start with `src/`.

## 1. The system

One asyncio process discovers tokens, follows their market data, scores them, quotes a swap,
emits a BUY signal, and from then on watches the position until a SELL closes it. What a
signal turns into depends on the mode: a human confirms it, a dry run confirms it by timer, or
(autonomous mode) the process signs and broadcasts a swap from a hot wallet and books the
balance deltas of the confirmed transaction. SQLite holds what must survive a restart.

| Component | State it keeps | Operations | Interacts with |
| --- | --- | --- | --- |
| Autonomous executor (`execution/autonomous.py`) | pending orders, `_launched`, `_tasks`, `_finished`, `_send_lock`, spend per day, intents | `auto_confirm`, `expire_stale`, `decide`, one task per order, `recover` | engine tick, rails, RPC, repository, account |
| Rails (`wallet/rails.py`) | none (pure) | `clamp_spend`, `check_buy`, `check_sell` | executor |
| Arming (`app/arming.py`, `cli/autonomy.py`) | marker files `armed.json`, `disarmed.json`, `KILL`, key file, `sniper.env` | `arm`, `disarm`, `kill`, `resume`, `read` | executor, CLI (another process) |
| Confirmed swaps (`wallet/reconcile.py`) | none (pure) | `parse_confirmed_swap` | executor, account |
| Manual and dry-run execution (`execution/manual.py`) | pending orders | `submit_buy`, `submit_sell`, `decide`, `expire_stale`, `auto_confirm` | engine, human commands |
| Engine (`app/engine.py`, `domain/state_machine.py`) | candidates, latch windows, quote tasks, position per mint | `on_token`, `on_snapshot`, `on_trade`, `tick`, `_evaluate`, quote tasks, `confirm_*`, `_housekeeping`, `_restore_positions` | everything |
| Portfolio (`portfolio/accounting.py`, `risk/milestones.py`) | cash, positions, ledger, peak, milestones reached | `deposit`, `open_position`, `mark_position`, `close_position`, `restore`, `update` | engine, executor, repository |
| Repository (`storage/repository.py`) | write-behind queue, pending batch, SQLite rows | `persist`, `persist_now`, writer, `flush`, `close`, `load_state`, `intents` | everything that is durable |
| Migrations (`storage/migrations.py`) | schema version, columns, payloads | the numbered steps, `run_migrations` | every start, `migrate` |
| Event bus (`app/bus.py`) | one bounded queue per subscriber | `publish`, `start`, `stop` | persistence, alerts, dashboard |
| Governor, HTTP, websocket (`infra/`) | per host: tokens, permits, cooldown, circuit, half-open probe; the connection | `slot`, `on_success`, `on_rate_limited`, `on_failure`, `_request`, reconnect | every provider |
| Discovery (`discovery/`) | mints seen, creates buffered | `poll`, `run`, `handle` | engine, market data |
| Market data (`market_data/`) | watched mints, subscriptions, a token's memory | `watch`, `unwatch`, `_poll_once`, `add_snapshot`, `add_trade` | engine |
| Checks, features, scores, gate (`filters/`, `features/`, `strategy/`) | none; outcome windows | `compute`, `evaluate`, `score`, `decide`, `latched`, `observe`, `finalize_due` | engine |
| Quotes and sizing (`quotes/`, `risk/engine.py`) | none (pure) | `parse_quote`, `evaluate`, `size` | engine |
| Positions and exits (`positions/`) | stale-since, peak velocity, liquidity window, last signal | `value`, `evaluate` | engine |
| Command file (`app/command_file.py`, `cli/commands.py`) | read offset | `read_new_lines`, `handle` | an operator's editor |
| Boot record, heartbeat, sessions (`app/bootrecord.py`, `app/health.py`, `web/session_discovery.py`) | `boot.json`, `status.json`, session rows | `record_start`, `record_stop`, `write_once`, `write_final`, `resolve_selection` | other processes in the home |
| Alerts, telemetry, keys, dashboards, paper, replay, configuration, diagnostics | see `PROJECT.json` | | |

What is hard: the tick, the order tasks, the quote tasks, the human's commands and the
operator's marker files interleave at every `await`; the process can die between any two of
the commits that book a swap, with a transaction already on its way; confirmations time out
while the network still holds the transaction; commits may fail silently; queues, caches
and circuits have limits; market data are late, doubled and out of order; and several processes
share the files of one home. `PROJECT.json` lists each such hazard at its line, with the
properties that cover it.

What makes each component correct:

* executor: an order is sent at most once; a durable record precedes the broadcast; only what
  landed is booked, and what is recorded as failed has failed; `kill` and `disarm` are prompt; the
  caps hold at every send; every order is resolved;
* engine: an open position is watched, a mint has one entry at a time, nobody waits forever, no
  order is left without its candidate, and what is decided rests on fresh and faithful data;
* portfolio: money is neither made nor lost, cash is what the chain says, a restart finds it;
* repository: an accepted write is settled exactly once and in order, and losses are admitted;
* migrations: what an earlier version wrote can be read, and means what it meant;
* governor: permits are conserved, a shut host is left alone, every request ends;
* market data: what is needed is watched, and only that;
* operations: commands are handled as written, and no file vouches for another process.

## 2. Modules

| Module | What it is |
| --- | --- |
| `Autonomous` | The executor with the rails, the markers, the order book it inherits, the tick that collects and books, the rows it commits, crash, stop and `recover()`, and the chain. |
| `SwapBooking` | The abstract promise about one order: written, wired, landed or void, booked. |
| `AutonomousProofs` | Theorems about `Autonomous`: types, tasks, rows and swaps, the refinement, and what the rails and the markers promise. |
| `Engine` | The life of candidates under manual and dry-run execution: discovery, staleness, latch windows, quote tasks, orders, booking, crash, stop and restart. |
| `Portfolio` | The account, the fills it books, milestones, the four commits of a booking, `load_state`, start and stop. |
| `Storage` | From an event to its row: the bus, the writer, `flush`, `persist_now`, shutdown. |
| `Migrations` | Databases of every version, and the processes that migrate them. |
| `Repository` | The life of the database file: `Migrations`, and only then `Storage`. |
| `Provider` | One provider host behind the rate governor, and the HTTP client that retries through it. |
| `Market` | Who is watched: discovery, candidates, outcome windows, polling lanes and the stream. |
| `Tracker` | What is remembered of one token, and the features read off it. |
| `Decision` | Checks, score, gate, round trip, size and exit rules, as operators over `Tracker`. |
| `Payloads` | What is made of the providers' answers. |
| `Token` | One token from its discovery to its closed position: the three above put together. |
| `Operations` | Processes and operators around the files of one home. |
| `EngineProofs`, `PortfolioProofs`, `MarketProofs`, `OperationsProofs` | Theorems about the module of that name, for every value of its constants. |
| `FeedProofs` | The theorems about the data of a token: how `Provider` asks for them, and what `Token` makes of them. |
| `StorageProofs` | The theorems about the database: `Storage` while the program runs, `Migrations` when it starts. |
| `DataLemmas` | What a sum over a finite set computes, which the theorems about money and permits rest on; that the ranks of a finite set number it without a gap; what appending, removing and filtering do to a queue whose members are distinct. |
| `MC...` | The instances TLC checks. |

`Engine`, `Market` and `Token` are three views of the engine: several tokens whose data are
abstracted, who is watched, and one token whose data decide. `Token` EXTENDS `Decision` and
`Payloads`, which EXTEND `Tracker`.

### Autonomous

State and code: `order` is `ManualExecution._orders` (free, pending, resolved); `launched`,
`tasks` and `finished` are `_launched`, `_tasks` and `_finished`; `waiting` and `job` are the
FIFO of `_send_lock` and the task that holds it, whose `pc` is the `await` it is at; `row`,
`dbFill`, `dbPos`, `dbLedger`, `dbCash` are the rows in SQLite; `pos` and `cash` are
`PortfolioAccount`; `spentBy` stands for `_spent` of the current day; `armed` and `kill` are the
marker files; `tx`, `wallet` and `tokens` are the chain. `sends`, `lateSends`, `lateBuys` and
`orphaned` are history variables the properties read.

Each `await` of `_execute` and `_send_and_confirm` is one action: `AcquireLock` (which also reads
the markers, as `_exposure` does before it awaits the balance), `ReadBalance`, `ReadTokens`,
`FreshQuote`, `SavePrepared`, `BuildAndSign`, `SaveBuilt`, `Submit`, `SaveSent`,
`AwaitConfirmation`, `ReadHeight`, `PollsRunOut`, `SaveConfirmed`, `SaveUnknown`, `SaveAbandoned`.
The status of a swap and the block height are two awaited calls, and what the second is compared
with may have changed since the first: `AwaitConfirmation` reads the one, `ReadHeight` the other,
and a swap that lands in between, or that is only "processed" and so still in the pool, is recorded
as EXPIRED. `PollsRunOut` is the end of `confirm_timeout_s`. `Reconcile` makes the same two calls.
`Launch` and `Collect` are the two halves of `auto_confirm`, `Apply` is `_apply_resolution` with the
account update, and `PersistStep` is one commit of `_persist_fill` (or of the same sequence in
`_book_recovered`). `Crash` may happen between any two actions; `Stop` is `Runtime.stop`, which
saves the summary row and the open positions and drops what the tasks had in hand. `Restart`,
`Reconcile` and `StartEngine` are `load_state`, `recover` and the start of the tick.

Abstractions: SOL/EUR is 1 and token prices are constant, so amounts are lamports throughout
and a swap moves as many token units as lamports; market value is read by the loss rail only
and is a nondeterministic verdict; slippage, impact, fee and drift caps are one verdict of
`FreshQuote`; there is one UTC day. A `submit` with an unknown outcome that never reached the
network is a transaction in the pool that expires. An unexpected exception before the send is
one of the abandons; after the send it is not modelled. The order in which `recover` goes
through the in-flight intents is left open (the code goes by `created_at`). An order pending at
a crash is lost, as in the code. The branch of `auto_confirm` for an order that is no longer
pending is unreachable and left out. The commit that failed is the choice `WritesMayFail`: TLC
runs with `FALSE` to keep the state space small; the proofs say which theorems need it.

### Engine

State and code: `st` is the candidate's state machine ("none": no candidate); `tracked` is
`TokenTracker._tracks`; `fresh` and `cooling` stand for `track.is_stale` and `cooldown_until`;
`entry` and `windows` are `cand.entry` and `entry_attempts`; `quote` is the quote task and
whether it captured `cand.entry`; `posOf` is `cand.position_id`; `order` is the order book;
`due` is what `auto_confirm` returned and `_apply_resolution` has not booked; `open`, `mintOf`
and `cash` are the account; `booking` says whose `_persist_fill` is under way; `dbOpen` and
`dbCash` are the rows a restart reads.

Coroutines interleave where one really suspends. The awaits of `decide` and `submit_*` take an
uncontended lock and do not; a quote and a commit do. So the tick's evaluation of a candidate is
one action (`Resume`, `Expire`, `LoseData`, `Reject`, `Qualify`, `Pursue`, `Renew`, `GiveUp` are
the ways `_evaluate` can end, `CancelStale` and `SignalSell` those for a signalled and an open
candidate), `Capture`, `QuoteDropped`, `QuoteFailed`, `QuoteFatal` and `SignalBuy` are the two
ends of a quote, `Confirm` and `Decline` are the human's commands, and `Apply`, `SavePosition` and
`SaveAccount` are the steps of a booking. While the tick applies resolutions nothing else runs
until it awaits a commit (`Awake`), and it evaluates nobody before the last one (`TickIdle`).

Abstractions: scores, checks, gate verdicts, quotes and elapsed time are nondeterministic;
BUY_SIGNAL and EXIT_SIGNAL, which a candidate leaves within the action that enters them, are
left out; a trade costs `Size` and `Fee` or nothing can be sized; a sale returns the size or
nothing. A minute of retention and seconds of cooldown are taken to be longer than a booking's
commits. Of the four commits the position's and the account's are modelled; that a commit may
fail is in `Autonomous`. Preparing an unsigned swap, exit quotes, metadata, holders and outcomes
touch none of this state. `submit_buy` and `submit_sell` refuse duplicates; `OrderIsOwned` shows
that they never meet one, so the refusal is left out.

### Provider

State and code: `host` is `_Host` without its counters and texts; a deadline (`cooldown_until`,
`circuit_open_until`) is the number of ticks to it; `gate` is its semaphore with `waiting`;
`tokens` the bucket; `caller` says where a request is between `slot()` and its answer, and how
many retries it has. `overtaken` and `admitted` are history. `Call`, `Retry` and `RateLimit` go
through `_admit` up to its first suspension; `Cooled`, `GetPermit` and `GetToken` are the three
places it resumes; `Succeed`, `ClientError`, `Malformed`, `Fail` and `RateLimit` are the ways out of
`slot()` in `_request`; `Tick` is time.

Abstractions: a tick is the time a token takes to fill, and the periods of the policy are small
numbers of them; jitter is a choice; the streaks saturate where the code no longer tells them
apart (`ProviderAssumption`); `PowersOfTwo`, which TLC evaluates, says that the powers the
backoffs use are positive numbers, and is all the proofs know of exponentiation. Registration of
policies, which happens before the first request, cancellation, which happens at shutdown, metrics
and log throttling are left out. A waiter that was granted a permit and has not run yet counts as
holding it, and as nobody else's competitor: that a queue means no free permit is a little tidier
here than in `asyncio.Semaphore`, where such a waiter is in neither place for an instant.

### Storage

State and code: `bus` is the storage subscriber's queue, `queue`, `budget` and `pending` are the
repository's `_queue`, `_telemetry_queued` and `_pending`; `writer` is where the writer task is;
`job` holds the calls of `_run_batch` (the writer's `_inflight`, one by the stopping program, one
by the engine) and `lock` is `_write_lock` with its FIFO; `taken` is what `flush()` took and keeps
while it awaits `_inflight`; `db` are the committed rows, `failed` and `over` the counted losses,
`evicted` the bus's and `cancelled` a cancelled commit's, which nothing counts. A row is its
number and its kind: one kind for each class the code tells apart, and `status`, which is in none.

Abstractions: what a row contains; retries are immediate; the wait in `drain` is not modelled
(after an eviction `join` never returns, for `_evict_one` takes items without `task_done`, and
`drain` runs into its five seconds with an empty queue); the engine has one `persist_now` under
way at a time; rows that cannot be built (`note_dropped`) count like failed ones.

### Portfolio

State and code: `account`, `pos` and `ledger` are `PortfolioAccount`, `reached` is
`MilestoneTracker.reached`; `booking` is how far each coroutine's `_persist_fill` has come, with
the row captured for its next commit, and `lock` the repository's `_write_lock`; `dbAccount`,
`dbPos` and `dbLedger` are the rows `load_state` reads. `moved` and `cut` are history. A fill comes
from `Fills`: in an autonomous session from a confirmed transaction, by `ParseConfirmedSwap` and
`FillFromSwap`, otherwise from the order and what a human says of it, by `BuildFill`.
`OpenPosition` and `ClosePosition` change the account at once and begin the commits, `CommitStep`
is one commit and captures the next row, `MarkPosition` and `Snapshot` are the tick's valuations,
`Found`, `FoundStep` and `Restore` are the first and every later start. Amounts a human gives are
taken as they come, negative ones included, as `build_fill` takes them; `Restore` takes the last ten
results of the ledger, as `load_state` does, whatever the streak window of the settings.

Abstractions: one SOL is one EUR and amounts are whole; the autonomous executor books on the
tick only, a human's command may book beside it; a failed commit is in `Storage`; fees and slippage
totals, which only add up, are left out.

### Provider, Market and what a token's data decide

`Market`: `cand` abstracts the candidate's state to what watching depends on; `follow` is its
outcome window; `unwatching` are spawned tasks that have not run; `waiting` and `onWay` are the
requests of the two lanes at the semaphore; `link`, `wire`, `server` and `subscribed` are the
socket, what is on its way over it, what the server streams and what the client wants. A send takes
effect in the order it is written; what a broken connection held is gone. Ages, scores and retention
times are nondeterministic, and so is when a discovery record expires, after which the mint can be
found again; `finds` counts down how often each mint still can be, from one of the bounds in
`FindBounds`. `raced` is a history variable: the mints that were found again while an `unwatch` of
them was spawned and had not run.

`Tracker`, `Decision` and `Payloads` have no variables: they say what `TokenTrack`,
`FeatureEngine`, `TokenChecker`, `EntryScorer`, the gate, `RoundTripEvaluator`, `RiskEngine`, the
exit engine and the parsers compute, with times in seconds, ratios in percent and rounding down.
The settings are records constrained as the validators of `config/settings.py` do. Left out are
the logarithms of the volatility (only whether there is a reading is kept), texts, and those limits
and lengths of windows that only choose between numbers no property tells apart.

`Token`: `now` moves by `Step`, and the engine looks once per step, after at most one arrival;
`track` is the token's memory, `cand` the candidate, `mon` `MonitorState`, `outcome` the outcome
window. `Snapshot`, `Traded`, `MetadataArrives` and `HoldersArrive` are the providers, `Evaluate`
and `Monitor` the looks, `QuoteFails` and `QuoteArrives` the ends of a quote, `Confirm...` and
`Withdraw...` what becomes of an order. `Restart` keeps the position and forgets the rest. The
account of other tokens changes by `AccountChanges`, at any time before this token is bought. A look
that qualifies the token notes its price for the outcome, even if the same look then sizes the
order to nothing and falls back to monitoring.

### Operations

State and code: `phase` is where each process is between `run` and its exit; `file` the pieces of
lines in the commands file, `offset`, `batch` and `done` its readers; `boot`, `status` and `began`
are `boot.json`, `status.json` and the session rows; `wallet`, `enabled`, `armed`, `disarmed` and
`kill` the files of arming; `arming` and `disarming` how far a command that writes two of them has
come. Each action reads or writes one file. `Older` is the clock. What a command does to the
engine is in the other modules: here it is the word.

Abstractions: a line is one or two pieces, a word and a number; the health of the parts is a
nondeterministic verdict (`Troubles`); session rows of paper runs and of the service are told apart
by their process only.

### Migrations

State and code: `file` is what is committed and `work` what a process's transaction sees; `pc` and
`step` say where `run_migrations` is. A payload is abstracted to what the steps read and write.
An ALTER outside of a transaction takes effect at once, for `sqlite3` begins one at the first row
that is written. Initial states are all databases an earlier version can have left, those of the
first form of step 2 and half migrated ones included.

`Repository` puts the two one after the other, as `init()` and `start()` do: the migrations run to
their end and then, with `Start`, the writer begins; no step belongs to both. What is done with a row
does not depend on how the schema came about, so that the writer is followed only on a database that
was new and whose migration nothing disturbed (`NewAndUndisturbed`).

## 3. What the runs show

| Run | Bounds | Shows |
| --- | --- | --- |
| `AutonomousCrash` | 2 BUYs of one token, 1 SELL, 2 crashes or stops, unreadable swaps | `SentAtMostOnce`, `SentIsRecorded`, `BookedHasLanded`, `FailedIsFinal`, `OnePositionPerMint`, and that `Autonomous` implements `SwapBooking` (`BooksSwaps`) |
| `AutonomousRails` | 2 tokens, sizes 1 and 2, daily cap 3, scarce wallet and cash, 2 operator commands, unreadable swaps, fairness | `MarkersArePrompt`, `DailySpendCapped`, `ReserveKept`, `PendingResolves` |
| `AutonomousUnreconciled` | 1 crash | finds `ConfirmedIsReconciled` violated |
| `EngineDryRun` | 2 tokens, tracker limit 1 or 2, cash for two positions, 1 crash or stop | `OpenIsWatched`, `CanRestart`, `OrderIsOwned` |
| `EngineSignals` | 2 tokens, 2 latch windows, one human, `max_open_positions` 1, cash for one position, fairness | `ExposureCapped`, `WaitingEnds` |
| `Portfolio` | 2 positions, tick and human, 7 transactions, 2 orders, 3 overrides, 1 restart | `Conserved`, `CashIsOnChain`, `RestartAgrees`, `LedgerAgrees` |
| `Repository` | 2 processes, 2 records and an outcome, 2 crashes, every earlier version; then 3 rows, bus queue 2, batch 2, telemetry budget 1, any commits failing; fairness | `ReadyIsReadable`, `EvidenceIsKept`, `AllGetReady`, `NothingVanishes`, `EndIsHonest`, `RowsInOrder`, `StopEnds` |
| `Provider` | 3 callers, 4 requests with at most 1 retry, 2 permits, 2 waiting, trip after 2, fairness | `PermitsConserved`, `ShutHostIsSpared`, `RequestsEnd` |
| `Market` | 2 mints found once each or 1 found three times, one streamed, room for 1 candidate and 1 window, batches of 1, fairness | `UnwatchedOnlyByRace`, `StreamMatches`, `NothingLeaks` |
| `MarketRediscovered` | as `Market` | finds `MeasuredIsWatched` violated |
| `Token` | 1 token for fifty seconds in steps of ten, 3 arrivals, 1 clock set back, 1 restart, default settings | `MemoryIsFaithful`, `OutcomeIsHonest`, `NeverBlind`, `SpendsWithinCaps` |
| `Operations` | service and paper session, 4 acts of operators or failures, heartbeat every tick, commands `kill`, `disarm` and one for the engine (`quit` has the effect of a signal) | `HandledAsWritten`, `StatusIsHonest`, `StopMarkIsOwn`, `DisarmStands` |

The bounds are the smallest in which the cases meet: two BUYs and a SELL are what it takes for one
order to wait for the lock while another is executed and a third is booked; the second crash hits
the recovery from the first; the caps are set so that one BUY fits and two do not. In `Provider`
three callers are what it takes for one to be on the wire, one to queue and one to arrive, and two
trips and two 429s take both backoffs to their maximum. In `Storage` three rows fill a bus queue of
two and overflow it, fill a batch and start the next, and use up the budget; every commit may fail
at each of its stages and the shutdown may begin anywhere. In `Portfolio` two bookers are what the
write lock is for, and the transactions hold a buy, sales under, at and above the cost, a failed one
and three that cannot be read. In `Market` a tracker of one is full with the first mint, so the
second evicts it; a record that expires shows when its mint is found again, and a mint found three
times has windows, requests and an `unwatch` that outlast the record they began with, twice. Both at
once are too many states for `NothingLeaks` (`FindBounds` says which combinations a run takes).
Three arrivals in `Token` are two that qualify it (one of them doubled or late) and one that changes
the decision; longer histories fill the memory's buffers in `Tracker` only with trades that repeat.
Exits by spread, momentum and timeout need longer histories or the synthetic provider and are not
reached. In `Operations` four acts are enough for a process to be replaced while it stops, with an
operator at work on either of two files.

Where a property makes an exception, it is the code that does:

* `MarkersArePrompt` allows one late send, that of the task that had already read the markers,
  however many ticks later, so that KILL need not stop everything "within one tick", see below;
* `FailedIsFinal` leaves out swaps that landed and whose balances could not be read, which the code
  records as FAILED; a swap that landed may be recorded as EXPIRED, see below;
* `ReserveKept` is net of network fees and of BUYs given up while they could still land, as unknown
  or as expired;
* `UnwatchedOnlyByRace` leaves out mints found again while an `unwatch` of them was on its way; that
  all that is measured is watched is violated, see below;
* `OpenIsWatched` holds in `EngineDryRun` because the tick that books is the one that would cancel;
  `ExposureCapped` is checked with a human only: in dry-run mode orders confirmed and not yet
  booked are counted nowhere;
* `Conserved`, `CashIsOnChain` and `RestartAgrees` are for accounts none of whose bookings was
  cut, `LedgerAgrees` for ledgers without a gap and streak windows of at most ten (see below); a
  sale that brings less than its fee is booked as zero;
* `SpendsWithinCaps` allows the 2 % for which no new quote is asked (`app/engine.py:935`);
* `HandledAsWritten` leaves out readers of a file that was truncated and has grown past their
  offset, and the end of a line that was begun before they started;
* `NothingVanishes` counts what the bus evicts and a cancelled commit loses, which the code's own
  counters do not.

Every stateful module but `Operations` and `Token` has a `TypeOK`. None is in a run: those of
`Autonomous`, `Engine` and `Migrations` (`SchemaTypeOK`) are proved, the others were checked on the
way.

### Disagreements with the documentation

Two are runs:

* `AutonomousUnreconciled`: the process dies after the CONFIRMED row, before the tick books it, and
  `recover()` looks at BUILT and SENT only, while `domain/enums.py:204` says of CONFIRMED "confirmed
  on chain and reconciled into a fill";
* `MarketRediscovered`: a mint whose discovery record has expired (`discovery/service.py:82-86`) is
  found again between housekeeping's spawning of its `unwatch` (`app/engine.py:1417`) and that task's
  turn: `watch` finds it watched (`market_data/service.py:83`), and then it is unwatched with a
  candidate or a window that needs it, while `src/README.md:679-680` says that "the market watch is
  kept alive until measurement ends, then released". `UnwatchedOnlyByRace` says that this race is
  the only way.

The following were found while modelling and have no run of their own.

Orders and money:

* a task reads the markers once, when it gets the lock (`execution/autonomous.py:410`), and then
  awaits balances, a quote, the build and two rows; KILL is written meanwhile, ticks begin and end,
  for none waits for the task, and the swap is broadcast, while `src/README.md:140-141` says that
  `kill` "stops buys *and* sells within one tick" and `app/arming.py:6-7` "within one engine tick".
  `MarkersArePrompt` says what the code keeps instead;
* the status of a swap is read, the swap lands, and then the block height is awaited and found past
  the last valid one (`execution/autonomous.py:693`; `recover()` does the same at
  `execution/autonomous.py:750`): the row says EXPIRED, the order is resolved as not executed, and
  no `recover()` looks at EXPIRED rows, while `domain/enums.py:206` says of it "the transaction
  cannot land". What the BUY bought is in the wallet and nobody monitors it. `Autonomous` can do
  this, and no property says otherwise;
* a BUY times out and is given up; a second BUY of the token lands and so does the first; the SELL
  sells the whole wallet balance of the mint (`execution/autonomous.py:541`); the restart books the
  first BUY as a position with no tokens (`src/README.md:785-786`, "never a phantom position");
* the spend of the day is rebuilt (`execution/autonomous.py:726`) from SENT and CONFIRMED rows
  before `recover()` reconciles; a BUY whose process died between the broadcast and its SENT row
  is not counted, and the "hard caps" of `src/README.md:129-130` can be passed;
* `_send_lock` is released before the tick opens the position, so the next queued BUY is checked
  against a count that misses it, and the cap on open positions of the same line can be passed by
  one;
* a human confirms; while the fill's commits are awaited the data go stale and the tick cancels the
  candidate (`app/engine.py:1019`); the position is open and no tick monitors it (`src/README.md:7`,
  "tick-by-tick position monitoring");
* a confirmed sale that brought less than its fee is booked as one that brought nothing
  (`portfolio/accounting.py:224`), so cash ends above the wallet's balance;
* `load_state` takes ten results from the ledger (`storage/repository.py:1100`), while the settings
  allow a streak window of up to 1000 (`config/settings.py:395`): a restart without a summary row
  forgets a longer losing streak that the account knew of (`src/README.md:513-515`);
* the account row is captured before `MilestoneTracker.update` (`app/engine.py:1166-1184`), so a
  milestone reached by the last booking is announced and recorded again after a restart
  (`src/README.md:396`, "on every crossing");
* a crash between the commits of `_persist_fill` leaves a fill without ledger entry or account row,
  and `Runtime.stop`, which cancels the commits of a sale, saves cash with the proceeds beside the
  row of the sold position, still open (`src/README.md:513-515`, `app/bootstrap.py:278`);
* a position restored after a restart whose data never come back has no features, which the exit
  engine takes for not stale: it is not sold after `stale_exit_after_s` but after the holding
  timeout (`positions/exit_engine.py:111`, "data stale: we cannot see the position; that is itself
  an abnormal condition").

Storage and providers:

* `update_signal_status` queues with the default kind `telemetry`, which is no member of
  `TELEMETRY_KINDS`: it is counted against the telemetry budget and never given back, so after
  `max_queued_telemetry` of them all telemetry is dropped, although `persist` says it is dropped
  "when the writer is more than `max_queued_telemetry` rows behind";
* a half-open probe that is answered with a 429 or a 4xx, or is refused for a cooldown, leaves its
  flag set, and every later request is refused with "half-open probe in flight"
  (`infra/governor.py:179-181`) until the process restarts;
* `update.sh` runs `migrate` while the old service still runs, which writes rows in the old form
  after the migration (`src/README.md:504`).

Operations:

* a task of the engine that raises ends the wait of the run, which stops in order, records
  `clean: duration elapsed` and exits 0 (`app/bootstrap.py:271`), although `src/README.md:525` tells
  `clean` from `unclean (no stop marker)` and `src/README.md:508-509` counts on a non-zero exit;
* an `arm` that overlaps a `disarm` can leave neither marker (`app/arming.py:179,190`): buys are
  then off without a reason shown;
* `arm` reads the balance before it asks its question (`cli/autonomy.py:306,379`), and writes
  `sniper.env` and `armed.json` apart: a crash in between leaves the mode enabled and not armed;
* a commands file truncated and grown past the old offset between two polls loses lines and may
  start in the middle of one (`app/command_file.py:33`); a line whose first half was there at start
  is read from its middle on; every process in the home handles every command;
* two starts at the same time can lose one from the count of starts (`app/bootrecord.py:34`).

## 4. Fairness

`Autonomous!FairSpec` assumes weak fairness of the executor (a coroutine whose awaits all return or
time out: HTTP calls have timeouts), strong fairness of `PollsRunOut` (polls of the status and of
the height may alternate, but `confirm_timeout_s` bounds them together), weak fairness of the tick
(a loop with a 0.25 s sleep that catches every exception), of TTL expiry (`expire_stale` runs in
every tick), and of recovery. Nothing is assumed of the chain, the operator, the engine's wish to
trade or crashes, of which there are finitely many.

`Engine!FairSpec` assumes that latch windows elapse and commits return (weak fairness), and that
every candidate is evaluated and every order over its TTL expired again and again (strong
fairness: each tick, every 0.25 s, first applies what it collected and then evaluates every
candidate, so that neither can be put off forever by bookings). Nothing is assumed of quotes, of
market data or of the human.

`Provider!FairSpec`: timers fire, a task that can run runs, and a request is answered or runs into
the client's timeout. `Storage!Fairness`: the subscriber, the writer and the stopping program run
when they can, and a commit ends, well or badly. Neither assumes that anything succeeds.

`Market!Fairness`: the websocket reconnects (its loop has no way out), the tick finalises outcomes
that are due and does its housekeeping, the general lane polls, and a request is answered or times
out. `Migrations!SchemaFairness`: a process goes on, and one that died is started again, by launchd
or by whoever ran `update.sh`.

## 5. What is proved

Every theorem is `Spec => [](...)` or an action property, for every value of the constants that
the named assumptions admit: any sets of orders, mints, callers, processes and positions, any
limits, any number of crashes. A theorem about a sum, or about permits, needs the set it is over
to be finite. What else a theorem assumes is part of its statement and listed here.

| Theorem | Property | Needs |
| --- | --- | --- |
| `AutonomousProofs!TypeCorrect` | `TypeOK`: every variable has its type, so no booking makes cash negative | |
| `AutonomousProofs!OneSend` | `SentAtMostOnce` | |
| `AutonomousProofs!NoPhantomBooking` | `BookedHasLanded` | |
| `AutonomousProofs!PromptMarkers` | `MarkersArePrompt` | |
| `AutonomousProofs!RecordBeforeSend` | `SentIsRecorded` | no commit fails |
| `AutonomousProofs!FailedForGood` | `FailedIsFinal` | no commit fails |
| `AutonomousProofs!PositionPerMint` | `OnePositionPerMint` | no commit fails |
| `AutonomousProofs!Refinement` | `BooksSwaps`: `Autonomous` implements `SwapBooking` | no commit fails |
| `AutonomousProofs!SpendWithinCap` | `DailySpendCapped` | no process has died; finitely many orders |
| `AutonomousProofs!WalletKeepsReserve` | `ReserveKept` | finitely many orders |
| `EngineProofs!EngineTypes` | `TypeOK` | |
| `EngineProofs!OwnedOrders` | `OrderIsOwned` | |
| `EngineProofs!DryRunWatches` | `OpenIsWatched` | no human (`Handlers = {}`) |
| `EngineProofs!DryRunRestarts` | `CanRestart` | no human |
| `EngineProofs!CappedExposure` | `ExposureCapped` | a human (`~AutoConfirm`); no process has died |
| `PortfolioProofs!MoneyConserved` | `Conserved` | finitely many positions |
| `PortfolioProofs!RestartsAgree` | `RestartAgrees` | finitely many positions |
| `PortfolioProofs!CashFollowsChain` | `CashIsOnChain` | the same; a landed purchase takes its fee from the wallet |
| `PortfolioProofs!LedgerIsAccount` | `LedgerAgrees` | finitely many positions |
| `FeedProofs!PermitsKept` | `PermitsConserved` | finitely many callers |
| `FeedProofs!ShutHosts` | `ShutHostIsSpared` | |
| `FeedProofs!FaithfulMemory` | `MemoryIsFaithful` | |
| `FeedProofs!HonestOutcomes` | `OutcomeIsHonest` | |
| `FeedProofs!BuysWithinCaps` | `SpendsWithinCaps` | |
| `FeedProofs!NeverActsBlind` | `NeverBlind` | `None` is no record with the fields of the features or of a position |
| `MarketProofs!WatchedWhileNeeded` | `UnwatchedOnlyByRace` | |
| `MarketProofs!StreamAgrees` | `StreamMatches` | |
| `StorageProofs!NothingIsLost` | `NothingVanishes` | |
| `StorageProofs!OrderIsKept` | `RowsInOrder` | |
| `StorageProofs!TheEndIsHonest` | `EndIsHonest` | |
| `StorageProofs!MigrationsTypes` | `SchemaTypeOK` | |
| `StorageProofs!Readability` | `ReadyIsReadable` | |
| `StorageProofs!Evidence` | `EvidenceIsKept` | |
| `OperationsProofs!StopMarks` | `StopMarkIsOwn` | |
| `OperationsProofs!DisarmsStand` | `DisarmStands` | |
| `OperationsProofs!CommandsHandled` | `HandledAsWritten` | |
| `OperationsProofs!HonestStatus` | `StatusIsHonest` | |

The conditions are the code's. A dead process forgets what it had sent and not recorded
(`DailySpendCapped`), and may leave a sold position open in the rows, which the next start counts
beside the one bought since (`ExposureCapped`); a human's commands book beside the tick, which
breaks `OpenIsWatched`. That a landed purchase costs the wallet at least its network fee
(`BuysPayTheirFee`) is a fact of the chain, not of this program. Each module also assumes that
`None` is none of the values it stands beside (`NoneAssumption`). The other assumptions are named in
the modules that declare the constants, and TLC evaluates them in the runs: the settings have the
types and orders their validators enforce (`DecisionAssumption`, `TrackerAssumption`), what is read
of an answer as a number is a number or `None` (`PayloadAssumption`), the account consists of
numbers (`AccountAssumption`), and `None` is not among the reasons of an exit (`ReasonAssumption`).
That `None` is no record (`NoneIsNoRecord`) is a hypothesis of the one theorem that needs it,
because TLC's `None` is a model value, of which no domain can be evaluated.

### The arguments

Hardly any of these properties is inductive as it stands. What had to be added:

`Autonomous`. `SentAtMostOnce` needs that an order has one task, in the queue or at the lock, that
a task before its `submit` has sent nothing, and that an order not yet launched in this process
and not resolved has never been sent; that is `TasksOnce`, and a crash keeps it because it
resolves every pending order. `BookedHasLanded` needs that every outcome on its way to the account
(at the lock, in `_finished`, in the tick's hands, in the commits of a booking) is of a landed
order (`LandedFirst`). `SentIsRecorded` needs that the row of the order at the lock advances with
its `pc`, and that what `recover()` rewrites is no longer fresh (`WrittenFirst`). `Inductive` is
the conjunction with `TypeOK`. The refinement maps the transaction of an order, or before there is
one its row, to its stage: every action is a step of `SwapBooking` or a stutter.

* `MarkersArePrompt` (`MarkersHold`): once one task has sent past a marker, the marker is there and
  the task at the lock is none that passed it unseen, for every later one reads the markers.
* `FailedIsFinal` (`Settled`): a task that gives up with FAILED has the chain's word for it, or that
  of whoever refused the transaction (`GivenUpRightly`), and both are final; and a task about to
  submit has a BUILT row, so that no row says FAILED of what is about to enter the pool.
* `OnePositionPerMint` (`Positions`): of all the BUYs of a mint one at most is pending, in the
  hands of the tick, or an open position (`OneClaim`), and the same of the rows (`OneRow`); the
  two agree but for what the booking under way has still to write (`Agree`).
* `DailySpendCapped` (`Counted`): every BUY on the wire is counted, but for the one whose task has
  yet to write its SENT row, and what the task at the lock may add fits under the cap with that
  sum.
* `ReserveKept` (`Reserved`): what the wallet holds covers the reserve and all that the pool may
  still take, and from the balance's reading to the send of a BUY also what this BUY will take.

`Engine`. `OwnInv` says for whom each candidate waits, with which slot of the account, and what each
booking is in the middle of (`BookingOK`, `Waiting`, `Halted`). Without a human, `RowsInv` adds that
what the rows hold can be loaded at each commit of a booking: no two positions of one mint. `CapInv`
says that nothing is confirmed but by the human, so that a pending BUY becomes a position at once,
or none.

`Portfolio`. `Conserved` is not inductive because a restart takes the account from one row and the
positions from others, committed by different bookings at different times. `Books` says why they
agree: the write lock is first come, first served, and each booker is in its queue once; the
booking last in the queue has captured the account as it is; a position's row is up to date or its
booking is under way; and during the founding of an account nothing is booked. `Balanced` and
`OnChain` are the equations about cash. All of it is about accounts of which no booking was cut.
`LedgerAgrees` rests on `Ledgers`: no two entries share a number; the last one has its row or a
booking under way will write it (`LastHeld`); and a ledger without a gap adds up to the account
(`Tallied`). An entry whose row was skipped leaves a gap for good, because the next one is numbered
after the last, so that between bookings rows without a gap are all there are (`CompleteIsAll`).
That `ORDER BY seq` puts a newer entry behind the others (`SortedMore`) and that the window of
recent results slides (`LastOfMore`) make one entry more one fill more (`TalliedMore`).

`Storage`. All three properties come from one picture of where rows are (`Line`): what `stop()`
commits, the writer's commit, what a flush took over, what the writer collects, and the queue, one
behind the other, are exactly the last of the rows that arrived, in their order; those before them
(`From` of them) are settled (`Lined`, `Apart`). Every step either appends at the end, moves the
border between two neighbours, or settles rows at the front; that it is always the front rests on
the write lock, whose waiters stand once each and a flush ahead of the writer it took from
(`Locked`, `Ahead`), and on who may hold rows when (`Working`). What never was in the queue (a
`persist_now`, the session's own rows, what is still on the bus) is kept apart from it by its ids.
`NothingVanishes` follows from `Apart` and `Accounted` by counting, `RowsInOrder` because a commit
extends the front, `EndIsHonest` from what each phase of the shutdown finds empty (`Emptied`).

`Provider`. `Accounted` counts the free permits, those of requests on the wire and those handed to a
waiter that has not run yet, and says that the semaphore's queue holds each waiter once, in order.
`Spared` compares whoever is past the gate with the circuit at the time they went in.

`Token`. All of it rests on `Remembered`, what the memory of a token holds whatever arrives and
however the clock is set: numbers where numbers are read, snapshots in order of time, each
signature once, and for each remembered trade its signature, no further from the end of its buffer
than the trade from the end of its own (`SigsOutlast`). That is why a buffer of signatures that is
not shorter than that of the trades forgets none too early, and why a trade that is delivered again
is always known. `WindowIsWhole` follows from the order of the snapshots alone: the first one that is
too old has only older ones before it.

* `OutcomeIsHonest` (`Measured`): a window's measures of price and of liquidity are each the highest
  of what was heard and the lowest since it was first reached (`PeakOf`); one observation more is
  the new peak, or lowers what came after it, or neither (`PeakGrows`).
* `SpendsWithinCaps` (`Quoted`): the amount a quote was asked for is a number, and when the answer
  comes the size is computed again; if that is smaller by more than 2 % a new quote is asked and
  nothing ordered (`AnsweredIs`), else the order is within 2 % of a size that is at most each cap
  (`SizeIs`). The work is in that every number on the way is one: the components of the score, of
  which some are not known (`ScoreIs`), the interpolated multipliers, the tier, and the caps, of which
  the smallest exists (`LeastIs`).
* `NeverBlind` (`Watchful`): an order that waits is withdrawn at the look that finds its data stale,
  so they are never older than the limit and a step (`BuyWaits`). For an open position, `Patient` is
  the time up to which a look may find nothing to note: the data are young enough, or a SELL waits or
  has just been withdrawn. One step later the monitor has noted since when the position is blind
  (`BlindIsNoted`), and a look that finds the wait over makes a SELL signal, whatever the other
  rules of the exit engine say.

`Market`. `Watched`: a mint that is needed (by a candidate, or a window that is open or being saved)
and was not raced is watched and no `unwatch` of it is on its way. An `unwatch` is spawned only when
nobody needs the mint, and a candidate that comes later either meets that `unwatch`, which is the
race, or comes after its turn and watches the mint anew. `Agreed`: what the server will stream once
it has read what is on the wire (`StreamsIn`) is what is subscribed.

`Migrations`. `SchemaInv`: the committed database is sound for its version (`Sound`), and so is what
each process sees in its transaction, as far as its step has come (`ProcessOK`).

`Operations`. `BootInv`: a process that is about to mark the boot record has read a record of its
own. `DisarmInv`: while the home is armed after a disarm, that disarm is not complete.

* `HandledAsWritten` (`Readers`): the two pieces of a line stand side by side in the file and the
  lines in their order (`FileOK`), so that what comes after an end is of a later line. What a reader
  has taken is in order (`Ordered`), and either everything up to its offset has been taken and
  nothing after it (`Caught`), or the file was emptied and all that is in it is new to the reader
  (`Ahead`). One append is one or two pieces, each of which keeps this (`ReaderOutlives`); a poll
  takes the lines of all the ends it passes, in their order (`Consumed`, `ReaderReads`).
* `StatusIsHonest` (`Shown`): a heartbeat without the mark that it is the last names a process that
  has not begun to write that one; its age is at most the time since any running process's last
  report, because only a report resets that time and every report replaces the heartbeat; and
  `quiet` restarts at each step that takes `Armed` away.

`DataLemmas` proves what the folds of the community modules compute over a finite set:
`MapThenSumSet` is a function chosen by `CHOOSE`, and the lemmas show that it exists and that the
order of the summands does not matter. The induction goes over a set of the cases that hold, from
a least one that does not (`WFMin`); `PortfolioProofs!DrawnIsSum` does the same for a fold over a
sequence. It also proves that the ranks of the members of a finite set of numbers go from 1 to its
cardinality (`Ranks`), by which `LinesOf` and `NewestFirst` of `Operations` go through theirs.

### What is only model-checked

Liveness (`PendingResolves`, `WaitingEnds`, `RequestsEnd`, `StopEnds`, `NothingLeaks`,
`AllGetReady`): fairness and ENABLED are beyond the prover. Every safety and action property of the
runs is proved. What the theorems do not say is which value a recursive or folded computation has:
that the score is a number is proved, what it amounts to is only what `Decision` says. The
violations in `AutonomousUnreconciled` and `MarketRediscovered` are counterexamples and nothing to
prove.

## 6. Not modelled, and the plan

Modelled and checked: every part in the table of section 2. Proved: every safety property that is
checked. What is left is to compose `Engine` and `Autonomous`.

Not modelled: the dashboards' pages and the reports' queries, alerts, metrics and redaction,
configuration files and diagnostics, key files and signing, which are presentation, I/O or
parsing without a state the rest depends on; paper sessions and replay, which drive the same engine;
DexScreener's list of profiles and boosts, one more source of the discovery service; the RPC
client's cache and single flight; statistics over outcomes. The executor's refusal of a stale-data
cancel (a ValueError out of `decide`, which ends the tick early) joins `Engine` and `Autonomous`,
which are not composed.

Known limits: a crash in the middle of a recovery can book the fill row of a swap twice (the code
has no key on the signature), which no property forbids; `close_position` closes the whole position
whatever amount the fill sold; the clock set back makes data look fresh and drops newer snapshots;
a redelivered trade refreshes a token's age although it is counted once. `Token` and the memory of
`Tracker` are one token's: eviction of old signatures is not reached within the bounds.
