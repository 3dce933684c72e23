# TLA+ models of the news trading pipeline

This directory holds TLA+ specifications of the services under `src/`, the TLC
configurations that check them on small instances, and TLAPS proofs about them.
Paths below are relative to the repository root (`src/infra/...` is the Python
package directory of the repository).

    tlc -workers 2 -config <run>.cfg <module>.tla     # one run of PROJECT.json
    tlapm <module>_proofs.tla                         # the proofs

## 1. The system

A chain of asyncio services that talk through Redis Streams and a few Redis keys:

    Telegram -> receiver -> news:raw -> enricher -> news:enriched -> predictor
             -> ml:predictions -> decision -> trade:signals -> bridge -> trade:executions
    QUIK -> quik_feed -> candles:1m   (read by predictor and bridge)
    every service -> system:heartbeats -> monitor

Delivery between services is at least once: a consumer group, XACK after the
handler, the pending entries list (PEL) for what was not acknowledged. On top of it
every handler starts with an idempotency claim (`SET idem:<scope>:<key> NX EX`).
The hard behaviour of the system sits where these two meet, and where two services
share Redis keys without a transaction.

### Inventory

| Component | State | Operations | What makes it correct | Hard because |
|---|---|---|---|---|
| `infra/consumer.py` StreamConsumer | entries delivered and pending per consumer, the local batch | startup recovery (XPENDING + XCLAIM), read (XREADGROUP), handle, XACK | nothing is acknowledged unhandled; every entry is settled; recovery ends | crashes, lost replies, several workers, entries stolen while they wait in a batch |
| `infra/pel_reclaim.py` PelReclaimer | cursor, batch, counters | XAUTOCLAIM, delivery check, terminal DLQ, retry | never works on what a worker still works on; gives up exactly after `max_deliveries` | races with the workers, idle time as a substitute for "abandoned" |
| `infra/idempotency.py` | keys with a TTL | claim | one output per event | the claim is taken before the work and never released |
| `services/enricher` pipeline | outputs, DLQ records, enrichment cache | claim, LLM call, publish, cache, DLQ | each news item published or rejected once, none lost | retry and claim contradict each other; LLM failures |
| `services/enricher` key pool, LLM and DI clients | cooldowns, attempts | acquire, cooldown, retry loops, classification | bounded attempts, a key in cooldown is not used | time, error classification |
| `services/predictor` | candle cache, 24 h news history | bootstrap, claim per ticker, predict, publish | one prediction per (event, ticker) | a list of tickers handled one by one, replay after a partial failure |
| `services/decision` | daily PnL, cooldown and open-position keys (read) | gates, sizing, publish | limits hold: open positions, daily kill, cooldown | reads what bridge writes later |
| `services/bridge` pipeline and position tracker | persisted positions, open set, daily PnL, cooldown, tracking tasks | open, persist, track, close, recover | one OPEN, one CLOSE, PnL booked once per position | several Redis writes per step without a transaction, crashes between them |
| `services/bridge` real executor, QUIK order client, risk guard | order files, replies | send, await, OCO, kill | no position without protection | external terminal, time-outs (not wired in production) |
| `services/quik_feed` | file offsets, last bar per ticker | bootstrap, poll, publish | each bar published once, in order | partial lines, truncation, restart, holes |
| `infra/candles.py` | bars per ticker, stream cursor | load, add bar, subscribe | bars sorted and unique, none skipped | restart of the subscription |
| `services/receiver` | dedup keys, backfill | dispatch, backfill, storm detection | each news published once | claim before publish |
| `infra/heartbeat.py`, `services/monitor` | last heartbeat, alert dedup | publish, tick, rules | a dead service raises an alert | time windows |
| `infra/redis_retry.py`, `redis_factory.py`, `ssh_tunnel_watchdog.ps1` | SSH processes, the pool of connections, back-off of each task | check, kill, start; fail, reset the pool, wait, call again | one tunnel of the loop at most; every task gets through again | several failures at different ends, a pool shared by tasks |
| `__main__.py` of the services | stage of the start, tasks, client, exit code | settings, connect, load, tasks, signal, finally | stops when asked, leaves nothing open, exit code tells | a signal or an error at any await, seven variants of one sequence |
| `contracts/`, tables of names | names in an event, whitelists, lots, securities, contract codes | normalise, validate, look up, roll a future by hand | an instrument is one instrument in every service | one table per service, two names for one thing |
| `scripts/backfill_prices.py`, `sprint4/exits/prices_cache.py` | CSV per ticker, parquet copy, frame | fetch, append, load, rebuild | no hole, no bar twice, copy as good as the file | kills within a write, the last bar not over |
| `scrape_gap_via_receiver_session.py` and the extraction | archive of lines, what a run has seen | scrape newest first, append, extract | nothing twice, nothing missing | cut off by Telegram, torn lines |
| `sprint4/sampling`, `sprint4/reenrich` | samples, holdout, subset, top-up | draw, pad, aggregate, top up | the holdout stays apart, the subset balanced | inputs grow between runs, a run dies between its files |
| `features.py`, corpora and targets | bars and news known at a time | build live, build from the archive, rebuild columns | no feature reaches into its target, live and training agree | what is known when |
| training, `predictor/models.py` | order file, model files | train, verify, load | what is loaded is of one training | files written one by one, loaded at any time |
| walk-forward harnesses | folds, a file for each fold | build, run, resume, collect | rows apart, counted once | the corpus grows between runs that resume |
| `scripts/costs_sber.py` | | cost of one trade, of all | both agree | tiers by the turnover of a day, nights |
| replays (`pull_enriched_from_vps.py`, `swap_vps_enrichment_to_di.py`, `replay_*.py`) | saved window, swapped answers, predictions per arm | pull, swap, replay, publish again | arms are comparable, a news keeps its own answer | streams that are trimmed and grow meanwhile |
| `sprint4/exits`, backtest scripts | walk over bars, open trades, folds | enter, exit, kill, split | the research trades what the service would | copies of one rule in several files, order of rows |
| `scripts/deepinfra_runner.py` | append-only checkpoint, semaphore | run, retry, write, resume | every row answered once and recorded | kills within a write |
| `scripts/clean_redis_for_restart.py` | streams and groups of stopped services | soft clean, wipe | nothing new is lost | groups outlive their streams |

`PROJECT.json` lists the components with what is modelled of each, and under
`hazards` the places where the code is hard to test.

## 2. Modules

| Module | Models | Extends |
|---|---|---|
| `ConsumerGroup` | `infra/consumer.py`, `infra/pel_reclaim.py` and the Redis consumer group between them, with any handler | |
| `ConsumerGroup_proofs` | theorems about it | `ConsumerGroup`, TLAPS |
| `EnricherGroup` | the enricher's handler (`services/enricher/pipeline.py`) inside that group, with idempotency keys, LLM results, cache and DLQ | `ConsumerGroup` |
| `EnricherGroup_proofs` | theorems about it, with an instance of those about the group | `EnricherGroup`, TLAPS |
| `BridgePositions` | the bridge in paper mode: consumer, `BridgePipeline`, one `PositionTracker` task per position, start-up recovery, the Redis keys | |
| `TradingRisk` | the decision service in front of the bridge: both processes over the shared risk keys | `BridgePositions` |
| `TradingRisk_proofs` | theorems about the bridge, and about both | `TradingRisk`, TLAPS |
| `CandleCache` | the candle frame of a service and its subscription (`infra/candles.py`) | |
| `Receiver` | `services/receiver`: backfill, live messages, overlapping dispatches | |
| `RealOrders` | `real_executor.py`, `quik_order_client.py`, `risk_guard.py` against the files of the terminal | |
| `Predictor` | the predictor's consumer and pipeline, a claim per ticker, the news history | |
| `QuikFeed` | `candle_dump.lua`, the readers and `QuikFeeder` over one file | |
| `Monitoring` | heartbeats, Telegram health and the monitor's tick with three of its four rules | |
| `LlmClients` | the two LLM clients of the enricher and the pool of API keys | |
| `TradingRules` | the decision service's rules in whole steps of price, beside their copies in the backtests | |
| `PaperTrade` | one paper trade on a frame of candles that grows | |
| `Exits` | the five exit strategies of `sprint4/exits`, long and short side by side | |
| `Backtest` | the trading loop of the backtests, and the windows of the walk-forward | |
| `BatchEnrichment` | `scripts/deepinfra_runner.py` with its checkpoint | |
| `CleanRestart` | `scripts/clean_redis_for_restart.py` beside the services it cleans up for | |
| `Tunnel` | the SSH tunnel, its watchdog, the tasks that share one Redis client | |
| `Services` | `run()` of the seven `__main__` modules, from settings to exit code | |
| `Instruments` | the names of an instrument from the prompt to the order, and from QUIK to the candles | |
| `Prices` | `backfill_prices.py`, `prices_cache.py`: the CSV of a ticker, its parquet copy, the frame | |
| `Archive` | the scraper of the gap, the archive and what is extracted from it | |
| `EnrichedSwap` | the window pulled from the streams, and other answers put into it | |
| `HoldoutSplit` | `build_sample.py`, `select_v1_anchor_pad.py`: calibration sample, holdout, anchors, pad | |
| `CategorySubset` | `sprint4/reenrich`: aggregate, balanced subset, top-up | |
| `Features` | the predictor's features against those of the corpora, and the targets | |
| `ModelFiles` | training into a directory, verification, `load_bundle` | |
| `WalkForward` | the corpus, the folds, resume and collection of two walk-forward harnesses | |
| `Costs` | `costs_sber.py`: one trade against all at once | |
| `WindowReplay` | `replay_vps_window_backtest.py`: all arms side by side over one file | |
| `Republish` | the two scripts that put old news into `news:raw` again | |
| `MCConsumerGroup`, `MCEnricherGroup`, `MCBridgePositions`, `MCTradingRisk` | values of the constants and symmetry sets for TLC | the module of the same name |
| `MCPredictor` | the predictor alone, with one event of two tickers | `Predictor` |
| `MCEdges`, `MCChecks` | values of the constants for the modules below `TradingRisk`, each a part of one run | those modules |
| `Numbers_proofs` | lemmas about numbers: least and greatest, induction, functions by recursion | TLAPS |
| `Edges_proofs` | theorems about the six parts of `edges`: tunnel, candle cache, services, receiver, real orders, predictor | `MCEdges`, `Numbers_proofs` |
| `Checks_proofs` | theorems about parts of `checks` | `CleanRestart`, `LlmClients`, `Monitoring`, `BatchEnrichment`, `QuikFeed`, `WalkForward`, `WindowReplay`, `Numbers_proofs` |
| `Parts_proofs` | theorems about more of them | `Archive`, `EnrichedSwap`, `Prices`, `TradingRules`, `Instruments`, `PaperTrade`, `Costs`, `Exits`, `Numbers_proofs` |
| `MCChecks_proofs` | theorems about `ModelFiles`, `Backtest` and `Features`, and about the run they all are parts of | `MCChecks`, `Checks_proofs`, `Parts_proofs` |

`MCEdges` and `MCChecks` hold modules that share no state. A variable `part`, chosen at the
start, says which of them takes steps; the others stay at one initial state. A run of them
checks each part exactly as a run of its own would, and says so in one place: the
state spaces add up and do not multiply.

No module declares a RECURSIVE operator. The mutants (definitions commented
`Mutant: ...`) are forms of an action with a plausible bug in it; they are used by no
specification, and each shows that a property would notice that bug.

### 2.1 State and actions against the code

**ConsumerGroup.** Server side: `added` (XADD so far), `lastDelivered` of the group,
`owner` and `deliveries` of each pending entry, `idle` (entries whose idle time has
passed `min_idle_ms`). Client side: for each task (workers and reclaimers share one
event loop) a program counter `pc`, the batch it still has to go through, the entry in
its hands `cur`, the `cursor` of XAUTOCLAIM. Histories: `done` (handler returned),
`terminal` (record in the dead-letter stream).

| Action | Code |
|---|---|
| `RecoverPending`, `RecoverClaim` | the two calls of `StreamConsumer._recover_pel`, and its loop over full batches |
| `Read`, `ReadNothing` | `StreamConsumer.run` / `_read` |
| `NextOfBatch`, `EndOfBatch` | the `for` loops over a batch; an entry that does not decode raises at once |
| `HandlerReturns`, `HandlerRaises`, `Ack` | `StreamConsumer._handle` |
| `AutoClaim`, `EndOfTick` | `PelReclaimer._tick`, `run` |
| `CheckDeliveries`, `TerminalDlq`, `TerminalAck` | `PelReclaimer._process_one` |
| `Append`, `BecomeIdle`, `Crash`, `Restart` | environment: producer, time, operating system, supervisor |

A failing Redis command (`Fault`) is modelled before and after it took effect wherever
the code can tell the difference later: a lost XREADGROUP reply leaves entries pending
for a consumer that never saw them; a failed XACK leaves a handled entry pending.

**EnricherGroup** replaces the handler by `Claim` (SET NX), `Enrich` (the LLM call: ok,
retryable failure, final failure), `PublishEnriched`, `CacheEnriched` and `PublishDlq`, each
one await of `EnrichmentPipeline.process`. `ClaimExpires` is the TTL of the key.

**BridgePositions.** `track` is the tracker task of a position (`none`, `watch`, then the
commands of a close: `book`, `forget`, `free`, `cool`), `persisted`, `slots`, `cooldown` and
`pnl` are the Redis keys `bridge:open_positions:*`, `risk:open_positions`,
`risk:cooldown:*` and `risk:daily_pnl:<today>`. `claims`, `opens`, `closes`, `books` are
histories. One action is one Redis command with the code up to the next await; its
alternatives are success, failure before and failure after the effect. A failing command
in the consumer raises to `_handle` (no XACK), in a tracker ends that task (`Dies`), in
the start-up recovery ends the process (`Halt`).

**TradingRisk** adds the decision consumer (`dpc`, `dcur`, `dpel`, ...) and its gates
`Lookup`, `GateKill`, `GateCooldown`, `GateCount`, each one read of Redis, followed by
`PublishExecute` or `PublishReject`, which append to the stream the bridge reads. `lag`
records how many EXECUTE signals were still on their way when decision counted the slots.

**CandleCache.** `tape` is `candles:1m`, `frame` the bars in index order. `Xread` fixes the id an
XREAD starts from (`$` is the last entry at that moment), `Reply` folds `AddBar` over what came;
between them the stream grows. `ReadFails` and `CacheRestarts` are the two ways a cursor is
kept or lost.

**Receiver.** A dispatch is in `claiming` before its SET NX and in `publishing` after it, so
dispatches of different messages, of an edit and of the backfill overlap at every await.

**RealOrders.** `open_position` steps from gate to gate (`step`); `entered`, `protected`, `status` and
`transmap` are the three files. The terminal appends statuses at any time, also a torn last
line; `Batch` is what one `poll_status` parses.

**Predictor.** Consumer as in `TradingRisk`, plus the ticker index `k` inside an event, `claims`
per event and ticker and the `history` with what the bootstrap loaded. `InferenceFails` is
`PredictionRetryable`; the histories `cut` and `erred` keep the tickers a command, the process or the
inference failed on after their claim, `Lost` is both.

**QuikFeed.** A position in the file counts half rows, so a write or a poll may end inside one.
`Dump`/`Flush` are the script (for each ticker from the first minute its data source has loaded), `PollStart`, `PublishRow`, `XaddFails`, `PollEnds` one `poll_once`,
`Known` what a bootstrap from Redis finds, `Superseded` rows a later copy replaced.

**Monitoring.** One clock. `Beats` sends a heartbeat with the storm flag of its detail, `Absorb` and
`Evaluate` are the halves of a monitor tick with a possible failure between them.

**LlmClients.** A call is at `acquire`, `request` or `done`; each attempt ends as the answer or the
exception the loops tell apart (`Transient`, `403`, other `4xx`, four kinds of bodies).

**TradingRules.** `input` is one case, `answer` what all copies of the rules make of it. Distances
are whole numbers because every threshold is a multiple of 0.005 %.

**PaperTrade, Exits, Backtest.** Prices relative to the entry; a minute brings one of a few bars, or
none. `PaperTrade` follows one trade of the bridge while bars arrive late and the bridge
restarts; `Exits` runs all strategies on the same bars; `Backtest` takes any trade and looks at
the loop around it.

**Tunnel.** `tunnels` are the ssh processes with what holds the port and whether they forward;
`watchdog` stands at the check, the ping or the act; a task is at a call, in its back-off or
asleep, and `pool` holds the connections `ResetPool` disconnects.

**Services.** A plan per service says what may fail before the loops, which tasks run and in
which order they are stopped; `mainAt` walks `LoadSettings`, `Connect`, `Load`, `Looping`, `Finally`,
`Exit`, a signal may come at any point and a task may fail in any. `Load` is whatever stands between
the ping and the loops and may raise: the prompt file and the client of the language model of the
enricher, models, candles, positions, the reader of the feed, Telegram's channels. It is within the
`try ... finally` of the receiver only. `make_redis` may raise too, and then there is no client.

**Instruments.** One event from the names the model gave to the orders: `Analyse`, `PredictorStep`,
`DecideOn`, `Open`, each a look-up in the table of its service; `RollCode` and `RollKey` are the edits
of the dump script when a future expires, in either order, with bars between them.

**Prices, Archive.** A file is a sequence of lines with how each ends; a kill cuts the last one
(`DieInWrite`, `ScrapeKilled`), the next run reads what is there.

**HoldoutSplit, CategorySubset, ModelFiles, WalkForward.** The files that scripts leave for each
other, and their runs in any order, while the input grows, with a run that dies between two files.
A draw is any draw of the right size; a training is which rows and columns it has seen.

**Features.** A clock of half minutes, bars and news arriving late; a feature is the set of bars,
news or parts of an answer it reads. `Predict` builds a row with what is known, `CorpusRow` is the
same row from everything.

**EnrichedSwap, WindowReplay, Republish.** Streams and files of a replay: pages of XRANGE while the
stream is trimmed; one pass through predictor and decision for each arm; the reservoir and the
XADDs of a second run.

**Costs.** `selected` grows by a trade; both ways of reckoning are operators on it.

**BatchEnrichment, CleanRestart.** The checkpoint is a sequence of lines, each with the records that
landed in it and how it ends; the script's Redis commands are one action each between steps
of the services.

### 2.2 Abstractions

- Messages are natural numbers; a payload is what the properties tell apart (decodes or
  not, ticker or REJECT).
- In `BridgePositions` a watched position may exit at any poll with any result of `Results`,
  in units of the kill limit; when it does is the matter of `PaperTrade`.
- The bridge, decision and predictor models read one entry at a time. The code reads ten and
  handles them in order; the rest of the batch is pending and untouched, and a crash brings
  it back in the same order. `ConsumerGroup` models the batch, because there it matters.
- SCAN is modelled as one consistent list of keys; Redis may return a key twice.
- The claims of decision and predictor do not expire (those of enricher and bridge do). With the
  predictor down for a day, a replay finds them gone and predicts again.
- The monitor's fourth rule, `evaluate_daily_pnl_kill` (`services/monitor/alerts.py:143`), is a
  comparison of two numbers; only the GET in front of it, which may fail, is in `Monitoring`.
- MAXLEN trimming (but for `EnrichedSwap`), group creation, metrics and logs are left out. Back-off
  and the connection pool are the matter of `Tunnel` and left out elsewhere.
- Predictions are any function of the features, money is counted in units of 100 000 rubles, a
  feature is what it reads: the arithmetic of floating point is left out.
- Times are minutes or ticks; a time-out or cooldown is a number of ticks, a TTL an event that
  may come at any moment.

## 3. Runs

"States" are distinct states. The runs of the consumer group, the enricher, the bridge and
decision check deadlock; the parts of `edges` and `checks` end at their bounds (a market closes,
a file is at its end, a trade is over), so they do not.

| Run | Question | Bounds | Result |
|---|---|---|---|
| `group` | Is an entry ever acknowledged that was neither handled nor given up? Is every entry acknowledged in the end, and does recovery end? | 2 entries (one undecodable), 2 workers, 1 reclaimer, 1 fault, 1 crash | holds, 112,631 states |
| `group_theft` | Is stolen work never in progress (docstring of `pel_reclaim.py`)? | no faults, batch and limits of the code | violated |
| `enricher` | At most one output per claim? Can LLM failures alone exhaust `max_deliveries`? Is the pipeline a handler? Does every item settle? | 2 entries, 1 worker, 1 reclaimer, `MaxDeliveries` 4 as configured, 1 fault, 1 crash, 1 expired claim | holds, 284,956 states |
| `enricher_silent_loss` | Is a retryable failure retried (README, pipeline docstring)? | one entry, no faults | violated |
| `bridge_safety` | Do positions, keys, slots, events and bookings stay consistent? | 2 signals, 2 tickers, 1 expired claim, 1 failing command, 1 crash | holds, 1,078,747 states |
| `bridge_shared_ticker` | Does `risk:open_positions` name the open positions (`risk_manager.py`)? | 2 signals, nothing fails | violated |
| `risk_signals` | Is a prediction answered by exactly one signal, and acknowledged? Is every persisted position closed? | 2 predictions, 1 ticker, 1 failing command, 1 crash of either service | holds, 389,564 states |
| `risk_limits` | By how much can the open-position limit be exceeded, and does a reached limit stop trading? | 3 tickers, 3 signals, limit 1, kill limit 1, results -1 and 1 | holds, 255,948 states |
| `edges` | Candle cache, receiver, order client, predictor, tunnel, lives of the services: what is read, published, claimed, ordered, closed, and does it come to an end? | 3 bars, 3 posts and an edit, 2 signals, 2 events of 2 tickers, 5 process ids and 2 tasks; 1 or 2 failures, restarts or breaks each | holds, 180,369 states |
| `checks` | 21 parts, for safety: feed, price files, monitor, LLM calls, rules and names, trades and costs, loops over the history, archives, samples, models, replays: every order of steps and every input of the bounds | see `checks.cfg` | holds, 666,256 states |
| `llm_errors` | Do failures of the provider come back as `EnrichError` (`llm_client.py`)? | 1 call, 2 keys, 1 retry | violated |
| `predictor_retry` | Is a ticker whose inference failed predicted in the end (`predictor/pipeline.py:17`)? | 1 event of 2 tickers, 2 failures or crashes | violated |

**Why the bounds are enough.** The hazards need two entries (one that waits in a batch
while another is handled, one that decodes and one that does not), two workers (for a claim
of an id somebody else acknowledged), one failure and one crash at any step. More than
one of each is left to the proofs. `RecoverCount` in `group` is larger than the number of
entries that keep failing, which is the condition under which the recovery ends at all
(section 6). In the bridge two signals give two positions in one ticker or in two; the
third signal and ticker of `risk_limits` let the backlog grow to two behind a limit of one.
`PredictionsSettle` and `PositionsEnd` say that some day nothing waits and nothing is open; with two
signals at most that is the same as an end for each.
The safety properties of the runs `group`, `enricher`, `bridge_safety`, `risk_signals`, `risk_limits` and
`edges` are also proved, for any number of entries, workers, tickers, positions, failures and
crashes (section 5); of `checks` they are proved for the clean restart, the language models, the
monitor, the archive, the candles, the rules, the tables of names, the trades and the loops over the
history, and for the model files as a part alone.
In `edges` three bars are the least for one that comes late between two; three posts carry
two copies of a text and an edit into it; two signals let the exit of a position arrive
while the next entry is awaited; two tickers of an event are the least for one that fails after
another. In `checks` the feed has two rows per minute, two minutes and two troubles of
scripts, feeder or Redis (a hole needs a restart before and after it); the windows of the
monitor are one and two ticks long and its clock runs to four, past every window; two callers
and two keys are the least for a turn; the numbers of `TradingRules` are the settings of the
service (R:R 2, floors, buffers, 0.5 % risk), so that each threshold lies inside the inputs;
a trade has a bar before, at and after each end of its window.
The parts about files have one kill and one run more than the file needs, so that a second run
finds what a first one left; their inputs come in the few kinds that the code tells apart: texts
equal to one another, rows on both sides of each border of a window, answers that move a row to
another category, corpora written with either name of the index future. An id of an
ssh process is used again when no process, connection or list of the watchdog has it any more.

**Fairness.** Each task of an event loop that can run does run (WF per task): asyncio
serves its ready queue in turn, and every await of the code is a Redis command with a
time-out or a sleep. LLM calls end by answer or time-out. A pending entry gets older than
`min_idle_ms`. A position leaves its tracker some day: `check_exit` exits at the horizon at
the latest, while there are candles of its ticker. A supervisor starts a crashed process
again. In `edges` fairness is that of the one task of each part: the subscriber loop, the event
loop of the receiver, `open_position` with its polls and time-out, the predictor's consumer;
of the tunnel the ssh processes (they connect or give up), the watchdog's loop, each task of the
client, and the network, which comes back; of a service its main task and each of its loops.
Nothing is assumed of producers, terminals, crashes, failures or expiries.

## 4. Properties

A property that the runs name is a conjunction of named parts where a component promises
several things; each part has its own comment in the module.

Consumer group, enricher, bridge and decision:

- `SettledForAReason`, `PoisonReachesDlq`, `SettledForGood`: acknowledgement is final and has a
  reason, whatever was stolen, replayed or lost in between.
- `EverythingSettles`, `RecoveryEnds`, `EveryEntrySettles`, `PredictionsSettle`,
  `PositionsEnd`: what must eventually happen, with the conditions under which it does.
- `AtMostOncePerClaim`, `LossIsExplained` (`LossNeedsFailure`, `GiveUpNeedsFailures`): what retries
  and the idempotency claim do to each other. `FailureCost` counts the deliveries that what failed
  accounts for: one for a failed call, an expired key or the first crash, two for every later crash
  (the reclaimer and the recovering worker then both lose their hold of the entry). A
  readable entry is given up only when that cost is at least `MaxDeliveries - 2`.
- `ImplementsGroup`: with the five steps of the enricher's handler hidden, the enricher is
  the abstract consumer group, so what is proved of the group holds for its entries.
- `OpenedOncePerClaim`, `EventsMatch`, `TrackedIsPersisted`, `ForgottenOnlyWhenBooked`: what a
  crash between two Redis commands can and cannot do to a position.
- `SlotsFollowPositions` (`NoSlotLeaks`, `OwnSlotHeld`): the ticker set against the positions.
- `AnswersAreExplained` (`AnsweredOnce`, `UnansweredNeedsFailure`): predictions against signals.
- `OverrunBoundedByLag`, `ReachedLimitStops`: the gates against the bridge's later writes. The
  overrun is bounded by the signals on their way at the count, and once nothing is past a
  gate whose limit is reached, nothing gets past it while it stays reached.

Around them (`edges`):

- `FrameIsCurrent` (`FrameSorted`, `FrameIsLatest`): candles that come late, twice, or while the
  connection is down.
- `InputsAreAccountedFor`, for three parts. `TextsAreAccountedFor` (`RawOncePerText`,
  `ClaimedIsPublished`): messages of Telegram whose dispatches overlap, fail, or are cut short by the
  end of the process. `OrdersAreAccountedFor` (`OneEntryPerSignal`, `PositionsAreProtected`,
  `UnprotectedIsExplained`, `ExitsClosePositions`, `RateLimitHolds`, `KillStopsOrders`): an entry order,
  its protection and the guard against late fills, torn lines, replays and restarts.
  `TickersAreAccountedFor` (`PredictedOnce`, `AckedIsAnswered`, `HistoryCountsOnce`): an event with several
  tickers of which one fails. When it is acknowledged, each ticker has its answer but those that were
  failed on themselves after their claim (`Lost`), and there is one of these for a failure at most:
  whatever happens to one ticker costs none of its neighbours. That the one is not retried is
  `InferenceIsRetried`, violated.
- `TunnelsDoNotPileUp`: the loop that starts a tunnel whenever it finds none working has one at
  most, however the one before failed and whenever the watchdog was replaced.
- `LivesEndInOrder` (`NobodyIsAstray`, `ClientIsClosed`, `ZeroWasAskedFor`): who still works when the
  client is closed, what a failed start leaves open (with exit code 1, before any loop ran), what the
  exit code says.
- `WorkEnds` (`NothingUnread`, `YieldedIsPublished`, `OpenEnds`, `EventsSettle`, `RedisComesBack`,
  `StopsWhenAsked`): what each of the six parts brings to an end under fair scheduling.

The rest (`checks`):

- `CandlesAreFaithful`. `FeedIsFaithful` (`PassedIsPublished`, `PublishedOnce`, `InOrder`, `LegacyHolesFilled`): each bar of
  the file in the stream once and in order, through failing XADDs, restarts of script and
  feeder and rows that are not whole; and which holes a bootstrap fills. `PricesAreWhole` (`FrameHasNoHole`,
  `RunsAreIdempotent`, `OneUnfinishedPerFetch`, `CopyIsCurrent`): the same of the files of prices, whose
  writers die within a row.
- `AlertsAreRight` (`SilenceNoticed`, `NoFalseAlarm`, `StormIsRecent`, `SpikeNoticed`): what the
  monitor must raise, and when it must not, in every order of beats, samples, failures, ticks.
- `FailuresAreSorted` (`OnlyRefusalsGoToDlq`, `FallbackAsked`), `KeysTakeTurns`: what the failures of a
  provider turn into, and who is asked next.
- `RulesAndTablesAgree`. `RulesAgree` (`SidesAreMirrored`, `RewardExceedsRisk`, `SizeIsLargestAllowed`,
  `ResearchAgrees`, `HoursAreNested`): the rules against a reference, their mirror image and their copies.
  `InstrumentsAreKept` (`SelfCheck`, `BarsAreOfTheirInstrument`, `NamesArePassedOn`,
  `OrdersAreForTheirInstrument`, `ListedIsTraded`): one instrument through all tables of names, also while a future is rolled.
- `TradesAreCountedAlike`. `ExitIsFair` (`PollsMatchWalk`, `PastNeedsStaleFill`): the tracker that polls
  against one walk over the bars. `StrategiesAgree` (`MirrorAgrees`, `RestFollowsBaseline`,
  `ProtectedAfter1R`, `WindowsDifferAtTheEdges`): the exit strategies against each other, long against
  short, window against window. `CostsAgree` (`ReckonedAlike`, `AloneOnItsDay`, `MoreIsNotDearer`): the cost of a
  trade alone and among all.
- `LoopsAreHonest`. `LoopIsHonest` (`OverrunNeedsLateFill`, `DayLossBounded`, `DecidedByItsOwnTime`,
  `WindowsAreHonest`): the loop of a backtest and its folds. `WalksAreHonest` (`LabelsAreOwn`, `FoldsAreApart`,
  `CountedOnce`, `RunIsWhole`, `FailureIsExplained`): the walk-forward runs that resume. `FeaturesAreHonest`
  (`FeaturesPrecedeTargets`, `LiveBarsAreFewer`, `LiveNewsAreFewer`, `ColumnsAgree`): what a model sees live, in
  training and in neither. `ReplayIsHonest` (`FiltersAreNested`, `BlacklistIsLocal`, `HistoryIsAsLive`,
  `CountsAddUp`): the arms of a replay against each other and against the live predictor.
- `OnlyUnreadIsLost` (`SoftKeepsPending`, `WipeLosesNothingNew`): what a clean restart loses.
- `ArchivesAreWhole`. `CheckpointIsSound` (`OneRecordPerId`, `AnswersPaidOnce`, `RunIsComplete`): the
  checkpoint of the batch enrichment. `ArchiveIsWhole` (`NoLineTwice`, `NothingElseMissing`, `ExtractIsWhole`): the
  archive after runs that were cut off or killed. `ReplayInputIsSound` (`CopyIsInOrder`, `SwapsAreOwn`): what a
  replay starts from.
- `DrawsFitTogether`. `HoldoutIsApart` (`SamplesAreApart`, `PadRepeatsAreReposts`, `AnchorsAreKept`, `QuotasAreMet`):
  calibration and holdout, whatever was appended between. `SubsetIsBalanced` (`TopUpFillsTheGaps`, `NoRowTwice`):
  the top-up after rows moved between categories. `ModelsFitTogether` (`OrderIsNotOlder`,
  `ModelsAreOfOneTraining`, `CleanCanBeLoaded`): what the predictor loads while models are written.
  `RepublishIsFair` (`SampleIsUniform`, `SampledLinesAreOwn`): which old news are published again.

## 5. Proofs

Eight modules of theorems, checked by tlapm for every value of the constants.

**ConsumerGroup_proofs.** `GroupInvariant` proves `GroupInv`: types, the shape of the pending
list (`PelShape`) and what a task that stands at a step knows of its entry (`TaskKnows`: in
front of XACK the handler has returned; in front of the terminal record the entry was
delivered too often). `SettledForAReason` alone is not inductive: the step that
acknowledges needs to know how its task got there. From the invariant follow `GroupTypeOKHolds`,
`SettledForAReasonHolds` and `PoisonReachesDlqHolds`. `SettledForGoodHolds` needs that an id
a recovering worker listed and somebody else acknowledged is not claimed again: XCLAIM
takes pending ids only. `ExclusiveWithoutReclaimer` strengthens the invariant by `Holds` (a
worker owns what is in its batch) and shows that without a reclaimer, as in predictor,
decision and bridge, no entry is handled twice at once. `HandsInvariant` is about what the tasks
hold (`HandsInv`: who can hold an entry at which step, an id a recovering worker listed is on no other
list, and before the first crash nobody recovers anything); the enricher needs it to count deliveries.

**EnricherGroup_proofs.** `ImplementsGroupHolds` is the refinement: every step of the enricher is,
with the steps of its handler hidden, a step of `ConsumerGroup` or a stutter (`InfraRefines` for
the steps of the group, `PipelineRefines` for those of the handler, which look from outside like
a handler that is still at work, returns or raises). Through it the theorems about the group hold
for the enricher (`GroupFacts` instantiates `ConsumerGroup_proofs`) and become part of its invariant.
`AtMostOncePerClaimHolds` needs `PipeShape`: a task behind its claim holds a claim nothing was
published for yet, and no other task counts the same claim. `LossNeedsFailureHolds` follows an
unfailed entry from claim to output (`CleanSoFar`). `DeliveriesExplainedHolds` bounds the deliveries of
each readable entry, together with those that may still come without another failure (`MayReclaim`,
`MayRecover`, `MayFail`), by `FailureCost + 3`, and `GiveUpNeedsFailuresHolds` follows. The last three, and
`LossIsExplainedHolds`, assume `OneReclaimer` (`enricher/__main__.py` starts one; two reclaimers could
each deliver an entry after the other read its count), the losses also `MaxDeliveries >= 2` (the setting
is 4).

**TradingRisk_proofs.** Of the bridge alone, `BridgeInvariant` proves `BridgeInv`. Its core is who may still
publish a CLOSE for a position: the consumer that is opening it (`Opening`), by starting a
tracker, and the tracker it has, or the one a restart will start from its key
(`Watching`). `PositionKnows` says that each of them still has one close left, counted
against the OPEN events and the interruptions so far; `EventsMatch` follows, but is not
inductive without it, because a close in progress, a restart and a replay whose claim has
expired can coexist for one position. `ConsumerKnows` relates the consumer's step to claim,
key and tracker; `StreamShape` bounds everything to delivered signals. From it follow
`BridgeTypeOKHolds`, `OpenedOncePerClaim`, `EventsMatch`, `TrackedIsPersisted` and
`ForgottenOnlyWhenBooked`. `SlotsFollowPositionsHolds` (no slot leaks, an open position's own slot is held)
is inductive only with `HandledOnce`: while nothing fails, a signal is handled once, so the slot that
a close frees was not taken again for the same position.

Of bridge and decision, `SystemInvariant` joins `BridgeInv`, `SlotsInv` and `DecisionInv` over one state:
each decision step leaves the bridge's variables, or adds a signal the bridge has not read, and each
bridge step leaves decision's. `DecisionShape` says what decision's step knows: the prediction in
its hands has its claim and no answer yet, and the stream has one signal for each answered one.
`RiskTypeOKHolds`, `AnswersAreExplainedHolds` and the action property `ReachedLimitStopsHolds` follow.
`OverrunBoundedByLagHolds` needs more (`RoomInv`): of the signals past the count, the tickers that take
or will take a slot (`Wanted`) are counted against the limit and the lag.

**Edges_proofs.** `LivesEndInOrderHolds` walks each of the seven start-ups through `ServicesNext`, with
`ClientFollows` and `TasksFollow` (which stage leaves which client and which tasks; what the plans have
in common is `PlanFacts`).
`TunnelsDoNotPileUpHolds` needs that the watchdog, from its first look to its kill, has on its list every
tunnel the loop started (`ProcessesOK`), and that no stage in front of a start leaves one alive.
`FrameIsCurrentHolds` needs `Latest`: the value of a minute in the frame is that of the last bar of this
minute the subscription has read since it began. `InOrder` (what `sort_index` does) sorts and loses nothing
(`InOrderSorts`), `AfterBars` is one `AddBar` per bar.

`InputsAreAccountedForHolds` joins three invariants. `ReceiverInv`: a dispatch
between claim and XADD is the only one of its text. `PredictorInv`: `PassedInv` (every ticker in front of
the index, and every one of the events passed, has its claim) and `AnswerInv` (a claim without a
prediction belongs to a failure after it or to the ticker at work) and `LostInv` (one such ticker for
each mishap at most). `RealInv`: `OrdersInv`,
`StatusInv` (what a status line proves of the orders sent) and `GateInv` (the window of the rate
limit is the last orders sent). `EdgesTypeOKHolds` adds the types of the run;
`EdgesKeepTheirParts` is the invariant of all six parts under `MCEdges!EdgesSpec`, so that the run's
invariants are proved as the run states them.

**Checks_proofs.** `OnlyUnreadIsLostHolds`: `CleanInv` says, stream by stream, what the script has
deleted and what was unread before it. `FailuresAreSortedHolds`: `CallsRemember` keeps, for each call,
what it met and which model it has asked. `KeysTakeTurnsHolds` is an action property: the key taken is
the first after the last one that is out of its cooldown.
`AlertsAreRightHolds` needs `MonitorInv`: the receiver's window is the end of the
times it lost the connection (`WindowFollows`); while nothing fails, what the monitor knows of a
service at work is one round old at most (`BeatsFollow`), what is silent is in the log
(`SilenceLogged`), each round has its sample (`SamplesFollow`); and a sample counts no record written
after it, while below the cap of the stream none is missing (`LettersCounted`), so that the letters
of a window are in the difference of two samples. It assumes `Threshold >= 1`: nothing in the settings
forbids a `missing_heartbeat_threshold_sec` below the interval between heartbeats, and with one the
monitor does report services between two beats; the defaults are 90 and 30 seconds.

`CheckpointInvariant` proves `CheckpointInv`, from which `CheckpointIsSoundHolds`: what was asked for an
id and what is still to be paid for it (`ToPay`: a call on its way, a torn line that will take one more
answer) is at most one and two for each kill; a line is spoiled only by a kill (`Spoiled`); and what the
run has in hand is not on record (`InHand`), or it would be recorded twice.

`FeedInvariant` proves `FeedInv` of the candle feed, from which `FeedIsFaithfulHolds`. A poll reads the
rows behind some row `b` of the file up to where it saw the end (`PollAt`): what lies before `b` is dealt
with, what is not in `todo` behind it was not there, in a file that grows while it is read, may be cut
inside a row and may be rewritten between two polls (`ReaderFollows`). A bar the filters skip is in the
stream, or a newer one is (`FeederRemembers`: the filters know nothing that is not in the stream, and all
of it unless an answer was lost or a start did not see the whole stream). That the holes of a legacy name
are filled needs `LegacyFollows`: the reader is never ahead of such a row in a file that was written by
one start of the script, whose minutes rise (`OneScript`).

`WalksAreHonestHolds` (`WalkInv`): the folds of a run are windows one after the other over rows of
one corpus, a file has rows of some corpus within the window it was written for (`FileFits`), and a run of all
folds without `--resume` has written each file behind it (`WalkedSoFar`). `ReplayIsHonestHolds` (`ReplayInv`):
the predictions of both lists agree at the news that name no ticker of the blacklist (`SameAt`, a bijection
that the next news prolongs), the answers of the three filters are nested one by one, a news has
the history of its turn (`PastAt`). They assume that a news has the same time in every extract, and
that it comes out of the enricher after it was published.

**Numbers_proofs** holds the lemmas on numbers that the others cite.

**Parts_proofs.** Parts that need an invariant of their own, and parts that enumerate inputs.
`ArchiveIsWholeHolds` (`ArchiveInv`): what the scraper has seen, what the archive has and what is extracted,
line by line, torn ones included. `ReplayInputIsSoundHolds` (`SwapInv`): each line of the swapped copy is one
of the window, with its own answer. `PricesAreWholeHolds` (`PricesInv`): the CSV has every bar up to its
last, the copy is a copy of what the CSV was. `RulesAgreeHolds` compares the decision's rules with their
copies case by case; `ThresholdsAssumption` are the ratios of the code (0.7, 2.0, 1.2, 0.1 %, 0.05 %),
and one form of the rule rests on just these. `InstrumentsAreKeptHolds` (`NamesInv`) follows a name through the tables
(`TablesFit`), an event, a prediction, a signal and an order; `PassedOverIsUnlisted` is what the predictor has left aside. `ExitIsFairHolds` (`PaperInv`): the fill and the exit
are those of the first bar that meets them, whenever it arrived; `StaleAssumption` says that a position is
held for longer (30 or 60 minutes) than candles may be old (10). `StrategiesAgreeHolds` (`ExitsInv`): the walk over a
short position is the mirror of that over the long one, the walk of a strategy with one more
protection is a part of the one without, and each trailing window is that of the bars so far. `CostsAgreeHolds`:
turnover as a sum that grows leg by leg, rates that fall with it.

**MCChecks_proofs.** `PartsMove`: a step of the run is a step of a part, or leaves it as it was. So what is
proved of a part holds in the run, as the run states it: `ArchivesAreWholeHolds`, `CandlesAreFaithfulHolds`,
`RulesAndTablesAgreeHolds`, `TradesAreCountedAlikeHolds`, `LoopsAreHonestHolds`. `ModelsFitTogetherHolds` (`ModelsInv`) is about a part:
which training wrote each file, how far the one under way has come, what a start of the predictor has read of it. `LoopIsHonestHolds` (`BacktestInv`): the equity is the sum of
what the trades gained, day by day, and a killed day takes no further trade. `FeaturesAreHonestHolds`
(`FeaturesInv`): the cache is the bars up to some time, the stream is in the order the enricher was done,
and a row remembers what was there when it was built (`RowFits`).

The assumptions are those named `...Assumption` in the modules (finite bounds, distinct model values,
keys that are finitely many, answers of a wait that have a greatest one) and those said above of a theorem.
`MaxPosts`, `MaxDelay` and the like stay arbitrary numbers. Each action has its own lemma; `Frame`,
`Untouched`, `Stay` lemmas cover what a step does not touch. Facts about numbers that a text book
would prove by induction (`LeastNumber`, `GreatestNumber`, `AllNumbers`) come from the least element of
a set of numbers; `StepByStep` turns a function defined by recursion on numbers into its equation, which is how
`Without` and `AfterBars` are reasoned about. The library functions that filter and sort sequences
(`SelectSeq`, `SortSeq`) have definitions tlapm does not expand; models that are proved about say what they
do in other words (`InOrder`, the windows of the rate limit and of the receiver, which pop their old times; the lines the archive keeps; the turnover of a day).

Only model-checked: everything temporal under fairness (`EverythingSettles`, `EveryEntrySettles`,
`RecoveryEnds`, `PredictionsSettle`, `PositionsEnd`, `WorkEnds`), for want of a prover for ENABLED; and
of `checks` the types of the run and, of `DrawsFitTogether`, all but the model files.
These are bounded by the inputs they enumerate, not by processes that interleave without end; a
proof would mostly be an induction over rows or draws (`SampleIsUniform` counts all ways to draw a sample). The theorems of the
enricher say nothing of two reclaimers in one process, which nothing in the repository starts.

## 6. What the checks found

Five runs end in a counterexample against a sentence of the repository (`findings` in
`PROJECT.json` quotes it):

1. `group_theft`: all entries of a batch age from the moment of XREADGROUP, so an entry
   behind slow ones is claimed by the reclaimer and handled twice at once.
2. `enricher_silent_loss`: the idempotency key is taken before the LLM call and not released
   when the call fails, so the redelivery is skipped and acknowledged: the news is lost.
3. `bridge_shared_ticker`: closing one of two positions in a ticker frees the slot of both.
4. `llm_errors`: the DeepInfra client classifies failures with names its enumeration does not
   have, so a server error leaves `enrich()` as an exception.
5. `predictor_retry`: the claim of an event and ticker is taken before the inference and kept when it
   fails, so the replay passes over the ticker and the event is acknowledged: the prediction the
   module promises to retry (`services/predictor/pipeline.py:17`) is lost.

The conditions inside the other properties are limits of the code too. Each was seen as a
counterexample of the same property without the condition:

- *Recovery.* `RecoveryEnds` needs fewer failing entries than `RecoverCount` (100 in the code):
  with 100 undecodable entries in its PEL a worker claims the same ones for ever.
- *No reclaimer.* In predictor, decision and bridge an entry whose handler raised is looked at
  again only by the next start (`faults > 0` in `PredictionsSettle`, `failed` in `EventsSettle`).
- *Open positions.* `max_open_positions` is exceeded by the signals on their way when decision
  counts (`OverrunBoundedByLag`), and in a backtest by trades that wait for their first bar
  (`OverrunNeedsLateFill`).
- *Dead tracker.* One failing command ends the tracker of a position for good until the next
  start (the guard of `PositionsEnd`).
- *Lost position.* After a crash between the OPEN event and the SET there is an OPEN event
  without a position; the replay finds its claim taken (`OpenedOncePerClaim` is an upper bound).
- *Second close.* A crash between the CLOSE event and the DEL gives the position a new tracker
  that publishes, and books, once more (`faults + crashes` in `EventsMatch`).
- *Leaked slot.* A crash between DEL and SREM leaves the ticker in the set, without a TTL
  (`faults + crashes = 0` in `NoSlotLeaks`).
- *Lost news.* A dispatch that fails after its claim loses the text for the life of the key
  (`broken` in `ClaimedIsPublished`).
- *Lost ticker.* A predictor that fails between claim and publish, for whatever reason, loses the
  prediction of that ticker: the exception `Lost` in `AckedIsAnswered`. Where the reason is the
  inference, this is the sixth finding.
- *Unprotected position.* An entry that fills after the time-out, or before a restart in the
  middle of `open_position`, has no OCO order (`UnprotectedIsExplained`).
- *Bars before the first reply.* Every XREAD with `$` starts anew; `NothingUnread` begins with the
  first bar read, and again after each restart.
- *History.* The bootstrap of the predictor loads events that are still to be handled: they count
  twice in the 24-hour features (`HistoryCountsOnce`).
- *Holes.* The set of known bars is keyed by the canonical name, the reader's last bar by the
  name in the file: a hole is filled only where the two differ (`LegacyHolesFilled`).
- *Monitor.* A failing command ends a tick after it absorbed beats and samples
  (`failures = 0` in `NoFalseAlarm` and `SpikeNoticed`).

Smaller differences between code and comments, and habits of the code, that the models follow;
each is a condition or an exception inside a definition or a property:

*Exits and backtests.* The "wide" window takes a bar after the time stop
(`sprint4/exits/baseline.py:8`); a paper trade that falls back "to the last close" is filled at an
open (`services/bridge/paper_executor.py:167`); the walk-forward backtest attaches predictions by
position and sorts again afterwards (`scripts/walk_forward_backtest.py:398`), which is harmless only
because the second sort changes the order of equal times alone (`DecidedByItsOwnTime`); without
candles `check_exit` never ends a position, not even at its horizon; a break-even trade that has passed 1R may
end in a loss at the time exit, also on the bar that arms the stop, whatever
`sprint4/exits/breakeven.py:10` hopes (`ProtectedAfter1R` speaks of trades that were stopped).

*Clean restart.* XGROUP SETID does not drop the pending entries that
`scripts/clean_redis_for_restart.py:106` and `:140` say are dropped (`SoftKeepsPending`).

*Batch enrichment.* A record counts as processed with an error in it too
(`scripts/deepinfra_runner.py:107`); a kill that cuts only the end of a line leaves a record that
counts until the next append joins it.

*Services* (`LivesEndInOrder`). The second signal, logged as forcing the exit, does nothing; the
enricher reports `RuntimeError` and `FileNotFoundError` only, so an invalid setting ends it with 1 and
not 2; the receiver ends with 0 when Telegram's `listen()` does, so a unit with Restart=on-failure
(`docs/SPRINT_5_11_DONE.md:141`) stays down; what raises between the ping and the `try` (a bad prompt file of
the enricher, `load_bundle`, the recovery of positions, `build_reader`) leaves the client open.

*Price files* (`PricesAreWhole`). An empty CSV fails every run, at the seek of
`scripts/backfill_prices.py:324`, where a comment promises a fresh start; a time cut within its digits
makes the frame unloadable; a bar fetched before its minute was over is never corrected.

*Archive and samples.* A torn last line swallows the next record until the run after it; a flood
wait leaves the channel and the run still ends with 0. The seed of `build_sample.py` has `hash(channel)` in
it, which Python salts anew in every process; its months are Moscow's, its windows UTC; the window
the docstring calls half-open is closed (`sprint4/sampling/build_sample.py:216`). A top-up that finds no
gap leaves the file of the one before; an answer that is an error counts as an answer there.

*Features* (`FeaturesAreHonest`). The live returns are empty unless a bar of the news' own minute or
a later one is in the cache, which is not so for a news handled at once; the windows of the corpora are closed,
so training sees the whole bar of the news' minute. The timeframe "short" has no column, "market" is no
category for one corpus and "other" for the next, one counts the tickers and the other all but one, one
takes the sentiment of the ticker and the other that of the strongest. Live, a news ages from the moment it was
enriched.

*Models and walk-forward.* The filter of the index future's models compares "MX" with the canonical "MIX"; a
training that leaves models out leaves the old files; the verification looks at models only, each
for itself. A resumed run counts rows twice where the corpus has grown before an old
fold, a fold's file cut short ends the run, the last row is never tried, the purge is shorter than the
longest label, and v7 joins targets by the id of the news alone.

*Costs* (`CostsAgree`). The nights of a future are free only when all trades are reckoned at once, the
rate of a great loan is there for one trade only, and an exit without a time gets the cheapest rate.

*Names* (`InstrumentsAreKept`). The whitelist of the predictor lists Yandex as YNDX
(`services/predictor/config.py:111`), the contract of the event has turned that into YDEX
(`contracts/enriched_news.py:108`) and the comparison (`services/predictor/pipeline.py:107`)
normalises nothing: the instrument is passed over in silence, although
`docs/SPRINT5_COMMIT_5_1_DONE.md:52` names it among those that are handled. This is a disagreement
like the five above; `ListedIsTraded` has it as its one exception and shows that it is the only
one. With `validate_whitelist` on, an answer in canonical names (YDEX, SI, MIX,
GLDRUB) is dropped by the enricher; real orders for futures without an entry fall back to the class of
shares; when a future is rolled and its name forgotten in `QUIK_TO_TICKER`, it has no candles.

*Replays.* A row that failed carries the same fields as "no financial news", so a swap puts
nothing in the place of a good answer (`SwapsAreOwn`), and the text is cut and hashed differently from
the receiver's. The docstring of `FakeRiskManager` (`scripts/replay_vps_window_backtest.py:112`)
leaves cooldown and daily kill to the simulated fills, which have neither; a ticker named twice trades
twice; the blacklist compares names as written with canonical ones and changes a feature of the other
tickers of the news. News that are published again get new event ids, so no guard knows them, and a
publish that fails is passed over.

## 7. Not modelled, and the plan

Next, in this order:

1. Proofs for the rest of `checks`: the samples (`SamplesAreApart`, `TopUpFillsTheGaps`) and the old news
   that are published again.
2. `PositionLedger`: one position as an abstract machine (claimed, opened, persisted, closed,
   booked), refined by `BridgePositions`.
3. Enricher, predictor and decision composed over the enrichment cache, for the race between
   the published event and its cache entry; `TradingRisk` lets the lookup miss at any time.
4. The discovery of channels (`sprint4/discovery`), whose checkpoint has the shape of the one in
   `BatchEnrichment`.

Left out of modelled components: `RealExecutor.send_time_close` and `build_close_payload` (no
caller in the repository decides when they run; the executor itself is not wired into the bridge's
start), the expiry of the keys of receiver,
predictor and decision, counters and log texts, the parts of schemas no
service decides on.

Out of reach or out of scope: the arithmetic of features, targets and metrics (floating point
frames), XGBoost, prompts, dossiers, reports and comparisons under `scripts/` and `sprint4/` (they run
once from start to end and keep no state that a later step relies on), trained models, the Redis
configuration.
