# AlphaLoop v3: a TLA+ verification project

AlphaLoop v3 (`src/`) is an automated trading system in Python: one process per
traded symbol runs an eight-stage decision pipeline in an asyncio loop, sends
market orders to a MetaTrader 5 terminal, keeps its books in a SQL database shared
by all processes and by a web UI, and evolves its strategies in the background.

This directory models the parts of it in which *order* matters: which write
comes before which call, what another process or a crash may do in between, and
which counter or lock a later step relies on. TLC checks the models on small
instances; TLAPS proves the central safety properties for every value of the
constants. Paths below are relative to the repository (`src/src/alphaloop/` is
written `alphaloop/`).

| file | what it is |
| --- | --- |
| `ExecutionSaga.tla` | a live market order across instances, database, broker, crashes and start-up |
| `OrderJournal.tla` | the abstract promise of the execution path, implemented by the saga |
| `TradingCycle.tla` | one instance's loop: risk gates, circuit breaker, hot reload, delay queue, guards |
| `DecisionPipeline.tla`, `TradeRules.tla`, `PluginTools.tla`, `RegimeRules.tla` | what the stages of a cycle compute, from the readings of the market to the lots |
| `SignalRules.tla`, `AiSignals.tla`, `MarketStructure.tla`, `NewsCalendar.tla`, `LearnedState.tla` | where a cycle's inputs come from: signal engines, models, bars, the calendar, memory |
| `StopManagement.tla` | the stop of an open trade: row, broker, crash |
| `BacktestFilters.tla`, `BacktestSim.tla`, `BacktestJobs.tla` | the backtester: copies of the filters, two engines, the job of a run |
| `StrategyLifecycle.tla`, `StrategySpec.tla` | strategy versions and the meta loop; one record on its way to the agent |
| `AgentLifecycle.tla`, `Monitoring.tla`, `RiskLock.tla` | the processes, who notices their silence, and the operator's view of a halt |
| `WriterLease.tla` | the abstract promise of the single-writer row, implemented by `AgentLifecycle` |
| `MC*.tla`, `*.cfg` | instances for TLC, one configuration per run |
| `ExecutionSaga_proofs.tla`, `TradingCycle_proofs.tla`, `DecisionPipeline_proofs.tla`, `StopManagement_proofs.tla`, `StrategyLifecycle_proofs.tla` | theorems about the module of that name and their proofs (`DecisionPipeline_proofs` also about `BacktestFilters`, `StrategyLifecycle_proofs` about `StrategySpec`) |
| `Supervision_proofs.tla`, `CycleInputs_proofs.tla`, `Backtest_proofs.tla` | the same for `AgentLifecycle` with `RiskLock` and `Monitoring`, for the five modules of a cycle's inputs, and for `BacktestJobs` with `BacktestSim` |
| `PROJECT.json` | components, runs, mutants, definition-to-source map, hazards, findings, theorems |

Commands, from this directory:

    tlasany ExecutionSaga.tla
    tlc -workers 2 -config SagaRestarts.cfg MCExecutionSaga
    tlc -workers 2 -config Platform.cfg MCPlatform
    tlapm ExecutionSaga_proofs.tla
    tlapm DecisionPipeline_proofs.tla

## 1. Inventory

Status: M modelled, P partly, - not modelled (the reason is in section 6).

| component | state it keeps | operations | what is hard | what makes it correct | |
| --- | --- | --- | --- | --- | --- |
| Execution control plane (`execution/control_plane.py`, `risk/cross_instance.py`) | `execution_locks`, `order_records` | acquire/release lock, cross-instance check, persist intent, status updates | expired locks, late releases, failed commits, several instances | the lock protects its owner for a TTL; one request per client order id | M |
| Execution service (`execution/service.py`) | `order_records`, `trade_logs` | `execute_market_order`, `_finalize_result` | seven commits around one broker call, each may fail; a crash between any two | write-ahead rows; OPEN and FILLED only for real fills; no fill forgotten | P |
| MT5 executor (`execution/mt5_executor.py`) | the terminal's positions | `open_order`, `close_position`, `get_open_positions`, `modify_sl_tp` | lost replies, swallowed errors | an answer means what the broker did | P |
| Start-up recovery, reconciler (`execution/recovery.py`, `execution/reconciler.py`) | none of their own | recover non-terminal orders, compare positions with rows | two reads that are not one snapshot, uncommitted sessions, fresh instance ids | an unforced start accounts for every position; orphans halt trading | M |
| Instance life cycle (`main.py`, `webui/routes/bots.py`) | `execution_locks` single-writer row, `running_instances` | start, forced start, lease, seed, background task, signals, stop | crash at any await, a stop during start-up, rows left behind | one writer per account and symbol; a stop is heeded | P |
| Order state tracker (`execution/order_state.py`) | in-memory orders | transitions, expiry, retry | FAILED to PENDING retry | legal transitions only | - nothing reads it |
| Trade-cost analysis (`execution/tca.py`) | none | arithmetic | - | - | - numeric |
| Trading loop (`trading/loop.py`, `trading/circuit_breaker.py`) | cycle position, failure counts, loaded strategy | `run`, `_cycle_inner`, reload, reposition | other tasks between any two awaits; exceptions halfway | the gate opens again; caps hold across awaits | P |
| Execution orchestrator (`trading/execution_orchestrator.py`) | none | `execute`, `_post_fill` | a fill whose book-keeping is skipped | every fill is registered | M |
| Decision pipeline (`pipeline/*`) | delay queue, regime scores | eight stages, freshness | early exits, a queue that outlives its cycle, rules written once per direction | no stage skipped, directions alike, size within the risk budget | P |
| Risk monitor and guards (`risk/monitor.py`, `risk/guards.py`, `risk/guard_persistence.py`) | kill switch, counts, recent trades, hashes, saved state | `can_open_trade`, `register_open`, seed, save, load | restart between save and load, one settings key for all instances | caps, kill switch and duplicate filter hold across restarts | P |
| Sizing and stop management (`risk/sizer.py`, `repositioner.py`, `trailing_manager.py`) | tracked trades | lot size, stop moves, closes | rounding, monotone stops | stops only tighten; lots within limits | P |
| Portfolio analytics | - | VaR, stress tests, Monte Carlo | - | - | - numeric |
| Strategy life cycle (`trading/meta_loop.py`, `strategy_loader.py`, `webui/routes/strategies.py`, `backtester/asset_trainer.py`) | version files, bindings, caches, rollback tracker | create, edit, promote, activate, roll back | files and settings written by several processes with awaits in between | distinct versions, promotion limits, caches that converge, edits that reach the agent | P |
| Signals (`signals/*`) | previous readings, failure count | rule combination, AI answers | three copies of the rules; skipped bars | live and backtest answer alike | P |
| AI callers (`ai/*`) | rate limiter windows | call, retry, fall back | retries and a fallback share the limit | limit per sliding window, breaker holds | P |
| Plugin tools and scoring (`tools/*`, `scoring/*`) | statistics | 24 gates, features, groups | two directions in separate branches | mirrored markets give mirrored verdicts | P |
| Market data (`data/*`) | candle buffers, news cache | fetch, read structure, calendar | three readings of the same bars; stale or half-fetched news | readings agree, an event is seen | P |
| Supervision and operator controls (`supervision/service.py`, `webui/routes/controls.py`) | incidents | raise, acknowledge, clear the lock | operator and process never talk | a halted process shows as a lock | P |
| Monitoring (`monitoring/*`, `trading/heartbeat.py`) | heartbeat file, alert levels | beat, watch, alert, dead-man switch | suppression by backtests, recoveries | lasting silence raises the alarm | P |
| Core services (`core/*`) | subscriptions, start order | publish, start, stop | - | - | - plain calls |
| Web UI (`webui/*`) | bots, jobs | manual close, bot start/stop, jobs | writes beside running instances | - | P |
| Backtester (`backtester/*`) | job rows, checkpoints, tasks | run, stop, resume, delete, deploy | handlers act on what they read before an await | a checkpoint that loads only advances, one version per run, trades as the bars say | P |
| SeedLab (`seedlab/*`) | background runs, cards | run, stop, register | - | - | - no seed is ever evaluated |
| Research, compliance | reports | retraining check, batch analysis | - | - | P |
| Database layer (`db/*`) | sessions | commit, roll back | commit boundaries | they are the step boundaries of the models | P |
| Notifications, configuration (`config/settings_service.py`) | settings cache of a process | get, set, reload | several writers of one key | caches converge | P |
| Scripts, migrations | - | replay, one-off tools | a third copy of the filters | it mirrors the signal function | P |

**How they interact.** The loop of an instance calls the pipeline, the pipeline's
outcome goes to the execution orchestrator, which sizes it and calls the
execution service; that one uses the control plane, the repositories and the
executor. A background task of the same process reconciles every fifteen minutes
and writes the kill switch the loop reads. Other instances meet it only in the
database: execution locks per symbol, unique client order ids, the count of OPEN
rows, and one `app_settings` table. The web UI writes the same tables, launches the
agents, runs the backtests and the monitors; it reaches a running agent only through
settings (read with a cache of a minute), a signal to its process, and one heartbeat
file in the other direction. Strategy versions are files that both sides write.
Everything in one process shares an event loop, so interleaving happens at `await`s; processes
interleave at commits.

The `hazards` list of `PROJECT.json` names, line by line, what is hard to test in
this code and which property covers it.

## 2. Plan

Built in this order: the execution path with its abstract journal and their proofs,
because a wrong order or a forgotten position is what the system must never produce;
the trading loop with its proofs; the processes, monitors and operator controls around
them; the strategies, their files and their backtests; the data that decisions are
made from; then the proofs, in the order in which section 5 lists them. What the plan
has left:

1. An abstract specification of `TradingCycle`, a counter of slots, with its refinement
   (the bound itself is proved, `SlotsBounded`).
2. The liveness properties that count (`LockNeverStuck`, `GateReopens`,
   `SilenceRaisesAlarm`, and the quiescence in `CachesConverge`): their proofs need an
   induction over temporal formulas, which the prover does not have.

No module with a theorem in view uses a RECURSIVE operator.

## 3. The modules and the code

### ExecutionSaga

One process per instance id, `pc[i]` its main task, `bg[i]` its reconciliation
task. Labels are the points between two commits or awaits of
`ExecutionService.execute_market_order`, of `main.py`'s start-up and of the end of
the loop's cycle:

| code | action | effect |
| --- | --- | --- |
| `main.py` start, `recover_startup_orders` | `Start`, `Recover` | non-terminal orders of this id not matched by a position stop an unforced start; the session is never committed, so nothing else changes |
| `PositionReconciler.reconcile` at start-up | `StartQuery`, `StartCompare` | broker positions first, rows later; a critical issue stops an unforced start |
| single-writer claim and risk seeding in `main.py` | `ClaimLease` | any row that is there stops the start |
| loop pre-check | `Gate`, `NoSignal` | the kill switch is read once |
| `_acquire_execution_lock` | `AcquireLock`, `LockBlocked` | stale rows go, then the insert under the unique key |
| `CrossInstanceRiskAggregator.can_open_trade` | `CrossRisk` | counts OPEN rows, may refuse below the cap (money, rows entered by hand, fails closed) |
| `_persist_order_intent`, approval | `PersistIntent`, `Approve` | insert under the unique client order id |
| `_create_pending_trade_log` | `CreatePendingTrade`, `JournalFailed` | the trade row before the broker |
| `MT5Executor.open_order` | `SendOrder`, `AwaitFilled`, `AwaitRejected`, `AwaitLost` | request, then the broker's answer or its loss |
| `_finalize_result` | `MarkSent`, `ConfirmTrade`, `MarkFilled`, `RejectTrade`, `RejectOrder` | one commit each; a failed one raises |
| `_release_execution_lock` in `finally` | `Release` | deletes its own row or leaves it to the TTL |
| `_reposition_open_trades` | `ReadOpenTrades`, `RepositionClose`, `EndCycle` | rows by symbol, marked in the cycle's session, committed at its end |
| `_bg_reconcile` | `BgQuery`, `BgCompare` | trips the kill switch |
| the process, the operator, the web UI | `Crash`, `Stop`, `OperatorFreesLease`, `ManualClose` | |
| the broker (external) | `BrokerFill`, `BrokerReject`, `BrokerClose` | |
| clocks | `Tick`, `PendingAges` | lock age, five-minute age of a pending trade |

A ticket is the pair of the instance that sent and the client order id. `sends`
and `holdAge` are observers. Ages saturate one tick beyond the TTL. The error
branch of every write is a disjunct that spends one of `MaxFaults`.

`OrderJournal` states what this amounts to for a client order id: an intent, then
a journal row, then at most one submission, a fill only of a submitted id, a
promotion only of a filled one, and nothing ever forgotten. `Journal == INSTANCE
OrderJournal WITH ...` maps the rows to it.

### TradingCycle

One instance again, seen from its loop; `execute_market_order` is one step
(`flight`) with three outcomes, whose inside is `ExecutionSaga`.

| code | action |
| --- | --- |
| `seed_from_db`, `load_guard_state` | `Start` |
| `run`'s exit, `save_guard_state` in `main.py` | `Shutdown` |
| pre-check of `_cycle_inner`, circuit breaker | `SkipCycle`, `BeginCycle` |
| `_ensure_strategy_loaded`, market context | `LoadStrategy` |
| `check_delayed`, `tick_delay` | `NothingDelayed`, `RecheckDelayed` |
| stages 1, 2 to 6, 7, 8 of the pipeline | `MarketGate`, `Decide`, `NoConstruction`, `RiskGate`, `ExecutionGuard` |
| `ExecutionOrchestrator.execute`, sizing | `Submit` |
| the order | `OrderFilled`, `OrderNotFilled`, `OrderRaises` |
| `_post_fill` | `RegisterOpen`, `SaveAfterFill` |
| `_reposition_open_trades` | `Reposition` |
| background task, operators, other instances, clock | `ReconciliationTrips`, `ActivateStrategy`, `ManualOpen`, `ManualClose`, `OtherInstanceSaves`, `Tick` |
| the process | `Crash` |

Scores, prices and money are data: a stage that depends on them may go either way.
`late`, `missed` and `durable` are observers: orders begun with the kill switch on,
fills the monitor was never told of, the hashes this instance saved last. The
times of recent opens are kept as a set of ages; a tick lies between any two
cycles (`nap`), so no two of them coincide.

### PluginTools, RegimeRules, TradeRules, DecisionPipeline

`TradingCycle` has the control of a decision and leaves its data free; these four have
the data. A market is a record of readings, each possibly missing. `PluginTools` has,
for each of the 24 tools, the verdict of `run()` (`Gate`) and the features of
`extract_features()` (`Features`), with the groups and weights of `scoring`.
`RegimeRules` is the table of the regimes, `TradeRules` the constructor, the
invalidator, conviction, freshness and the sizer, as operators on integers: points,
percent, tenths. `DecisionPipeline` strings them together, an action per stage:

| code | action |
| --- | --- |
| `MarketGate.check` | `CheckMarket` (reads a new market and strategy card) |
| `RegimeClassifier.classify` | `ReadRegime` (any regime; how it is learned is `LearnedState`) |
| signal engine, `TradeConstructor.construct`, setup policy | `NoSignal`, `ConstructTrade` |
| `StructuralInvalidator.validate` | `Invalidate` |
| `StructuralQuality.evaluate`, `ConvictionScorer.score` | `Convince` |
| `BoundedAIValidator.validate` | `Validate` |
| `RiskGateRunner.check`, `ExecutionGuardRunner.check`, freshness | `CheckRisk`, `GuardExecution` |
| `ExecutionOrchestrator.execute`, shadow mode | `SizeTrade`, `Shadow` |

`Mirror` reflects a market at an axis, and `DirectionsAreTreatedAlike` compares a
trade with its reflection. What the AI validator may do is modelled as its interface
says (`validator.call`): the `AICaller` of the repository has no such method, so that
with `fail_open=False` every validated signal is rejected live.

### SignalRules, MarketStructure, BacktestFilters, BacktestSim

The same rules exist in several copies, and these modules set the copies side by side.

- `SignalRules`: the live `AlgorithmicSignalEngine` with the readings it remembers
  (`GenerateHypothesis`, `Remember`), `compute_direction` as `vbt_engine` calls it, and
  `make_signal_fn`. `AskEngine` is a cycle that reaches the engine, `SkipEngine` one
  that does not, `ReplaceEngine` a hot reload. `bos_confirm` never votes live (the
  engine reads keys that the loop does not write). `adx_trend` and `bollinger_breakout`
  never vote in a vectorised backtest (`SilentInBacktest`: `bollinger()` returns no series
  of %B and `compute_adx` numbers instead of series). The property excepts strategies with
  the first, and for those with one of the others it compares directions with
  `make_signal_fn` only.
- `MarketStructure`: breaks, gaps and swings as the live context, `data/indicators.py`
  and `runner.py` read them off the same bars, each in a window of its own.
- `BacktestFilters` (extends `DecisionPipeline`, so that both see one market): the
  filters of `vbt_engine`, of `make_signal_fn` and of `scripts/replay_sim.py` beside the
  live tools. What they share is `FilterRefuses`; what sets them apart are `VectorBar`
  (`bollinger_filter` and `adx_filter` never refuse there, and `session_filter` raises,
  because it reads the name `timestamps`, which nothing defines), `SignalFnRefuses` and
  `ReplayBar`. Session score, VWAP and ADX are other figures in a backtest and are not
  compared with the tools.
- `BacktestSim`: the two engines on the same bars, each with entries of its own.
  `BacktestEngine` asks `make_signal_fn`, which enters at the open of the next bar with a
  stop of its own (`RunBar`, `OpenTrade`), books a trade when it closes (`CheckExit`), and
  closes the last one with the window (`CloseRest`). `run_vectorbt_backtest` enters at the
  close (`ScanBar`), pairs entries with exits afterwards (`Paired`) and raises at the first
  trade it has to count (`VectorAnswer`, `vbt_engine.py:541`), so that it answers for data
  without trades only. The code does not claim that the two agree, and nothing here does.

### LearnedState, AiSignals, NewsCalendar

- `LearnedState`: the smoothed regime scores and their Redis copy, pushed every `PushEvery`
  cycles under the instance id and read by a start with that id (`me`). The settings row
  that `main.py:709-738` means to restore from and to save to is not in the model, because
  it is never read or written: `trading_loop` is None there. Scores are exact integers,
  scaled by 4*10^n after n bars.
- `AiSignals`: one call in progress with its retries and its fallback (`job`), the
  limiter's sliding window, the count of malformed answers and the breaker. An answer that
  was repaired and has no `take_profit` counts twice (`Truncations`,
  `signals/engine.py:680` and `699`).
- `NewsCalendar`: `fetch_upcoming_news` with a paid provider or ForexFactory's two week
  files, the cache, the stale list in an outage, and the news filter. `half` and
  `raised` mark the gaps the code has: a week file that fails counts as empty and is
  cached, and a context that raises has no news.

### StopManagement

One trade; `held` is the committed row, `draft` the session of the cycle, `brokerStop`
what the broker holds. `StartCycle`, `Reposition`, `Trail`, then `Commit`, `Rollback` or
`Crash`; `StoppedOut` is the market. A refused `modify_sl_tp` still changes the row, as
in the code.

### StrategyLifecycle and StrategySpec

`files` are the version files, `binding` the `active_strategy_*` settings, `cache` each
agent's copy of them.

| code | action |
| --- | --- |
| `_next_version`, lock file, `save_strategy_record` | `ScanVersions`, `TakeLock`, `CheckPath`, `SaveVersion` |
| `train_from_card` | `TrainFromCard` |
| `update_strategy`, `sync_active_strategy_bindings` | `UpdateStrategy`, `SyncBindings` |
| `promote_strategy`, `activate_strategy`, `delete_strategy` | a request that read the record, then `PromoteStrategy`, `ActivateStrategy`, `DeleteStrategy` |
| listing, `_migrate_filename_if_needed` | `ListVersions` looks whether the path is free, `MigrateFilename` renames over whatever is there by then |
| start, stop, crash, `list_bots` | `StartAgent`, `StopAgent`, `AgentExits`, `AgentCrashes`, `WebCrashes`, `PurgeRows` |
| `SettingsService` | `RefreshCache`, `SetSetting` |
| `MetaLoop.on_trade_closed` and its cycle | `TradeClosed`, `CheckRetraining`, `LoadActive`, `Improve`, `VersionCreated`, `BindInstance`, `BindSymbol`, `CooldownEnds`, `ActivationFails` |
| `_execute_rollback` | `FindPrevious`, `RollbackBinds`, `RolledBack`, `RollbackFails` |

A strategy's content is one opaque `body`, numbered in the order of saving; statistical
gates go either way. `AnalyzerFits` says whether the analyzer has the interface that
`meta_loop.py` calls. The one in the repository does not (its `run` takes no
`extra_context` and it has no `suggest_params`), with which a cycle ends at its report;
the runs check the interface the meta loop was written for.

`StrategySpec` is the content of one record: flat fields beside a typed `strategy_spec`
that wins, canonicalised on load, on save, on activation and once more by the agent.
`wanted` is what the operator was told last. A request is a function from the fields it
names to their values, among them an explicit null (`EditStrategy`, `Saved`, `SyncedSpec`);
`ActivateRecord` writes the payload. Texts, rule sources, approved models, stored records
and requests are constants. Edits of the flat rules never reach the agent once the spec
has sources, and the property says so.

### BacktestJobs

The row, the asyncio task (`task`, `search`), its checkpoint file and one handler between
its read and its act. `Begin` to `Complete` are `_run_backtest`; `Create`, `ReadRun`, `RequestStop`,
`StopLost`, `Resume`, `DeleteData`, `DeleteRow` the handlers; `CrashWeb` and `LoseState`
the faults. A simulation either raises or has a result, as its interface says. A
checkpoint that cannot be loaded counts as none (`runner.py:270`): `LoadCheckpoint` then
goes on at `again`, a baseline that overwrites the checkpoint with generation 1.

### AgentLifecycle, Monitoring, RiskLock

- `AgentLifecycle`: `phase` follows `main_async`; `leaseRow` is the single-writer row,
  `listing` the row of `running_instances`, which the web and the agent both write. A
  signal is fatal before the handler is installed, swallowed before the loop exists and
  overwritten by `run`; on Windows the sentinel file is never read and a stop kills. The
  shutdown may break off where the `finally` clause awaits a background task that has died
  (`LeaveLoop`), and its two deletes may fail and are only logged (`Unlist`,
  `ReleaseLease`); `left` remembers whose single-writer row may have stayed for that.
  `Lease == INSTANCE WriterLease WITH holder <- leaseRow, ...` maps it to what the row
  is for: a writer takes the lease when nobody has it (`Take`), gives back its own
  (`Give`) or dies and leaves it (`Die`).
- `Monitoring`: one heartbeat file for all agents, the dead-man switch without executor
  or notifier, and the watchdog without database. The watchdog looks for the kill switch
  under names that the heartbeat does not use, so a halted loop is healthy. The switch sets
  its trigger before it writes the incident, and a write that fails is never tried again
  (`"lost"` in `told`). A tick is a look of the switch; the warning threshold is more than
  one (ten, in the code).
- `RiskLock`: `halted` is the process's memory, `incidents` the table the UI derives the
  lock from. Clearing the lock never reaches the process; a restart drops the halt and
  leaves the incident.

`MCPlatform` and `MCFleet` put independent modules into one state space: `part` selects
the module that runs, and the others rest in an initial state.

## 4. Runs

Passing runs (2 workers):

| run | instance | distinct states | shows |
| --- | --- | --- | --- |
| `saga_two_accounts` | two instances on two accounts, one symbol, one shared client order id, TTL 1, two faults, lost replies and failing broker queries | 1.4 million | `TypeOK`, `JournaledBeforeBroker`, `AtMostOneSubmission`, `ConfirmedIsReal`, `LockWithinTTL`; the saga implements `OrderJournal` |
| `saga_restarts` | one instance id restarted any number of times, two client order ids, a truthful broker, one fault, with fairness | 211 thousand | `NoFillForgotten`, `StartAccounts`, `SagaEnds`, `LockNeverStuck`, `OrphanHalts` |
| `cycle_risk` | two signals, two versions, two slots, window 1, one fault, one trade entered by hand, with fairness | 565 thousand | `TypeOK`, `KillBound`, `PositionsWithinCap`, `CountCoversRows`, `DelayedKeepsStrategy`, `GateReopens` |
| `platform` | the modules beside the order path, one at a time (below), without fairness | 1.2 million | see the table below |
| `fleet` | one lineage of strategies with one agent; two agents of one scope; the monitors; with fairness | 271 thousand | the processes implement `WriterLease` (`LeaseIsKept`); `CachesConverge`, `StopIsHeeded`, `SilenceRaisesAlarm` |

| part of `platform` | property | shows |
| --- | --- | --- |
| `pipeline` | `DirectionsAreTreatedAlike` | a trade and its mirror image pass, score and are built alike |
| | `InvalidatorIsStricter` | what the invalidator lets through unmarked no tool it asks for refuses |
| | `RiskWithinBudget` | stop times lots stays within the account's risk, or within 1.1 times it where the sizer clamps the buffered stop |
| | `ValidatorIsBounded` | the validator moves the size by one risk tier at most (and two lot steps of rounding) |
| | `FilterParity` | signal function and replay refuse what the live tools refuse, and so does the vectorised backtest but for `bollinger_filter` |
| `signals` | `SignalParity` | live engine, signal function and, without its silent rules, the vectorised backtest answer alike from the second full bar |
| `structure` | `StructureParity` | three readings of the same bars agree as far as their definitions allow |
| `regime` | `CleanRestartLosesLittle` | a restart under the same id, with Redis answering, forgets one push interval at most |
| `ai` | `BreakerHolds` | the rate limit is a sliding one; the breaker trips at the latest with the threshold's answer, never before half of them, and holds |
| `calendar` | `NewsIsSeen` | no trade within half an hour of a high-impact event, but for four named gaps |
| `stops` | `StopsAdvance` | the broker's stop goes back only to the entry, or after a lost commit |
| `simulation` | `BacktestsAreSound` | a trade closes on the first bar that touches a level and loses its risk at most; the vectorised engine answers only without trades |
| `record` | `AgentRunsTheEdit` | catalogue and agent run the operator's last edit |
| `strategies` | `ReservationsDistinct`, `PromotionLimits`, `OldContentWrittenLate` | version files under concurrent creators, edits, promotions and renames |
| `jobs` | `CheckpointAdvances`, `OneVersion` | stop, resume and crash lose no work, unless the checkpoint did not load, and repeat none |
| `lock` | `HaltIsShown` | a halted process shows a lock, unless its incident was lost, cleared or crowded out |

Every property of the passing runs has a mutant in `PROJECT.json`: a plausible mistake
in the modelled code under which TLC finds the property violated.

Runs that end in a violation, each a place where a comment, docstring or document
says something the code does not do:

| run | statement | what the code does |
| --- | --- | --- |
| `saga_relaunch` | `main.py`: "Recover startup orders and fail closed on unresolved state." | recovery filters on the instance id, and a relaunch gets a fresh one |
| `saga_recovery` | `recovery.py`: "Resolve startup non-terminal orders ..." | the session is never committed; the row stays SENT |
| `saga_portfolio` | `monitor.py`: cross-process concurrency is enforced by the aggregator | the cap is read under a per-symbol lock; two symbols pass together |
| `cycle_count` | `execution_orchestrator.py`: "so _open_trades count stays accurate" | nothing calls `register_close`; a slot is given back only by a restart |
| `cycle_guards` | `execution_orchestrator.py`: filters "survive restarts" | all instances share one settings key, the last to save wins |
| `cycle_delay` | `docs/references/architecture.md`: "DELAY (queued, retried next cycle)" | the signal's own hash makes it a duplicate of itself |
| `stale_lease` | `execution_lock.py`: "heartbeat timestamp ... for stale-lock detection" | the heartbeat comes back without a time zone and its age cannot be computed; a row left by a killed process blocks every live start until it is deleted by hand |

### Bounds, and why they are enough

- `MaxFaults` limits crashes, failed reads and writes and lost replies. Two let a
  crash follow a failed write (or two processes crash) in `saga_two_accounts`;
  one is enough in the liveness runs, where each fault starts a history of its own.
  The safety theorems hold for any number.
- `TTL` is 1 (0 in `saga_restarts`, to keep the liveness graph small): with ages
  saturating at `TTL + 1` a lock is fresh, at its limit, or stale.
- Two instances and one contested client order id are the smallest case in which
  lock, unique key and risk check conflict; `saga_restarts` needs two ids so that an
  old order and a new one coexist.
- `MaxOpen` is 1 or 2 so that the cap is reached.
- `Window` 1 with two signals makes the duplicate filter both block and evict;
  `MaxPerHour` 1 and `Hour` 2 let the hourly cap close and open again;
  `FailureThreshold` 1 and `KillThreshold` 2 reach both limits, `Pause` and `Poll`
  are one tick. `MaxManual` 1 is one dry-run row entered by hand. `MaxDelay` 1 is the least that queues. `MaxConcurrent` 2 leaves a
  free slot beside an open trade.
- Symmetry (signals, versions; in `saga_two_accounts` the two instances with their
  accounts; in `platform` the requests) is used only in runs without liveness
  properties.
- `platform`, inputs: 60 markets that vary one reading at a time around a rising and a
  falling one, on both sides of every threshold the rules have, times directions,
  set-ups, modes, tool sets and parameter layers (a high confidence for one of the
  set-ups: it only moves the risk tier). Four shapes of candle fill a window
  of 7, so that every order of gap, break and swing of width 1 occurs. Ten signal bars
  put each oscillator before, at and beyond its level.
- `platform`, lengths: three bars and four cycles with a push every second one; six
  ticks with a limit of two calls and a breaker of three answers; 14 ticks of ten
  minutes with a cache of three, a lookahead of eight and a week that ends at five; three
  cycles of stops; four bars of a simulation; four generations, four calls and one
  fault of a job; two incidents over a list of one; two names with one version each, so
  that a record may lie under the other's path and be renamed, two requests, three operator
  calls and one crash of the strategies, whose meta loop only makes candidates (in `fleet`
  one name has two versions and it activates them). Each lets its limit be reached,
  passed and come back once, and the theorems of section 5 hold without them. A trade of the
  legacy engine costs 1.
- `platform`, records: 864 flat ones, and 1152 typed ones over stale flat fields of
  which only the rules vary; requests that set a mode, a source, a prompt, a model, rules
  or several of them, to values on both sides of every fallback or to null.
- `fleet`: one lineage suffices for the caches, whose writers are the agent and the web
  process; two agents and one kill for the lease; the thresholds of the
  two monitors in the order they have in the code, so that every level is passed.
- `CHECK_DEADLOCK` is left on in the runs of `ExecutionSaga` and `TradingCycle`, whose
  clocks always advance. It is off in `platform`, `fleet` and `stale_lease`: an operator
  may have nothing left to ask, a tape ends, and an agent may be gone for good.

### Fairness

`ExecutionSaga`: a cycle that has entered `execute_market_order` runs to its end
(`CrossRisk`/`PersistIntent`, `Submit`, `Finalize`), the background task wakes and
completes, the broker answers every request, the clock ticks. All are weak: each
step stays enabled until taken, and asyncio resumes a ready task. `order_send` has no
timeout of its own, so the broker's answer is an assumption. Nothing forces an
instance to start, stop or crash, a strategy to find a signal, or an operator to act.

`TradingCycle`: weak fairness of the cycle as a whole, whose task asyncio resumes,
and of the clock. The individual outcomes of a stage are not fair.

`StrategyLifecycle`: a coroutine that is scheduled runs on (`Serve`, `ReservePath`,
`CycleTask`, `RollbackTask`), a signalled process exits, and an agent keeps reading
settings, which reloads the cache after its TTL. Nothing makes operators, crashes or
trades happen.

`AgentLifecycle`: a process that runs gets on with its start, and with its end once it is
told (`AgentStep`). A stop request is not fair: `StopIsHeeded` speaks of agents that were
told.

`Monitoring`: the two tasks of the web process look at least once per tick and time
passes. Heartbeats, backtests and failures are not fair.

Weak fairness speaks of `ENABLED`, of which the prover knows nothing. The proofs of
liveness therefore assume it with the guard of the step in its place: a step whose
guard holds from some moment on is taken again and again (`CallProgress`,
`BackgroundProgress`, `ProgressOf`, `ReaderProgress`). That this follows from the `WF_`
of the specification is a lemma (`FairTasksProgress`, `FairAgentsProgress`,
`FairAgentsRead`) from one invariant, that the guard implies `ENABLED`
(`StepsAreEnabled`, `StepIsEnabled`, `ReadIsEnabled`). TLC evaluated these three as
invariants on the instances of `saga_two_accounts`, of `fleet` with three agents, and of
`fleet`, and found them true; for every instance they are read off the guards.

## 5. Proofs

`ExecutionSaga_proofs.tla` (3140 obligations) assumes only `InstanceAssumption`
(the null values are outside their sets; symbols and accounts are functions of
instances, symbols of ids) and `BoundAssumption` (TTL, cap and fault budget are
naturals, the two switches are Booleans).

- `TypeCorrect`: `TypeOK` alone is not inductive, since what `SendOrder` hands to
  the broker is a ticket only because an instance inside the critical section has a
  client order id (`CidHeld`).
- `JournaledFirst`, `SubmittedOnce`: `SagaInv`. An instance in flight owns the
  order row of its id (`Owns`), nothing was sent before `send` (`Unsent`), a trade
  row exists afterwards (`Journalled`), an id without an intent left no trace
  (`NoTrace`) and everything at the broker was sent (`WasSent`). The point of the
  argument is that a second owner is excluded by the unique key and not by the lock,
  which may have expired.
- `Confirmed`: `RealInv` adds what the rows and the broker look like at each label
  and that repositioning only holds promoted rows.
- `LockHeld`: `LockInv`, the owner's row is at most as old as its stay.
- `ImplementsJournal`: initial states map to initial states, and under
  `IInv == TypeInv /\ SagaInv /\ RealInv` every step is a journal step or a stutter.
- `FillRemembered`, under `~ReplyLost`: an id in flight has a non-terminal order row,
  and a call that reports a rejection has nothing at the broker. The assumption is
  needed: with lost replies both rows become terminal over a live position.
- `StartsAccount`, under `~ReplyLost`, `~BrokerQueryFails` and `Alone` (one instance per
  account and symbol): `BrokerInv` (positions and tickets are fills, a request without an
  answer is on an order that recovery looks at) and `StartQuiet` (past recovery the
  instance has no request out and its background task has not begun, so that no position
  appears between the read and the comparison). Each assumption is needed: a lost reply
  makes the order row terminal before the fill, a lost list hides the positions, and
  another instance of the scope may fill between the two reads. Faults, crashes and
  restarts are not bounded.
- `CallsEnd` (`SagaEnds`, if the tasks of a process go on and the broker answers): from
  each label of the call only labels after it are reached (`After`), nobody else moves it
  (`CallAdvances`), and its own step does move it (`LabelIsLeft`); at `await` the broker
  comes first (`AwaitIsLeft`). `BrokerAnswers`, the fairness of the broker for each
  ticket, is assumed at all times instead of once, which is the same thing, but the prover
  does not exchange the box with the quantifier.
- `OrphansHalt` (`OrphanHalts`, under `~BrokerQueryFails`, if the background task goes on):
  a report that is under way when the orphan appears may miss it, the next one has it
  (`Sleeps`, `Missed`, `Seen`). Lost lists are excluded because finitely many of them can
  only be counted.

`TradingCycle_proofs.tla` (433 obligations) assumes `CycleAssumption` (limits are
naturals, positive where a zero would switch the component off).

- `TypeCorrect`: strengthened with `Loaded` (past stage 2 there is a strategy and a
  signal) and `Counting` (a running loop is below the kill threshold).
- `SlotsBounded`, `CountCovers`: `SlotInv`. The rows are bounded by the count, the
  count by the check, and the check holds until the fill is counted (`SlotFree`),
  because no other step of the process raises the count.
- `KillBounded`: `LateInv`, after a late order the kill switch is on and the loop is
  past every gate.
- `QueueFollowsStrategy`: with `TypeInv`, a queued signal is `by` the loaded version.

`Supervision_proofs.tla` (604 obligations) has three modules that share nothing but the
subject.

- `OnlyOneWriter` (any agents and scopes, any timeout and number of kills). Two agents
  writing at once is not excluded by the phases alone: the release deletes by scope,
  whoever owns the row. `WriterOwnsLease` says that a writing agent *is* the owner, and
  then the delete it reaches last removes its own row.
- `AgentsKeepTheLease`: with the same invariant every step of a process, of the web or of
  the operator is a step of `WriterLease` or a stutter. A stop, a kill or a failed start
  is `Die`, whatever it leaves in the database.
- `StopsAreHeeded` (`StopIsHeeded`, if a process that can get on does): `StopInv`, whoever
  was told in its loop does not loop again, and whoever was told and is gone has no row of
  its own unless it is in `left`: killed, broken off in its shutdown, or with a delete that
  failed. Without failures the row would be gone; with them the theorem says that nothing
  else keeps it, in particular no other agent. The stages are then passed one by one
  (`StopAdvances`, `StopStepsOn`).
- `HaltsAreShown` (any processes, incident types, list limit). `HaltIsRecorded` looks at the
  whole table: a halted process that has written its incident has an unresolved one. What
  the list shows follows by counting (`ListOverflows`): an unresolved incident is left out
  only when there are more of them than the list holds.
- `SilenceTriggersAgain` (`Monitoring`, any thresholds above one look): `SwitchInv`, a
  switch that is triggered and has not tried to record the incident since the last heartbeat
  is about to see that heartbeat (`Unnoticed`). It is the half of `SilenceRaisesAlarm` that
  no clock brings about: what was reported once does not silence the next report. That the
  incident is there cannot be claimed: it is tried exactly once for each silence.

`Backtest_proofs.tla` (716 obligations) is about the jobs and about the engines.

- `OneVersionPerRun`: `Accounts` gives every version its payer. A task on its way to a
  version, or a row that shows the run as unfinished, means that the versions so far are
  paid by crashes, lost writes and overtaken requests; `completing` is the one task whose
  version is not.
- `CheckpointNeverLosesWork`: `SearchAhead`, the generation a task works on comes after
  the one on disk, and its best result is no worse; only a task that could not load it
  (`again`) writes generation 1 over it.
- `BacktestsStaySound` (every list of bars and offers, every cost): `SimInv`. No bar since
  its signal touched a level of the trade that is held (`HeldAt`), so that the first touch
  closes it; its stop is worth what it risked and its target lies beyond the stop; and it
  was signalled after the last exit. In the vectorised pass exits and entries alternate, so
  that an exit always has an entry to pair and the call raises.

`StrategyLifecycle_proofs.tla` (1107 obligations).

- `ReservationsStayDistinct`: the property is inductive with the shape of the creators'
  records, because its first conjunct names the lock.
- `PromotionsAreLimited`, `OldContentIsWrittenLate`: action properties from `SavedInv`, in
  which two copies of one body, on disk or in a request, agree on whether the walk-forward
  gate rejected it, and none is newer than the last body made. Without the copies that
  requests hold it is not inductive. A promotion from a stale record may write an old body
  over a rejected one, and a rename a file over another (`WrittenLate`): both properties
  name this and prove that there is no other way, and that no way makes a body live or
  takes the rejection from the body itself.
- `CachesSettle`: once the settings stay as they are, every agent that goes on reading them
  sees them as they are. Who writes a value that is already there writes it to its cache
  as well, so that agreement is stable (`ViewsStay`). `CachesConverge` says in addition
  that the settings do come to rest, which the model owes to its bounds.
- `EditsReachTheAgent` (any texts, rule sources, approved models, stored records and
  requests; `SpecAssumption`): `Says` is what resolution reads from a record, and each of
  the rewritings is shown to leave it alone: migration (`MigrateSays`), the canonical form
  (`CanonicalSays`), the payload (`PayloadSays`) and the agent's own reading (`LoadedSays`).
  What they have in common is one lemma (`CarriesOver`): a record whose spec was migrated
  from another and whose flat prompt and model are the resolved ones says the same. A save
  says the fields of the request and otherwise what it said before (`SavedSays`), which
  needs that the record was loaded (`Settled`: flat and resolved fields agree). The
  invariant is then that file and setting say what the operator asked for (`RecordInv`).

`StopManagement_proofs.tla` (152 obligations), with integers for prices: `StopsOnlyAdvance`
from `RowKeepsUp`, the row of which the next step computes (the session's in a cycle, the
committed one between) is not behind the broker unless a cycle was lost. A row at the
entry is the exception; a trailing step then measures no risk and does nothing.

`CycleInputs_proofs.tla` (1718 obligations) has a section for each of the five modules.

- `NewsAreSeen` (every calendar, lookahead, cache life and blackout of up to half an hour):
  `CacheComplete`, what was cached of whole files has every event of its window, and
  `ContextFromCache`.
- `RestartsLoseLittle` (any ids, bars, push interval): `NothingLost`, while nothing went
  wrong the copy under this id lacks at most the bars since the last push, which are counted
  by the remainder of the cycle number. A start under another id finds another copy or none.
- `CallsAreLimited` (any chain of models, keys, limits, retries): `Remembers`, the
  limiter's list is the end of all that was sent to a provider with a key, and what it
  has forgotten is outside the window (`Evicts`). A call that finds less than `MaxCalls`
  in the list therefore comes more than a window after the call `MaxCalls` before it. The
  breaker holds because no call is under way while it is open, and the counter lies between
  the malformed answers and twice their number (`Counts`).
- `EnginesAnswerAlike` (any readings, rules, logics): after a complete bar the engine
  remembers that bar and has no gap, whatever it remembered before (`SignalInv`), and
  then every rule votes, on the same readings, in all three copies but for the silent ones
  of the vectorised backtest (`CompleteBars`).
- `ReadingsAgree` (any bars, windows, thresholds): a window is the end of all bars
  (`IsTail`), so both see the same bars before the newest and the same neighbours of a
  centre, and the two latest swings of a window that has two are those of all bars
  (`TwoOfTail`). The extremes of a window exist by the least-number principle
  (`BoundedReadings`).

`DecisionPipeline_proofs.tla` (2542 obligations) takes the market apart as far as types
(`MarketAssumption`: readings are numbers or words of their kind, a move is exhausted in one
direction at most, since one rate is compared with an upper and a lower band,
data/indicators.py:503, and a close is beyond one end of a range at most,
data/indicators.py:103), the parameters (`ParamAssumption`: numbers) and the account (`PipelineAssumption`: balance and risk are naturals,
the risk at least a thousandth of a percent, pip value and margin are positive, confidences
at most 100).

- `PipelineInv`: a trade that is judged was constructed from a hypothesis, scalars are from
  the tables they are read from, and the validator's confidence is at most five points
  above the signal's (`Near`).
- `LotsStayInBudget`: lemmas bound, one after the other, the risk share by the tier, the
  lots by the risk share and the priced stop, and the scaled lots by 1.1 times that and
  half a lot step of rounding. Products are split into named factors, since the provers
  have no arithmetic of three variables.
- `ValidatorMovesOneTier`: the risk share of neighbouring tiers at most doubles, and the
  lots with it, up to two steps of rounding.
- `InvalidatorAsksForMore`: no failure means that each check of the setup was passed, and
  a lemma per tool turns the check into its gate.
- `NeitherSideIsFavoured`: for each tool, the verdict and the features of a market and of
  its mirror image (`GatesAlike`, `FeaturesAlike`); for the constructor, that the candidate
  levels of the image are the images of the candidates, in the same order, so that the same
  one is chosen (`ConstructAlike`); and for each structural check that it fails on both or
  on neither (`FailuresAlike`). `BuiltHere` says that the trade under judgement came from
  the readings and parameters of this cycle. The levels are the largest or smallest of sets
  of any size: `LeastNat` takes their existence from the well-foundedness of the naturals.
- `BacktestsFilterAsTheToolsDo`: filter by filter (`FilterIsTool`), a vectorised bar with
  one filter active (`VectorWithOne`), and the stages of the replay by the least stage that
  refuses (`ReplayExecutes`).

Five proof attempts failed for a reason, and TLC then showed the behaviour:

- `NewsIsSeen` was false in the turn of the week: ForexFactory's two files are this week and
  the next, and after the change nobody has the last half hour of the old one. It is the
  fourth gap that the property names.
- `RiskWithinBudget` was false for a trending regime, whose scalar is 1.1 (`pipeline/regime.py`).
  The buffer of the priced stop (1.15) absorbs it, except where the sizer clamps the
  buffered stop to `sl_max_points`; there the loss may be 1.1 times the budget. The market
  instances of `platform` had no stop in that range; one layer now builds it.
- `ValidatorIsBounded` allowed one step of rounding; doubling and rounding twice takes two.
- `SignalParity` was false of a strategy that confirms breaks: live, `bos_confirm` finds no
  levels and votes for neither side, in a backtest it votes. No rule set of `platform` had
  it; one has now, and the property names the exception.
- `SilenceRaisesAlarm` was false for a warning threshold of one look: the switch may then
  miss a heartbeat between two silences and take both for one. The code's is ten looks, and
  `MonitorAssumption` now asks for two.

Only model-checked:

- `LockNeverStuck`, `GateReopens` and `SilenceRaisesAlarm`, in which a clock counts to a
  limit, and of `CachesConverge` that the settings come to rest: each needs an induction
  over temporal formulas, and the library's induction rules take an operator that none
  of the provers can instantiate.
- That a step is enabled where its guard holds (under "Fairness" above).

## 6. What is left out

Not modelled:

- *Order state tracker*: in memory, written by the executor, read by nothing.
- *Trade-cost analysis, portfolio analytics*: arithmetic over history, no state that a
  later step reads.
- *SeedLab*: started from the web, every seed fails, because `regime_runner.py:98`
  unpacks four lists from what is one result object; what it would evaluate is the
  backtester's signal function, which is modelled.
- *Core services*: the event bus awaits its handlers one after another, so the models
  take a publication as the calls it makes.

Left out of the modelled components:

- Dry-run and paper modes, metrics, events, audit payloads, prices and money: the
  money caps of the cross-instance check and of the pipeline may refuse at any time;
  those of the loop's own pre-check never do, so `GateReopens` speaks of an
  instance that stays within its loss and heat limits.
- The optional Redis copies of the risk state and of the guards, which could also set
  the kill switch (that of the regime is in `LearnedState`).
- Session loss and portfolio heat (money), and reservations
  (`try_reserve_slot` has no caller).
- Guards that nothing feeds: `spread_regime.record` is only reached from `_run_guards`
  and `record_trade_close` from nowhere, so the spread filter, the equity scaler and the
  drawdown pause never have data in the live loop; the pipeline's gates leave them free.
- Settings that tighten limits after the monitor was seeded.
- `seed_from_db`'s comparison of a naive with an aware time on SQLite, a type error
  of the runtime rather than an ordering; a start that fails at this point is a
  step of `ExecutionSaga`.
- Indicator arithmetic, prompts and the text of answers: readings and kinds of answers
  are inputs. The statistics of a backtest, of the walk-forward folds and of the
  optimiser's trials are data that decide either way.
- Canary deployments, overlays, the learners and the calibrator (statistics that the
  live decision does not read).
- Partial closes of the repositioner, which carry no lots and are not sent.
- Retention and archival, message delivery, authentication, and the pages that only read.

Where a caller and a callee do not fit, the models follow the interface the caller was
written for and say so at the definition: the AI validator (`DecisionPipeline`), the
analyzer (`StrategyLifecycle`), the end of a vectorised backtest (`BacktestJobs`, while
`BacktestSim` has it raise as it does). The misfits themselves are absent names and not
orderings, and a test that runs the line finds them.

### Observations beside the runs

Met while reading for the models, none of them a statement a run refutes:

- A signal to an agent between the installation of its handler and its loop is
  swallowed, or overwritten by `run`; the stop request answers "ok" and deletes its row,
  so the agent may trade on unlisted.
- `clear_no_new_risk_reason` has no caller: a lock cleared in the UI stays in the
  process until its restart. An acknowledgement reopens a resolved incident.
- A paused or forgotten backtest keeps `get_active_runs` non-empty and suppresses the
  dead-man switch's alarm. The heartbeat file is shared by all agents, so one that runs
  hides one that does not.
- `main.py:712` and `728` ask for `_regime_classifier` of a loop that is built in line 780,
  so the settings row `regime_state_<symbol>` is never read or written; the tasks that a
  dead-man switch or a shutdown leaves undone (an incident that was not written, a
  single-writer row that was not deleted) are logged and never tried again.
- `backtester/vbt_engine.py` reads the name `timestamps` in lines 331 and 541 and nothing
  defines it: a vectorised backtest ends in an exception as soon as a trade closes.
- A checkpoint that cannot be loaded counts as none: a resumed run starts over and
  overwrites it.
- A backtest without MT5 and yfinance runs on a random walk; the flag is only logged,
  and its best version becomes a candidate like any other. A checkpoint is loaded
  whatever data it was made on, although `runner.py:210` says otherwise.
- Live breaks of structure need no minimum size and live gaps are neither sized nor
  tested for being filled; a backtest's are. The backtest's `vwap_guard` measures the
  distance from an average, on both sides.
- `BoundedAIValidator` lets later stages work on the original signal and sizes the
  adjusted one; the difference is bounded (`ValidatorIsBounded`).
