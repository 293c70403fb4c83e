---------------------------- MODULE TradingCycle ----------------------------
(***************************************************************************)
(* One live instance's trading loop: the risk monitor's gate, the circuit  *)
(* breaker, the hot reload of the strategy, the queue of delayed signals,  *)
(* the pipeline's stages, the execution guard's memory of recent signals,  *)
(* and the book-keeping after a fill, while the background reconciliation  *)
(* trips the kill switch, operators close trades and swap strategies, and  *)
(* the process stops, crashes and is started again.                        *)
(*                                                                         *)
(* Code: trading/loop.py, trading/circuit_breaker.py, risk/monitor.py,     *)
(* risk/guard_persistence.py, pipeline/orchestrator.py, its stages,        *)
(* pipeline/execution_guard.py, trading/execution_orchestrator.py.  What   *)
(* happens between the call of execute_market_order and its result is      *)
(* module ExecutionSaga.  Scores, prices and amounts of money are data:    *)
(* a stage that depends on them may go either way.                         *)
(***************************************************************************)
EXTENDS Integers, Sequences, FiniteSets

CONSTANTS
  Signal,           \* trade signals, as their hash tells them apart
  Version,          \* strategy versions
  NoSignal, NoVersion,
  Window,           \* SignalHashFilter.window
  MaxDelay,         \* max_delay_candles
  MaxConcurrent,    \* max_concurrent_trades
  MaxPerHour,       \* max_trades_per_hour
  Hour,             \* an hour, in ticks
  FailureThreshold, \* failures in a row that open the circuit
  KillThreshold,    \* failures in a row that end the loop
  Pause,            \* how long the circuit stays open, in ticks
  Poll,             \* poll_interval, in ticks
  MaxManual,        \* bound: open trades entered by hand
  MaxFaults         \* bound: crashes, failed reads and writes

ASSUME CycleAssumption ==
  /\ NoSignal \notin Signal
  /\ NoVersion \notin Version
  /\ Window \in Nat \ {0}
  /\ MaxDelay \in Nat \ {0}
  /\ MaxConcurrent \in Nat \ {0}
  /\ MaxPerHour \in Nat \ {0}
  /\ FailureThreshold \in Nat \ {0}
  /\ KillThreshold \in Nat \ {0}
  /\ Hour \in Nat \ {0}
  /\ Pause \in Nat
  /\ Poll \in Nat \ {0}
  /\ MaxManual \in Nat
  /\ MaxFaults \in Nat

VARIABLES
  pc,           \* where the loop is
  nap,          \* ticks left to sleep
  signal,       \* the signal the cycle is working on
  \* RiskMonitor
  killSwitch, openTrades,
  recentTrades, \* ages of the opens registered within the hour, one a tick
  \* CircuitBreaker
  failures, openFor,
  \* the strategy the loop runs, and the delay queue of its orchestrator
  strategy, delayed,
  hashes,       \* SignalHashFilter._hashes
  \* the database
  activeStrategy, savedHashes,
  openRows,     \* OPEN trade rows of this instance id that its orders made
  manualRows,   \* those entered by hand, dry-run trades without an order
  losing,       \* its closed trades reach the daily-loss or streak limit
  \* observers
  late,         \* orders begun under an active kill switch, since the start
  missed,       \* fills of this id that register_open never saw
  durable,      \* the hashes this instance last saved
  faults

loopVars    == <<pc, nap, signal>>
riskVars    == <<killSwitch, openTrades, recentTrades>>
circuitVars == <<failures, openFor>>
stratVars   == <<strategy, delayed>>
dedupVars   == <<hashes, savedHashes, durable>>
dbVars      == <<activeStrategy, openRows, manualRows, losing>>
vars == <<loopVars, riskVars, circuitVars, stratVars, dedupVars, dbVars,
          late, missed, faults>>

Queued == [signal : Signal, waited : 0 .. MaxDelay, by : Version]
NoDelay == [signal |-> NoSignal, waited |-> 0, by |-> NoVersion]

Label == {"down", "sleep", "strategy", "delayed", "market", "decide", "risk",
          "guard", "submit", "flight", "register", "save", "manage", "exit"}
Up == pc # "down"

Entries(q) == {q[k] : k \in DOMAIN q}

\* Mutant: a deque without its maxlen.
PushUnbounded(q, h) == Append(q, h)

\* deque(maxlen=Window).append
Push(q, h) == Append(IF Len(q) < Window THEN q ELSE Tail(q), h)

Init ==
  /\ pc = "down"
  /\ nap = 0
  /\ signal = NoSignal
  /\ killSwitch = FALSE
  /\ openTrades = 0
  /\ recentTrades = {}
  /\ failures = 0
  /\ openFor = 0
  /\ strategy = NoVersion
  /\ delayed = NoDelay
  /\ hashes = <<>>
  /\ activeStrategy \in Version \cup {NoVersion}
  /\ savedHashes = <<>>
  /\ openRows = 0
  /\ manualRows = 0
  /\ losing = FALSE
  /\ late = 0
  /\ missed = 0
  /\ durable = {}
  /\ faults = 0

----------------------------------------------------------------------------
Healthy == UNCHANGED faults
Fault   == faults < MaxFaults /\ faults' = faults + 1

\* The same cycle goes on.
Goto(l) == pc' = l /\ UNCHANGED <<nap, failures, openFor>>

\* Mutant: the limit is off by one.
CanOpenTradeOffByOne ==
  /\ ~killSwitch
  /\ openTrades <= MaxConcurrent
  /\ Cardinality(recentTrades) + 1 <= MaxPerHour

\* RiskMonitor.can_open_trade of a seeded monitor.  Heat and session caps are
\* money; the daily loss can only be what the start seeded it with.
CanOpenTrade ==
  /\ ~killSwitch
  /\ openTrades < MaxConcurrent
  /\ Cardinality(recentTrades) + 1 <= MaxPerHour

\* A cycle that returns, whatever it did, is a success.
CycleReturns ==
  /\ pc' = "sleep"
  /\ nap' = Poll
  /\ signal' = NoSignal
  /\ failures' = 0
  /\ UNCHANGED <<openFor, killSwitch>>

\* An exception leaves the cycle.
CycleRaises ==
  /\ failures' = failures + 1
  /\ openFor' = IF failures + 1 >= FailureThreshold THEN Pause ELSE openFor
  /\ signal' = NoSignal
  /\ IF failures + 1 >= KillThreshold
       THEN pc' = "exit" /\ killSwitch' = TRUE /\ UNCHANGED nap
       ELSE pc' = "sleep" /\ nap' = Poll /\ UNCHANGED killSwitch

SameRisk == UNCHANGED <<openTrades, recentTrades>>

----------------------------------------------------------------------------
\* Start and end of a process.

\* seed_from_db under the id of an earlier launch (--instance-id) or under a
\* fresh one, then the guards' state from app_settings, which may not be read.
Start ==
  /\ pc = "down"
  /\ pc' = "sleep"
  /\ nap' = 0
  /\ \E sameId \in BOOLEAN :
       /\ openRows' = IF sameId THEN openRows ELSE 0
       /\ manualRows' = IF sameId THEN manualRows ELSE 0
       /\ losing' = (sameId /\ losing)
       /\ missed' = IF sameId THEN missed ELSE 0
  /\ openTrades' = openRows' + manualRows'
  /\ killSwitch' = losing'
  /\ recentTrades' = {}
  /\ failures' = 0
  /\ openFor' = 0
  /\ strategy' = NoVersion
  /\ delayed' = NoDelay
  /\ late' = 0
  /\ \/ hashes' = savedHashes /\ Healthy
     \/ hashes' = <<>> /\ Fault
  /\ UNCHANGED <<signal, activeStrategy, savedHashes, durable>>

\* save_guard_state: one settings key, a failed write is logged.
SaveGuards ==
  \/ /\ savedHashes' = hashes
     /\ durable' = Entries(hashes)
     /\ Healthy
  \/ UNCHANGED <<savedHashes, durable>> /\ Fault

\* The loop was told to stop, or stopped itself: main's finally clause.
Shutdown ==
  /\ pc \in {"sleep", "exit"}
  /\ pc' = "down"
  /\ SaveGuards
  /\ UNCHANGED <<nap, signal, riskVars, circuitVars, stratVars, dbVars>>
  /\ UNCHANGED <<hashes, late, missed>>

Crash ==
  /\ pc # "down"
  /\ Fault
  /\ pc' = "down"
  /\ signal' = NoSignal
  /\ \/ /\ missed' = IF pc = "register" THEN missed + 1 ELSE missed
        /\ UNCHANGED openRows
     \/ /\ pc = "flight"
        /\ openRows' = openRows + 1
        /\ missed' = missed + 1
  /\ UNCHANGED <<nap, riskVars, circuitVars, stratVars, dedupVars>>
  /\ UNCHANGED <<activeStrategy, manualRows, losing, late>>

----------------------------------------------------------------------------
\* One cycle.

\* The monitor refuses, or the circuit is open: the cycle returns at once.
SkipCycle ==
  /\ pc = "sleep"
  /\ nap = 0
  /\ ~CanOpenTrade \/ openFor > 0
  /\ CycleReturns
  /\ SameRisk
  /\ UNCHANGED <<stratVars, dedupVars, dbVars, late, missed, faults>>

BeginCycle ==
  /\ pc = "sleep"
  /\ nap = 0
  /\ CanOpenTrade
  /\ openFor = 0
  /\ Goto("strategy")
  /\ UNCHANGED <<signal, riskVars, stratVars, dedupVars, dbVars>>
  /\ UNCHANGED <<late, missed, faults>>

\* Mutant: the orchestrator survives a reload.
ReloadKeepsQueue ==
  /\ strategy' = activeStrategy
  /\ UNCHANGED delayed

\* _ensure_strategy_loaded: a new version, or none, drops the orchestrator and
\* with it the queue of delayed signals.
Reload ==
  /\ strategy' = activeStrategy
  /\ delayed' = IF activeStrategy = strategy /\ strategy # NoVersion
                  THEN delayed ELSE NoDelay

\* ... and the market context of the cycle is built.
LoadStrategy ==
  /\ pc = "strategy"
  /\ \/ /\ Reload
        /\ pc' = "delayed"
        /\ UNCHANGED <<nap, signal, circuitVars, killSwitch>>
        /\ Healthy
     \/ CycleRaises /\ UNCHANGED stratVars /\ Fault
  /\ SameRisk
  /\ UNCHANGED <<dedupVars, dbVars, late, missed>>

\* SignalHashFilter.is_duplicate, which remembers what it lets through.  The
\* trend that is part of the hash is missing in the loop's market context.
Duplicate(s) == s \in Entries(hashes)
Accept(s) == hashes' = Push(hashes, s) /\ UNCHANGED <<savedHashes, durable>>

\* ExecutionGuardRunner.check: a duplicate is blocked before anything is
\* recorded; what follows depends on confidences, spread and ticks.
GuardCheck(s, verdict) ==
  \/ Duplicate(s) /\ verdict = "BLOCK" /\ UNCHANGED dedupVars
  \/ ~Duplicate(s) /\ verdict \in {"BLOCK", "DELAY", "EXECUTE"} /\ Accept(s)

\* tick_delay counts this cycle, then compares.
Expired == delayed.waited + 1 > MaxDelay

\* check_delayed: nothing queued, or it has waited too long.
NothingDelayed ==
  /\ pc = "delayed"
  /\ delayed = NoDelay \/ Expired
  /\ delayed' = NoDelay
  /\ Goto("market")
  /\ UNCHANGED <<signal, strategy, riskVars, dedupVars, dbVars>>
  /\ UNCHANGED <<late, missed, faults>>

\* A delayed signal goes straight to execution, unless its freshness is gone;
\* neither the market gate nor the risk gate sees it again.
RecheckDelayed ==
  /\ pc = "delayed"
  /\ delayed # NoDelay
  /\ ~Expired
  /\ \E verdict \in {"BLOCK", "DELAY", "EXECUTE"} :
       /\ GuardCheck(delayed.signal, verdict)
       /\ delayed' = IF verdict = "DELAY"
                       THEN [delayed EXCEPT !.waited = @ + 1] ELSE NoDelay
       /\ \/ Goto("market") /\ UNCHANGED signal
          \/ /\ verdict = "EXECUTE"
             /\ Goto("submit")
             /\ signal' = delayed.signal
  /\ UNCHANGED <<strategy, riskVars, dbVars, late, missed, faults>>

\* Stage 1: the kill switch, then feed, bars and spread.
MarketGate ==
  /\ pc = "market"
  /\ \/ ~killSwitch /\ Goto("decide")
     \/ Goto("manage")
  /\ UNCHANGED <<signal, riskVars, stratVars, dedupVars, dbVars>>
  /\ UNCHANGED <<late, missed, faults>>

\* Stages 2 to 6: a signal that was constructed, allowed, not invalidated,
\* convincing and not vetoed, or none of it.
Decide ==
  /\ pc = "decide"
  /\ \/ strategy # NoVersion /\ Goto("risk") /\ signal' \in Signal
     \/ Goto("manage") /\ UNCHANGED signal
  /\ UNCHANGED <<riskVars, stratVars, dedupVars, dbVars, late, missed, faults>>

\* A hypothesis without a construction: reporting it reads an attribute the
\* loop does not have, and the cycle ends in an exception.
NoConstruction ==
  /\ pc = "decide"
  /\ strategy # NoVersion
  /\ CycleRaises
  /\ SameRisk
  /\ UNCHANGED <<stratVars, dedupVars, dbVars, late, missed, faults>>

\* Stage 7 asks the risk monitor again, then pauses, caps and correlation.
RiskGate ==
  /\ pc = "risk"
  /\ \/ CanOpenTrade /\ Goto("guard")
     \/ Goto("manage")
  /\ UNCHANGED <<signal, riskVars, stratVars, dedupVars, dbVars>>
  /\ UNCHANGED <<late, missed, faults>>

\* Stage 8, then freshness, sizing and shadow mode.
ExecutionGuard ==
  /\ pc = "guard"
  /\ \E verdict \in {"BLOCK", "DELAY", "EXECUTE"} :
       /\ GuardCheck(signal, verdict)
       /\ delayed' = IF verdict = "DELAY"
                       THEN [signal |-> signal, waited |-> 0, by |-> strategy]
                       ELSE delayed
       /\ Goto("manage") \/ (verdict = "EXECUTE" /\ Goto("submit"))
  /\ UNCHANGED <<signal, strategy, riskVars, dbVars, late, missed, faults>>

\* ExecutionOrchestrator.execute: the sizer may refuse.
Submit ==
  /\ pc = "submit"
  /\ \/ Goto("flight") /\ late' = IF killSwitch THEN late + 1 ELSE late
     \/ Goto("manage") /\ UNCHANGED late
  /\ UNCHANGED <<signal, riskVars, stratVars, dedupVars, dbVars, missed, faults>>

\* execute_market_order: filled, not filled, or an exception, which may come
\* after the trade row has become OPEN.
OrderFilled ==
  /\ pc = "flight"
  /\ openRows' = openRows + 1
  /\ Goto("register")
  /\ UNCHANGED <<signal, riskVars, stratVars, dedupVars, activeStrategy>>
  /\ UNCHANGED <<manualRows, losing, late, missed, faults>>

OrderNotFilled ==
  /\ pc = "flight"
  /\ Goto("manage")
  /\ UNCHANGED <<signal, riskVars, stratVars, dedupVars, dbVars>>
  /\ UNCHANGED <<late, missed, faults>>

OrderRaises ==
  /\ pc = "flight"
  /\ \/ openRows' = openRows + 1 /\ missed' = missed + 1
     \/ UNCHANGED <<openRows, missed>>
  /\ CycleRaises
  /\ SameRisk
  /\ UNCHANGED <<stratVars, dedupVars, activeStrategy, manualRows, losing, late>>
  /\ Fault

\* Mutant: the open is timed and not counted.
RegisterTimeOnly ==
  /\ pc = "register"
  /\ recentTrades' = recentTrades \cup {0}
  /\ Goto("save")
  /\ UNCHANGED <<signal, killSwitch, openTrades, stratVars, dedupVars, dbVars>>
  /\ UNCHANGED <<late, missed, faults>>

\* _post_fill: register_open, then the guards' state.
RegisterOpen ==
  /\ pc = "register"
  /\ openTrades' = openTrades + 1
  /\ recentTrades' = recentTrades \cup {0}
  /\ Goto("save")
  /\ UNCHANGED <<signal, killSwitch, stratVars, dedupVars, dbVars>>
  /\ UNCHANGED <<late, missed, faults>>

SaveAfterFill ==
  /\ pc = "save"
  /\ SaveGuards
  /\ Goto("manage")
  /\ UNCHANGED <<signal, riskVars, stratVars, hashes, dbVars>>
  /\ UNCHANGED <<late, missed>>

\* _reposition_open_trades may mark trades CLOSED; the monitor is not told.
Reposition ==
  /\ pc = "manage"
  /\ openRows' \in 0 .. openRows
  /\ manualRows' \in 0 .. manualRows
  /\ CycleReturns
  /\ SameRisk
  /\ UNCHANGED <<stratVars, dedupVars, activeStrategy, losing>>
  /\ UNCHANGED <<late, missed, faults>>

----------------------------------------------------------------------------
\* What happens around the loop.

\* _bg_reconcile found a critical issue, or failed.
ReconciliationTrips ==
  /\ Up
  /\ killSwitch' = TRUE
  /\ UNCHANGED <<loopVars, openTrades, recentTrades, circuitVars, stratVars>>
  /\ UNCHANGED <<dedupVars, dbVars, late, missed, faults>>

\* A strategy is activated or removed in the settings.
ActivateStrategy ==
  /\ activeStrategy' \in (Version \cup {NoVersion}) \ {activeStrategy}
  /\ UNCHANGED <<loopVars, riskVars, circuitVars, stratVars, dedupVars>>
  /\ UNCHANGED <<openRows, manualRows, losing, late, missed, faults>>

\* The web UI enters a dry-run trade under the id of the instance, live or not;
\* the monitor counts such rows when it is seeded.
ManualOpen ==
  /\ manualRows < MaxManual
  /\ manualRows' = manualRows + 1
  /\ UNCHANGED <<loopVars, riskVars, circuitVars, stratVars, dedupVars>>
  /\ UNCHANGED <<activeStrategy, openRows, losing, late, missed, faults>>

\* A trade row, whoever made it, is closed from the web UI, with its result.
ManualClose ==
  /\ \/ openRows > 0 /\ openRows' = openRows - 1 /\ UNCHANGED manualRows
     \/ manualRows > 0 /\ manualRows' = manualRows - 1 /\ UNCHANGED openRows
  /\ losing' \in BOOLEAN
  /\ UNCHANGED <<loopVars, riskVars, circuitVars, stratVars, dedupVars>>
  /\ UNCHANGED <<activeStrategy, late, missed, faults>>

\* Another instance saves its own guards under the same settings key; its
\* hashes contain its symbol and mean nothing here.
OtherInstanceSaves ==
  /\ savedHashes # <<>>
  /\ savedHashes' = <<>>
  /\ UNCHANGED <<loopVars, riskVars, circuitVars, stratVars, hashes, durable>>
  /\ UNCHANGED <<dbVars, late, missed, faults>>

\* Mutant: the times of old trades are never dropped.
AgedForever(times) == {IF a + 1 < Hour THEN a + 1 ELSE a : a \in times}

\* Trades older than an hour are dropped.
Aged(times) == {a + 1 : a \in times} \cap 0 .. Hour - 1

TimePasses ==
  /\ nap' = IF nap > 0 THEN nap - 1 ELSE 0
  /\ openFor' = IF openFor > 0 THEN openFor - 1 ELSE 0
  /\ recentTrades' = Aged(recentTrades)
  /\ losing' \in {losing, FALSE}
  /\ UNCHANGED <<pc, signal, openTrades, failures, stratVars, dedupVars>>
  /\ UNCHANGED <<activeStrategy, openRows, manualRows, late, missed, faults>>

\* Mutant: a new day clears the kill switch, as the log of the reset says.
TickClearsKillSwitch == TimePasses /\ killSwitch' \in {killSwitch, FALSE}

\* A new day makes the daily loss of the closed trades a matter of the past;
\* the kill switch stays.
Tick == TimePasses /\ UNCHANGED killSwitch

----------------------------------------------------------------------------
Cycle ==
  \/ SkipCycle \/ BeginCycle \/ LoadStrategy
  \/ NothingDelayed \/ RecheckDelayed
  \/ MarketGate \/ Decide \/ NoConstruction \/ RiskGate \/ ExecutionGuard
  \/ Submit \/ OrderFilled \/ OrderNotFilled \/ OrderRaises
  \/ RegisterOpen \/ SaveAfterFill \/ Reposition

Next ==
  \/ Start \/ Shutdown \/ Crash
  \/ Cycle
  \/ ReconciliationTrips \/ ActivateStrategy
  \/ ManualOpen \/ ManualClose \/ OtherInstanceSaves \/ Tick

Spec == Init /\ [][Next]_vars

\* asyncio resumes the loop's task whenever it can go on, and the clock runs.
FairSpec == Spec /\ WF_vars(Cycle) /\ WF_vars(Tick)

----------------------------------------------------------------------------
\* Type invariant: in particular the filter of recent signals (risk/guards.py)
\* never holds more than its window and no open is remembered for over an hour.
TypeOK ==
  /\ pc \in Label
  /\ nap \in 0 .. Poll
  /\ signal \in Signal \cup {NoSignal}
  /\ killSwitch \in BOOLEAN
  /\ openTrades \in Nat
  /\ recentTrades \subseteq 0 .. Hour - 1
  /\ failures \in 0 .. KillThreshold
  /\ openFor \in 0 .. Pause
  /\ strategy \in Version \cup {NoVersion}
  /\ delayed \in Queued \cup {NoDelay}
  /\ hashes \in Seq(Signal) /\ Len(hashes) <= Window
  /\ activeStrategy \in Version \cup {NoVersion}
  /\ savedHashes \in Seq(Signal) /\ Len(savedHashes) <= Window
  /\ openRows \in Nat
  /\ manualRows \in 0 .. MaxManual
  /\ losing \in BOOLEAN
  /\ late \in Nat
  /\ missed \in Nat
  /\ durable \subseteq Signal
  /\ faults \in 0 .. MaxFaults

\* The kill switch is tripped by another task at any moment of a cycle, and
\* nothing after the risk gate looks at it again (main.py, _bg_reconcile): the
\* cycle under way may still send its order, no later cycle does.
KillBound == late <= 1

\* max_concurrent_trades holds for the trade rows the orders made although the
\* check and the count are many awaits apart (risk/monitor.py): it is only
\* exceeded by fills that register_open never saw, one for each lost reply.
PositionsWithinCap == openRows <= MaxConcurrent + missed

\* The count the monitor decides by never falls short of the rows by more than
\* those fills and the one being registered, through restarts that read the
\* rows and closes the monitor is not told of (seed_from_db, register_open).
CountCoversRows ==
  Up => openRows <= openTrades + missed + (IF pc = "register" THEN 1 ELSE 0)

\* A signal that waits in the execution guard belongs to the strategy that is
\* loaded: a reload drops the queue (trading/loop.py, _ensure_strategy_loaded),
\* so no signal of a deactivated strategy reaches execution.
DelayedKeepsStrategy == delayed # NoDelay => delayed.by = strategy

\* A running loop whose monitor has a free slot and whose kill switch is off
\* gets through the hourly cap and the pause of the circuit breaker again, or
\* loses one of the three (risk/monitor.py, trading/circuit_breaker.py).
Tradable == Up /\ pc # "exit" /\ ~killSwitch /\ openTrades < MaxConcurrent
GateReopens == Tradable ~> (pc = "strategy" \/ ~Tradable)

----------------------------------------------------------------------------
\* The monitor's count is that of the open rows: execution_orchestrator.py
\* calls register_open "so _open_trades count stays accurate".
CountStaysAccurate == pc = "sleep" => openTrades <= openRows + manualRows

\* A start that can read the settings remembers the signals this instance
\* saved: execution_orchestrator.py saves them "so dedup / variance / drawdown
\* filters survive restarts".
GuardsSurviveRestart ==
  [][pc = "down" /\ pc' = "sleep" /\ Healthy => durable \subseteq Entries(hashes')]_vars

\* A queued signal is "retried next cycle" (docs/references/architecture.md):
\* the filter of recent signals does not hold its own queuing against it.
DelayedIsRetried ==
  pc = "delayed" /\ delayed # NoDelay => ~Duplicate(delayed.signal)
=============================================================================
