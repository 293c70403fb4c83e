------------------------ MODULE TradingCycle_proofs -------------------------
(***************************************************************************)
(* Theorems about TradingCycle, for any signals, strategy versions, caps,  *)
(* thresholds and number of faults.                                        *)
(***************************************************************************)
EXTENDS TradingCycle, TLAPS

----------------------------------------------------------------------------
\* A deque of at most Window signals is one after an append.
LEMMA PushType ==
  ASSUME NEW q \in Seq(Signal), Len(q) <= Window, NEW s \in Signal
  PROVE  Push(q, s) \in Seq(Signal) /\ Len(Push(q, s)) <= Window
<1>1. CASE Len(q) < Window
  BY <1>1, CycleAssumption DEF Push
<1>2. CASE ~(Len(q) < Window)
  <2>1. q # <<>>
    BY <1>2, CycleAssumption
  <2>2. Tail(q) \in Seq(Signal) /\ Len(Tail(q)) = Len(q) - 1
    BY <2>1
  <2> QED
    BY <1>2, <2>2 DEF Push
<1> QED
  BY <1>1, <1>2

\* The execution guard leaves the filter of recent signals well typed.
LEMMA GuardType ==
  ASSUME hashes \in Seq(Signal), Len(hashes) <= Window, durable \subseteq
        Signal,
         savedHashes \in Seq(Signal), Len(savedHashes) <= Window,
         NEW s \in Signal, NEW verdict, GuardCheck(s, verdict)
  PROVE  /\ hashes' \in Seq(Signal) /\ Len(hashes') <= Window
         /\ savedHashes' \in Seq(Signal) /\ Len(savedHashes') <= Window
         /\ durable' \subseteq Signal
BY PushType DEF GuardCheck, Accept, dedupVars

----------------------------------------------------------------------------
\* Past stage 2 a strategy is loaded and the cycle has a signal.
Loaded == pc \in {"risk", "guard"} => strategy \in Version /\ signal \in Signal

\* A loop that still runs has not reached the kill threshold.
Counting == pc \notin {"down", "exit"} => failures < KillThreshold

\* TypeOK is not inductive: what is queued is a signal of a loaded strategy,
\* and the failures are bounded because the loop ends at the threshold.
TypeInv == TypeOK /\ Loaded /\ Counting

\* The empty deque, as a start without saved guards finds it.
LEMMA EmptyType == <<>> \in Seq(Signal) /\ Len(<<>>) <= Window
BY CycleAssumption

\* An exception counts as a failure; at the threshold the loop has ended.
LEMMA RaisesType ==
  ASSUME failures \in 0 .. KillThreshold, failures < KillThreshold,
         openFor \in 0 .. Pause, nap \in 0 .. Poll, killSwitch \in BOOLEAN,
         CycleRaises
  PROVE  /\ failures' \in 0 .. KillThreshold /\ openFor' \in 0 .. Pause
         /\ nap' \in 0 .. Poll /\ killSwitch' \in BOOLEAN
         /\ pc' \in {"sleep", "exit"} /\ signal' = NoSignal
         /\ pc' # "exit" => failures' < KillThreshold
<1>1. failures' = failures + 1 /\ openFor' \in 0 .. Pause /\ signal' = NoSignal
  BY CycleAssumption DEF CycleRaises
<1>2. CASE failures + 1 >= KillThreshold
  BY <1>1, <1>2, CycleAssumption DEF CycleRaises
<1>3. CASE ~(failures + 1 >= KillThreshold)
  BY <1>1, <1>3, CycleAssumption DEF CycleRaises
<1> QED
  BY <1>2, <1>3

LEMMA TypeInit == Init => TypeInv
<1> SUFFICES ASSUME Init PROVE TypeInv
  OBVIOUS
<1>1. hashes \in Seq(Signal) /\ Len(hashes) <= Window
  BY EmptyType DEF Init
<1>2. savedHashes \in Seq(Signal) /\ Len(savedHashes) <= Window
  BY EmptyType DEF Init
<1>3. /\ pc \in Label /\ nap \in 0 .. Poll /\ signal \in Signal \cup {NoSignal}
      /\ strategy \in Version \cup {NoVersion} /\ delayed \in Queued \cup {NoDelay}
      /\ activeStrategy \in Version \cup {NoVersion}
  BY CycleAssumption DEF Init, Label
<1>4. /\ killSwitch \in BOOLEAN /\ losing \in BOOLEAN
      /\ recentTrades \subseteq 0 .. Hour - 1 /\ durable \subseteq Signal
  BY DEF Init
<1>5. /\ openTrades \in Nat /\ openRows \in Nat /\ late \in Nat /\ missed \in Nat
      /\ manualRows \in 0 .. MaxManual
      /\ failures \in 0 .. KillThreshold /\ openFor \in 0 .. Pause
      /\ faults \in 0 .. MaxFaults
  BY CycleAssumption DEF Init
<1>6. Loaded /\ Counting
  BY DEF Init, Loaded, Counting
<1> QED
  BY <1>1, <1>2, <1>3, <1>4, <1>5, <1>6 DEF TypeInv, TypeOK

\* A signal that may wait once more has not waited too long.
LEMMA WaitType ==
  ASSUME NEW d \in Queued, ~(d.waited + 1 > MaxDelay)
  PROVE  [d EXCEPT !.waited = @ + 1] \in Queued
BY CycleAssumption DEF Queued

LEMMA TypeNext == TypeInv /\ [Next]_vars => TypeInv'
<1> SUFFICES ASSUME TypeInv, [Next]_vars PROVE TypeInv'
  OBVIOUS
<1> USE CycleAssumption DEF TypeInv, TypeOK, Loaded, Counting, Label, Goto,
      Healthy, Fault,
        loopVars, riskVars, circuitVars, stratVars, dedupVars, dbVars
<1>1. CASE Start
  <2>1. hashes' \in Seq(Signal) /\ Len(hashes') <= Window
    BY <1>1, EmptyType DEF Start
  <2>2. /\ openRows' \in Nat /\ losing' \in BOOLEAN /\ missed' \in Nat
        /\ manualRows' \in 0 .. MaxManual
    BY <1>1 DEF Start
  <2>3. openTrades' \in Nat /\ killSwitch' \in BOOLEAN
    BY <1>1, <2>2 DEF Start
  <2> QED
    BY <1>1, <2>1, <2>2, <2>3 DEF Start, Queued, NoDelay
<1>2. CASE Shutdown
  BY <1>2 DEF Shutdown, SaveGuards, Entries
<1>3. CASE Crash
  BY <1>3 DEF Crash
<1>4. CASE SkipCycle
  BY <1>4 DEF SkipCycle, CycleReturns, SameRisk
<1>5. CASE BeginCycle
  BY <1>5 DEF BeginCycle
<1>6. CASE LoadStrategy
  <2>1. strategy' \in Version \cup {NoVersion}
    BY <1>6 DEF LoadStrategy, Reload, stratVars
  <2>2. delayed' \in Queued \cup {NoDelay}
    BY <1>6 DEF LoadStrategy, Reload, stratVars
  <2>3. /\ failures' \in 0 .. KillThreshold /\ openFor' \in 0 .. Pause
        /\ nap' \in 0 .. Poll /\ killSwitch' \in BOOLEAN
        /\ pc' \in {"delayed", "sleep", "exit"}
        /\ signal' \in Signal \cup {NoSignal} /\ Counting'
    BY <1>6, RaisesType DEF LoadStrategy, circuitVars
  <2> QED
    BY <1>6, <2>1, <2>2, <2>3 DEF LoadStrategy, SameRisk, dedupVars, dbVars
<1>7. CASE NothingDelayed
  BY <1>7 DEF NothingDelayed
<1>8. CASE RecheckDelayed
  <2>1. delayed \in Queued
    BY <1>8 DEF RecheckDelayed
  <2>2. [delayed EXCEPT !.waited = @ + 1] \in Queued
    BY <1>8, <2>1, WaitType DEF RecheckDelayed, Expired
  <2>3. delayed' \in Queued \cup {NoDelay}
    BY <1>8, <2>2 DEF RecheckDelayed
  <2>4. /\ hashes' \in Seq(Signal) /\ Len(hashes') <= Window
        /\ savedHashes' \in Seq(Signal) /\ Len(savedHashes') <= Window
        /\ durable' \subseteq Signal
    BY <1>8, <2>1, GuardType DEF RecheckDelayed, Queued
  <2>5. signal' \in Signal \cup {NoSignal} /\ pc' \in {"market", "submit"}
    BY <1>8, <2>1 DEF RecheckDelayed, Queued
  <2> QED
    BY <1>8, <2>3, <2>4, <2>5 DEF RecheckDelayed, riskVars, dbVars
<1>9. CASE MarketGate
  BY <1>9 DEF MarketGate
<1>10. CASE Decide
  BY <1>10 DEF Decide
<1>11. CASE NoConstruction
  BY <1>11, RaisesType
  DEF NoConstruction, SameRisk, stratVars, dedupVars, dbVars
<1>12. CASE RiskGate
  BY <1>12 DEF RiskGate
<1>13. CASE ExecutionGuard
  <2>1. signal \in Signal /\ strategy \in Version /\ pc' \in {"manage", "submit"}
    BY <1>13 DEF ExecutionGuard
  <2>2. /\ hashes' \in Seq(Signal) /\ Len(hashes') <= Window
        /\ savedHashes' \in Seq(Signal) /\ Len(savedHashes') <= Window
        /\ durable' \subseteq Signal
    BY <1>13, <2>1, GuardType DEF ExecutionGuard
  <2>3. delayed' \in Queued \cup {NoDelay}
    BY <1>13, <2>1 DEF ExecutionGuard, Queued
  <2> QED
    BY <1>13, <2>1, <2>2, <2>3 DEF ExecutionGuard
<1>14. CASE Submit
  <2>1. late' \in Nat /\ pc' \in {"flight", "manage"}
    BY <1>14 DEF Submit
  <2> QED
    BY <1>14, <2>1 DEF Submit
<1>15. CASE OrderFilled
  BY <1>15 DEF OrderFilled
<1>16. CASE OrderNotFilled
  BY <1>16 DEF OrderNotFilled
<1>17. CASE OrderRaises
  <2>1. openRows' \in Nat /\ missed' \in Nat
    BY <1>17 DEF OrderRaises
  <2> QED
    BY <1>17, <2>1, RaisesType DEF OrderRaises, SameRisk, stratVars, dedupVars
<1>18. CASE RegisterOpen
  BY <1>18 DEF RegisterOpen
<1>19. CASE SaveAfterFill
  BY <1>19 DEF SaveAfterFill, SaveGuards, Entries
<1>20. CASE Reposition
  BY <1>20 DEF Reposition, CycleReturns, SameRisk
<1>21. CASE ReconciliationTrips
  BY <1>21 DEF ReconciliationTrips
<1>22. CASE ActivateStrategy
  BY <1>22 DEF ActivateStrategy
<1>23. CASE ManualOpen
  BY <1>23 DEF ManualOpen
<1>24. CASE ManualClose
  BY <1>24 DEF ManualClose
<1>25. CASE OtherInstanceSaves
  BY <1>25 DEF OtherInstanceSaves
<1>26. CASE Tick
  <2>1. nap' \in 0 .. Poll /\ openFor' \in 0 .. Pause
    BY <1>26 DEF Tick, TimePasses
  <2>3. losing' \in BOOLEAN
    BY <1>26, Zenon DEF Tick, TimePasses
  <2>2. recentTrades' \subseteq 0 .. Hour - 1
    BY <1>26 DEF Tick, TimePasses, Aged
  <2> QED
    BY <1>26, <2>1, <2>2, <2>3 DEF Tick, TimePasses, stratVars, dedupVars
<1>27. CASE UNCHANGED vars
  BY <1>27 DEF vars
<1> QED
  BY <1>1, <1>2, <1>3, <1>4, <1>5, <1>6, <1>7, <1>8, <1>9, <1>10, <1>11, <1>12,
        <1>13, <1>14, <1>15, <1>16, <1>17, <1>18, <1>19, <1>20, <1>21, <1>22,
        <1>23, <1>24, <1>25, <1>26, <1>27 DEF Next, Cycle

\* Every variable of the loop stays in its domain.
THEOREM TypeCorrect == Spec => []TypeOK
<1>1. Init => TypeInv
  BY TypeInit
<1>2. TypeInv /\ [Next]_vars => TypeInv'
  BY TypeNext
<1>3. TypeInv => TypeOK
  BY DEF TypeInv
<1> QED
  BY <1>1, <1>2, <1>3, PTL DEF Spec

LEMMA TypeAlways == Spec => []TypeInv
BY TypeInit, TypeNext, PTL DEF Spec

----------------------------------------------------------------------------
\* From the check at the start of a cycle to the count of its fill.
InCycle == {"strategy", "delayed", "market", "decide", "risk", "guard",
            "submit", "flight", "register"}

\* What the cycle found when it began is still so: only it takes slots.
SlotFree == pc \in InCycle => openTrades < MaxConcurrent

\* The cap on the rows is not inductive: the rows are bounded by the count,
\* the count by the check, and the check holds until the fill is counted.
SlotInv == PositionsWithinCap /\ CountCoversRows /\ SlotFree

LEMMA SlotInit == Init => SlotInv
BY CycleAssumption
DEF Init, SlotInv, PositionsWithinCap, CountCoversRows, SlotFree,
    InCycle, Up

LEMMA SlotNext == TypeOK /\ SlotInv /\ [Next]_vars => SlotInv'
<1> SUFFICES ASSUME TypeOK, SlotInv, [Next]_vars PROVE SlotInv'
  OBVIOUS
<1>t. /\ openTrades \in Nat /\ openRows \in Nat /\ missed \in Nat
      /\ manualRows \in Nat
      /\ MaxConcurrent \in Nat
  BY CycleAssumption DEF TypeOK
<1>f. PositionsWithinCap /\ CountCoversRows /\ SlotFree
  BY DEF SlotInv
<1> USE <1>t, <1>f
    DEF PositionsWithinCap, CountCoversRows, SlotFree, InCycle,
        Up, Goto, loopVars, riskVars, circuitVars, stratVars, dedupVars, dbVars
<1>1. Start => SlotInv'
  BY DEF Start, SlotInv
<1>2. Shutdown => SlotInv'
  BY DEF Shutdown, SlotInv
<1>3. Crash => SlotInv'
  BY DEF Crash, SlotInv
<1>4. SkipCycle => SlotInv'
  BY DEF SkipCycle, CycleReturns, SameRisk, SlotInv
<1>5. BeginCycle => SlotInv'
  BY DEF BeginCycle, CanOpenTrade, SlotInv
<1>6. LoadStrategy => SlotInv'
  BY DEF LoadStrategy, CycleRaises, SameRisk, SlotInv
<1>7. NothingDelayed => SlotInv'
  BY DEF NothingDelayed, SlotInv
<1>8. RecheckDelayed => SlotInv'
  BY DEF RecheckDelayed, SlotInv
<1>9. MarketGate => SlotInv'
  BY DEF MarketGate, SlotInv
<1>10. Decide => SlotInv'
  BY DEF Decide, SlotInv
<1>11. NoConstruction => SlotInv'
  BY DEF NoConstruction, CycleRaises, SameRisk, SlotInv
<1>12. RiskGate => SlotInv'
  BY DEF RiskGate, SlotInv
<1>13. ExecutionGuard => SlotInv'
  BY DEF ExecutionGuard, SlotInv
<1>14. Submit => SlotInv'
  BY DEF Submit, SlotInv
<1>15. OrderFilled => SlotInv'
  BY DEF OrderFilled, SlotInv
<1>16. OrderNotFilled => SlotInv'
  BY DEF OrderNotFilled, SlotInv
<1>17. OrderRaises => SlotInv'
  BY DEF OrderRaises, CycleRaises, SameRisk, SlotInv
<1>18. RegisterOpen => SlotInv'
  BY DEF RegisterOpen, SlotInv
<1>19. SaveAfterFill => SlotInv'
  BY DEF SaveAfterFill, SlotInv
<1>20. Reposition => SlotInv'
  BY DEF Reposition, CycleReturns, SameRisk, SlotInv
<1>21. ReconciliationTrips => SlotInv'
  BY DEF ReconciliationTrips, SlotInv
<1>22. ActivateStrategy => SlotInv'
  BY DEF ActivateStrategy, SlotInv
<1>23. ManualOpen => SlotInv'
  BY DEF ManualOpen, SlotInv
<1>24. ManualClose => SlotInv'
  BY DEF ManualClose, SlotInv
<1>25. OtherInstanceSaves => SlotInv'
  BY DEF OtherInstanceSaves, SlotInv
<1>26. Tick => SlotInv'
  BY DEF Tick, TimePasses, SlotInv
<1>27. UNCHANGED vars => SlotInv'
  BY DEF vars, SlotInv
<1> QED
  BY <1>1, <1>2, <1>3, <1>4, <1>5, <1>6, <1>7, <1>8, <1>9, <1>10, <1>11, <1>12,
        <1>13, <1>14, <1>15, <1>16, <1>17, <1>18, <1>19, <1>20, <1>21, <1>22,
        <1>23, <1>24, <1>25, <1>26, <1>27 DEF Next, Cycle

\* max_concurrent_trades bounds the open rows of the instance, whatever is lost,
\* closed behind its back or restarted, but for the fills it never heard of.
THEOREM SlotsBounded == Spec => []PositionsWithinCap
<1>1. Spec => []SlotInv
  BY SlotInit, SlotNext, TypeCorrect, PTL DEF Spec
<1>2. SlotInv => PositionsWithinCap
  BY DEF SlotInv
<1> QED
  BY <1>1, <1>2, PTL

\* The monitor's count covers the open rows of its instance.
THEOREM CountCovers == Spec => []CountCoversRows
<1>1. Spec => []SlotInv
  BY SlotInit, SlotNext, TypeCorrect, PTL DEF Spec
<1>2. SlotInv => CountCoversRows
  BY DEF SlotInv
<1> QED
  BY <1>1, <1>2, PTL

----------------------------------------------------------------------------
\* Once an order was begun under the kill switch, the switch stays on and the
\* loop never again gets between the monitor's check and an order.
LateInv ==
  /\ late \in {0, 1}
  /\ Up /\ late = 1 =>
       killSwitch /\ pc \in {"sleep", "flight", "register", "save", "manage",
             "exit"}

LEMMA LateInit == Init => LateInv
BY DEF Init, LateInv, Up

LEMMA LateNext == LateInv /\ [Next]_vars => LateInv'
<1> SUFFICES ASSUME LateInv, [Next]_vars PROVE LateInv'
  OBVIOUS
<1> USE DEF LateInv, Up, Goto, loopVars, riskVars, circuitVars, stratVars,
            dedupVars, dbVars
<1>1. CASE Start
  BY <1>1 DEF Start
<1>2. CASE Shutdown
  BY <1>2 DEF Shutdown
<1>3. CASE Crash
  BY <1>3 DEF Crash
<1>4. CASE SkipCycle
  BY <1>4 DEF SkipCycle, CycleReturns, SameRisk
<1>5. CASE BeginCycle
  BY <1>5 DEF BeginCycle, CanOpenTrade
<1>6. CASE LoadStrategy
  BY <1>6 DEF LoadStrategy, CycleRaises, SameRisk
<1>7. CASE NothingDelayed
  BY <1>7 DEF NothingDelayed
<1>8. CASE RecheckDelayed
  BY <1>8 DEF RecheckDelayed
<1>9. CASE MarketGate
  BY <1>9 DEF MarketGate
<1>10. CASE Decide
  BY <1>10 DEF Decide
<1>11. CASE NoConstruction
  BY <1>11 DEF NoConstruction, CycleRaises, SameRisk
<1>12. CASE RiskGate
  BY <1>12 DEF RiskGate
<1>13. CASE ExecutionGuard
  BY <1>13 DEF ExecutionGuard
<1>14. CASE Submit
  BY <1>14 DEF Submit
<1>15. CASE OrderFilled
  BY <1>15 DEF OrderFilled
<1>16. CASE OrderNotFilled
  BY <1>16 DEF OrderNotFilled
<1>17. CASE OrderRaises
  BY <1>17 DEF OrderRaises, CycleRaises, SameRisk
<1>18. CASE RegisterOpen
  BY <1>18 DEF RegisterOpen
<1>19. CASE SaveAfterFill
  BY <1>19 DEF SaveAfterFill
<1>20. CASE Reposition
  BY <1>20 DEF Reposition, CycleReturns, SameRisk
<1>21. CASE ReconciliationTrips
  BY <1>21 DEF ReconciliationTrips
<1>22. CASE ActivateStrategy
  BY <1>22 DEF ActivateStrategy
<1>23. CASE ManualOpen
  BY <1>23 DEF ManualOpen
<1>24. CASE ManualClose
  BY <1>24 DEF ManualClose
<1>25. CASE OtherInstanceSaves
  BY <1>25 DEF OtherInstanceSaves
<1>26. CASE Tick
  BY <1>26 DEF Tick, TimePasses
<1>27. CASE UNCHANGED vars
  BY <1>27 DEF vars
<1> QED
  BY <1>1, <1>2, <1>3, <1>4, <1>5, <1>6, <1>7, <1>8, <1>9, <1>10, <1>11, <1>12,
        <1>13, <1>14, <1>15, <1>16, <1>17, <1>18, <1>19, <1>20, <1>21, <1>22,
        <1>23, <1>24, <1>25, <1>26, <1>27 DEF Next, Cycle

\* However the background task and the cycle interleave, at most one order is
\* begun under an active kill switch before the process ends.
THEOREM KillBounded == Spec => []KillBound
<1>1. Spec => []LateInv
  BY LateInit, LateNext, PTL DEF Spec
<1>2. LateInv => KillBound
  BY DEF LateInv, KillBound
<1> QED
  BY <1>1, <1>2, PTL

----------------------------------------------------------------------------
LEMMA QueueNext == TypeInv /\ DelayedKeepsStrategy /\ [Next]_vars => DelayedKeepsStrategy'
<1> SUFFICES ASSUME TypeInv, DelayedKeepsStrategy, [Next]_vars
             PROVE  DelayedKeepsStrategy'
  OBVIOUS
<1>1. CASE Start
  BY <1>1 DEF Start, DelayedKeepsStrategy
<1>2. CASE LoadStrategy
  BY <1>2 DEF LoadStrategy, Reload, stratVars, DelayedKeepsStrategy
<1>3. CASE NothingDelayed
  BY <1>3 DEF NothingDelayed, DelayedKeepsStrategy
<1>4. CASE RecheckDelayed
  <2>1. delayed \in Queued
    BY <1>4 DEF RecheckDelayed, TypeInv, TypeOK
  <2>2. [delayed EXCEPT !.waited = @ + 1].by = delayed.by
    BY <2>1 DEF Queued
  <2>3. delayed' = [delayed EXCEPT !.waited = @ + 1] \/ delayed' = NoDelay
    BY <1>4 DEF RecheckDelayed
  <2> QED
    BY <1>4, <2>2, <2>3 DEF RecheckDelayed, DelayedKeepsStrategy
<1>5. CASE ExecutionGuard
  BY <1>5 DEF ExecutionGuard, DelayedKeepsStrategy
<1>6. CASE UNCHANGED stratVars
  BY <1>6 DEF stratVars, DelayedKeepsStrategy
<1>7. Next => \/ Start \/ LoadStrategy \/ NothingDelayed \/ RecheckDelayed
              \/ ExecutionGuard \/ UNCHANGED stratVars
  BY DEF Next, Cycle, Shutdown, Crash, SkipCycle, BeginCycle, MarketGate,
        Decide, NoConstruction, RiskGate, Submit, OrderFilled, OrderNotFilled,
        OrderRaises, RegisterOpen, SaveAfterFill, Reposition,
        ReconciliationTrips, ActivateStrategy, ManualOpen, ManualClose,
        OtherInstanceSaves, Tick, TimePasses, stratVars
<1>8. UNCHANGED vars => UNCHANGED stratVars
  BY DEF vars, stratVars
<1> QED
  BY <1>1, <1>2, <1>3, <1>4, <1>5, <1>6, <1>7, <1>8

\* No signal of a strategy that was replaced waits for execution.
THEOREM QueueFollowsStrategy == Spec => []DelayedKeepsStrategy
<1>1. Init => DelayedKeepsStrategy
  BY DEF Init, DelayedKeepsStrategy
<1> QED
  BY <1>1, QueueNext, TypeAlways, PTL DEF Spec
=============================================================================
