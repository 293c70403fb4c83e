----------------------------- MODULE SignalRules -----------------------------
(***************************************************************************)
(* The algorithmic signal (signals/algorithmic.py, conditions.py).  The    *)
(* live AlgorithmicSignalEngine is asked once in every cycle that reaches  *)
(* the signal stage and remembers the readings of its last call; a         *)
(* backtest calls the stateless compute_direction with the readings of the *)
(* previous bar; the signal function of the optimiser, the seed lab and    *)
(* the comparison (backtester/runner.py) indexes whole price arrays.  The  *)
(* dispatch on the rules is written out three times.                       *)
(*                                                                         *)
(* A bar is a record of readings, bar.missing the names of those that are  *)
(* None.  Oscillators are in points, %B in percent, confidences in 1/1000. *)
(***************************************************************************)
EXTENDS Integers, Sequences, FiniteSets

CONSTANTS SignalBars,   \* bars that may follow one another
          RuleSets,     \* sequences of signal sources a strategy may configure
          Logics        \* subset of {"AND", "OR", "MAJORITY"}; anything else counts as "AND"

Sources == {"ema_crossover", "macd_crossover", "rsi_reversal", "bollinger_breakout",
            "adx_trend", "bos_confirm"}

ReadingBars ==
    [missing : SUBSET {"ema", "macd", "rsi", "pctB", "adx", "atr"},
     fast : Int, slow : Int, macd : Int, rsi : Int, pctB : Int, adx : Int,
     plusDI : Int, minusDI : Int, price : Int, high : Int, low : Int]

ASSUME SignalAssumption ==
    /\ RuleSets \subseteq Seq(Sources) /\ SignalBars \subseteq ReadingBars
    /\ SignalBars # {} /\ RuleSets # {} /\ Logics # {}

VARIABLES
    config,    \* [rules, logic] of the active strategy
    memory,    \* _prev_* of the live engine
    last,      \* the bar before the current one
    answer,    \* what the live engine answered on the current bar
    backtest,  \* what compute_direction answers on the two bars
    offline,   \* the direction that make_signal_fn finds on the two bars
    streak     \* ghost: bars in a row that the engine saw in full, 2 at most
signalVars == <<config, memory, last, answer, backtest, offline, streak>>

-----------------------------------------------------------------------------
(* conditions.py: each check answers [bull, bear] *)

Verdict(bull, bear) == [bull |-> bull, bear |-> bear]
NoVerdict == Verdict(FALSE, FALSE)

RSIHigh == 70
RSILow == 30

EMACrossover(prev, bar) ==
    Verdict(bar.fast > bar.slow /\ prev.fast <= prev.slow /\ bar.rsi < RSIHigh,
            bar.fast < bar.slow /\ prev.fast >= prev.slow /\ bar.rsi > RSILow)
MACDCrossover(prev, bar) == Verdict(bar.macd > 0 /\ prev.macd <= 0, bar.macd < 0 /\ prev.macd >= 0)
RSIReversal(prev, bar) ==
    Verdict(bar.rsi > RSILow /\ prev.rsi <= RSILow, bar.rsi < RSIHigh /\ prev.rsi >= RSIHigh)
Bollinger(bar) == Verdict(bar.pctB <= 20, bar.pctB >= 80)
ADXTrend(bar) == Verdict(bar.adx > 20 /\ bar.plusDI > bar.minusDI, bar.adx > 20 /\ bar.minusDI > bar.plusDI)
Break(bar) == Verdict(bar.price > bar.high, bar.price < bar.low)

\* The verdicts of the rules that vote, by their place in the strategy.
Combine(verdicts, logic) ==
    LET n == Cardinality(DOMAIN verdicts)
        bulls == Cardinality({i \in DOMAIN verdicts : verdicts[i].bull})
        bears == Cardinality({i \in DOMAIN verdicts : verdicts[i].bear})
    IN  CASE logic = "OR" -> Verdict(bulls > 0, bears > 0)
          [] logic = "MAJORITY" -> Verdict(2 * bulls > n, 2 * bears > n)
          [] OTHER -> Verdict(bulls = n, bears = n)

-----------------------------------------------------------------------------
NoSignalYet == [direction |-> "none"]

\* Of two directions that both hold, the bullish one wins.
Decide(verdicts, logic, bar) ==
    LET both == Combine(verdicts, logic)
        winning == {i \in DOMAIN verdicts : IF both.bull THEN verdicts[i].bull ELSE verdicts[i].bear}
        distance == IF bar.rsi < 50 THEN 50 - bar.rsi ELSE bar.rsi - 50
        momentum == IF "rsi" \in bar.missing THEN 0 ELSE (distance * 80) \div 50
        confidence == 550 + (Cardinality(winning) * 250) \div Cardinality(DOMAIN verdicts) + momentum
    IN  IF DOMAIN verdicts = {} \/ both = NoVerdict THEN NoSignalYet
        ELSE [direction |-> IF both.bull THEN "BUY" ELSE "SELL",
              confidence |-> IF confidence > 900 THEN 900 ELSE confidence]

\* The readings a rule needs of the bar, and of the bar before it.
Needs == [ema_crossover |-> {"ema", "rsi"}, macd_crossover |-> {"macd"}, rsi_reversal |-> {"rsi"},
          bollinger_breakout |-> {"pctB"}, adx_trend |-> {"adx"}, bos_confirm |-> {}]
Past == [ema_crossover |-> {"ema"}, macd_crossover |-> {"macd"}, rsi_reversal |-> {"rsi"},
         bollinger_breakout |-> {}, adx_trend |-> {}, bos_confirm |-> {}]

Judge(source, prev, bar) ==
    CASE source = "ema_crossover" -> EMACrossover(prev, bar)
      [] source = "macd_crossover" -> MACDCrossover(prev, bar)
      [] source = "rsi_reversal" -> RSIReversal(prev, bar)
      [] source = "bollinger_breakout" -> Bollinger(bar)
      [] source = "adx_trend" -> ADXTrend(bar)
      [] source = "bos_confirm" -> Break(bar)

\* compute_direction, as vbt_engine calls it: what compute_adx returns are numbers and not
\* series, and bollinger returns no series of %B, so a backtest never has these readings.
SilentInBacktest == {"adx_trend", "bollinger_breakout"}
ComputeDirection(rules, logic, prev, bar) ==
    LET Known(s) == /\ s \notin SilentInBacktest
                    /\ Needs[s] \cap bar.missing = {} /\ Past[s] \cap prev.missing = {}
        known == {i \in DOMAIN rules : Known(rules[i])}
    IN  Decide([i \in known |-> Judge(rules[i], prev, bar)], logic, bar)

\* make_signal_fn, before its filters (module BacktestFilters): without the averages it
\* finds nothing; a missing RSI compares as false and its rule still counts.
SignalFn(rules, logic, prev, bar) ==
    LET Missing(s) == (Needs[s] \cap bar.missing) \cup (Past[s] \cap prev.missing)
        Votes(s) == s \in {"ema_crossover", "rsi_reversal"} \/ Missing(s) = {}
        voting == {i \in DOMAIN rules : Votes(rules[i])}
        both == Combine([i \in voting |-> IF Missing(rules[i]) = {}
                             THEN Judge(rules[i], prev, bar) ELSE NoVerdict], logic)
    IN  IF "ema" \in bar.missing \/ voting = {} \/ both = NoVerdict THEN "none"
        ELSE IF both.bull THEN "BUY" ELSE "SELL"

\* generate_hypothesis and generate_signal: a rule without a past seeds it, so that a
\* second rule of its kind compares the bar with itself.  The swing levels are read
\* under keys that the loop does not write (last_swing_high, last_swing_low).
Recalled(rules, i, prev, bar) ==
    IF Past[rules[i]] \cap prev.missing # {} /\ \E j \in 1 .. i - 1 : rules[j] = rules[i]
    THEN bar ELSE prev

LiveVerdict(rules, i, prev, bar) ==
    IF rules[i] = "bos_confirm" THEN NoVerdict
    ELSE Judge(rules[i], Recalled(rules, i, prev, bar), bar)

GenerateHypothesis(rules, logic, prev, bar) ==
    LET Known(i) == /\ Needs[rules[i]] \cap bar.missing = {}
                    /\ Past[rules[i]] \cap Recalled(rules, i, prev, bar).missing = {}
        known == {i \in DOMAIN rules : Known(i)}
    IN  Decide([i \in known |-> LiveVerdict(rules, i, prev, bar)], logic, bar)

\* Mutant: a reading is remembered once.
RememberFirst(prev, bar) ==
    [prev EXCEPT !.missing = @ \cap bar.missing,
                 !.fast = IF "ema" \in prev.missing THEN bar.fast ELSE @,
                 !.slow = IF "ema" \in prev.missing THEN bar.slow ELSE @,
                 !.macd = IF "macd" \in prev.missing THEN bar.macd ELSE @,
                 !.rsi = IF "rsi" \in prev.missing THEN bar.rsi ELSE @]

\* Every reading that the bar has replaces the remembered one.
Remember(prev, bar) ==
    [prev EXCEPT !.missing = @ \cap bar.missing,
                 !.fast = IF "ema" \in bar.missing THEN @ ELSE bar.fast,
                 !.slow = IF "ema" \in bar.missing THEN @ ELSE bar.slow,
                 !.macd = IF "macd" \in bar.missing THEN @ ELSE bar.macd,
                 !.rsi = IF "rsi" \in bar.missing THEN @ ELSE bar.rsi]

-----------------------------------------------------------------------------
AnyBar == CHOOSE b \in SignalBars : TRUE
Blank == [AnyBar EXCEPT !.missing = {"ema", "macd", "rsi", "pctB", "adx"}]
AnyConfig == [rules |-> CHOOSE r \in RuleSets : TRUE, logic |-> CHOOSE l \in Logics : TRUE]

SignalInit ==
    /\ config = AnyConfig /\ memory = Blank /\ last = Blank
    /\ answer = NoSignalYet /\ backtest = NoSignalYet /\ offline = "none" /\ streak = 0

\* A cycle reaches the signal stage.  Without a price or an ATR the engine returns
\* before it remembers anything.
AskEngine ==
    \E bar \in SignalBars :
        /\ last' = bar
        /\ IF "atr" \in bar.missing
           THEN answer' = NoSignalYet /\ UNCHANGED memory
           ELSE /\ answer' = GenerateHypothesis(config.rules, config.logic, memory, bar)
                /\ memory' = Remember(memory, bar)
        /\ backtest' = ComputeDirection(config.rules, config.logic, last, bar)
        /\ offline' = SignalFn(config.rules, config.logic, last, bar)
        /\ streak' = IF bar.missing # {} THEN 0 ELSE IF streak = 2 THEN 2 ELSE streak + 1
        /\ UNCHANGED config

\* An earlier stage ends the cycle: the bar passes and the engine never sees it.
SkipEngine ==
    /\ \E bar \in SignalBars : last' = bar
    /\ answer' = NoSignalYet /\ backtest' = NoSignalYet /\ offline' = "none" /\ streak' = 0
    /\ UNCHANGED <<config, memory>>

\* _ensure_strategy_loaded: a new engine that inherits the averages, whatever their
\* periods were, and nothing else.
ReplaceEngine ==
    /\ \E rules \in RuleSets, logic \in Logics : config' = [rules |-> rules, logic |-> logic]
    /\ memory' = [memory EXCEPT !.missing = @ \cup {"macd", "rsi"}]
    /\ answer' = NoSignalYet /\ backtest' = NoSignalYet /\ offline' = "none" /\ streak' = 0
    /\ UNCHANGED last

SignalNext == AskEngine \/ SkipEngine \/ ReplaceEngine
SignalSpec == SignalInit /\ [][SignalNext]_signalVars

-----------------------------------------------------------------------------
\* vbt_engine.py:5 promises direction hypotheses "same as AlgorithmicSignalEngine",
\* algorithmic.py:4 the "same algorithm as backtest make_signal_fn()".  From its second
\* complete bar in a row an engine answers what the backtest of the same strategy
\* answers on these two bars, direction and confidence, and the direction of the
\* signal function, whatever it remembered before, and after any change of strategy,
\* unless a rule confirms breaks, which live trading never sees.  The promise of
\* vbt_engine.py fails for the rules that never vote there, adx_trend and
\* bollinger_breakout; the one of algorithmic.py holds for them.  (A skipped or
\* incomplete bar breaks both: the engine then compares with an older bar.)
Uses(source) == \E i \in DOMAIN config.rules : config.rules[i] = source
SignalParity ==
    streak = 2 /\ ~Uses("bos_confirm") =>
        /\ answer.direction = offline
        /\ answer = backtest \/ \E s \in SilentInBacktest : Uses(s)
===============================================================================
