------------------------------ MODULE MCPlatform ------------------------------
(***************************************************************************)
(* Small instances of the modules beside the order path: the readings and  *)
(* the decision of a cycle and what it learns, its news, the stops of open *)
(* trades, the backtest engines and jobs, a strategy record and the files  *)
(* of all of them, and the risk lock.  The modules share no variable; a    *)
(* behaviour runs the part that Init chose, and the others rest in an      *)
(* initial state.                                                          *)
(***************************************************************************)
EXTENDS BacktestFilters, MarketStructure, SignalRules, LearnedState, AiSignals, StopManagement,
        BacktestSim, StrategySpec, StrategyLifecycle, BacktestJobs, RiskLock, NewsCalendar

VARIABLE part

Calm ==
    [missing |-> {}, ask |-> 10010, bid |-> 10000, atr |-> 100,
     ema200 |-> 9900, alma |-> 9950, emaFast |-> 10000, emaSlow |-> 9960, vwap |-> 9950,
     macd |-> 20, pctB |-> 60, bandWidth |-> 300, adx |-> 60, plusDI |-> 0, minusDI |-> 0, rsi |-> 60,
     volume |-> 160, swing |-> "bullish", tickJump |-> 20, liq |-> [range |-> 100, body |-> 60],
     bos |-> [bullish |-> TRUE, bearish |-> FALSE, bullBreak |-> 40, bearBreak |-> 0],
     fvg |-> [bullish |-> <<[bottom |-> 9900, top |-> 9930, size |-> 30]>>,
              bearish |-> <<[bottom |-> 10070, top |-> 10100, size |-> 20]>>],
     ff |-> [up |-> FALSE, down |-> FALSE, score |-> 10, roc |-> 0, upper |-> 10, lower |-> -10],
     trendilo |-> [slope |-> "up", strength |-> 40], ci |-> 300, atrPct |-> 1000,
     session |-> [weekend |-> FALSE, score |-> 80, minimum |-> 70], crypto |-> FALSE, news |-> {},
     dxy |-> [bias |-> "neutral", strength |-> 0, block |-> ""],
     sentiment |-> [bias |-> "neutral", confidence |-> 0],
     risk |-> [canOpen |-> TRUE, kill |-> FALSE, used |-> 10], open |-> <<>>,
     swingLows |-> {}, swingHighs |-> {}, kill |-> FALSE, age |-> 10, bars |-> 300, medianSpread |-> 8]

Falling == [Calm EXCEPT !.ema200 = 10100, !.emaFast = 9960, !.emaSlow = 10000, !.macd = -20, !.pctB = 40,
               !.rsi = 40, !.swing = "bearish", !.bos = [bullish |-> FALSE, bearish |-> TRUE, bullBreak |-> 0,
               bearBreak |-> 40], !.trendilo.slope = "down"]

MCMarkets ==
    {Calm, Falling}
    \cup {[Calm EXCEPT !.missing = x] : x \in {{"ema200", "bos"}, {"fvg", "pctB"}, {"swing", "open"}, {"news"}}}
    \cup {[Calm EXCEPT !.ema200 = x] : x \in {10000, 10005, 10010, 10020, 10100}}
    \cup {[Falling EXCEPT !.ema200 = x] : x \in {9990, 10000, 9900}}
    \cup {[Calm EXCEPT !.vwap = x] : x \in {9800, 9860}}
    \cup {[Falling EXCEPT !.vwap = x] : x \in {10155, 10250}}
    \cup {[Calm EXCEPT !.pctB = x] : x \in {30, 50, 66, 70}} \cup {[Falling EXCEPT !.pctB = x] : x \in {30, 34, 50}}
    \cup {[Calm EXCEPT !.rsi = x] : x \in {24, 75, 80}}
    \cup {[Calm EXCEPT !.bos.bullBreak = 10], [Falling EXCEPT !.bos.bearBreak = 10], [Calm EXCEPT !.bos.bullish = FALSE]}
    \cup {[Calm EXCEPT !.swing = "ranging"], [Falling EXCEPT !.swing = "ranging"]}
    \cup {[Calm EXCEPT !.liq.range = 300, !.liq.body = 20], [Calm EXCEPT !.tickJump = 90]}
    \cup {[Calm EXCEPT !.ff.down = TRUE, !.ff.score = x] : x \in {20, 70}}
    \cup {[Falling EXCEPT !.ff.up = TRUE, !.ff.score = 70]}
    \cup {[Calm EXCEPT !.fvg = [bullish |-> <<[bottom |-> 9860, top |-> 9900, size |-> 10], [bottom |-> 10090, top |-> 10120, size |-> 40]>>,
                               bearish |-> <<>>]],
          [Calm EXCEPT !.fvg = [bullish |-> <<>>, bearish |-> <<>>]],
          [Falling EXCEPT !.fvg = [bearish |-> <<[bottom |-> 10100, top |-> 10140, size |-> 20], [bottom |-> 9880, top |-> 9910, size |-> 40]>>,
                               bullish |-> <<>>]]}
    \cup {[Calm EXCEPT !.swingLows = {9800, 9930, 10050}, !.swingHighs = {9900, 10200}]}
    \cup {[Calm EXCEPT !.dxy = [bias |-> "bullish_usd", strength |-> s, block |-> "BUY"]] : s \in {20, 35}}
    \cup {[Calm EXCEPT !.sentiment = [bias |-> "bearish", confidence |-> 60]]}
    \cup {[Calm EXCEPT !.news = {[high |-> TRUE, unparsed |-> FALSE, minutes |-> x]}] : x \in {20, 45}}
    \cup {[Calm EXCEPT !.session.score = x] : x \in {60, 95}}
    \cup {[Calm EXCEPT !.atrPct = x] : x \in {40, 2200, 2600}}
    \cup {[Calm EXCEPT !.open = <<[corr |-> c, direction |-> "BUY", own |-> FALSE]>>] : c \in {80, 95, -95}}
    \cup {[Calm EXCEPT !.adx = 15], [Calm EXCEPT !.volume = 60], [Calm EXCEPT !.age = 400], [Calm EXCEPT !.medianSpread = 3],
          [Calm EXCEPT !.risk.canOpen = FALSE], [Calm EXCEPT !.ci = 650], [Calm EXCEPT !.trendilo.slope = "down"]}
    \cup {[Calm EXCEPT !.bid = 9950, !.ask = 9960, !.ema200 = 9940]}

MCHypotheses ==
    {h \in [direction : Directions, setup : Setups, confidence : {66, 82}] :
        h.confidence = 82 => h.setup = "pullback"}
MCModes == {"algo_only", "algo_ai", "ai_signal"}
Lean == {"ema200_filter", "bos_guard", "fvg_guard", "swing_structure", "bollinger_filter", "session_filter"}
MCToggles == {Lean, Tools}
MCBase == [slMin |-> 50, slMax |-> 200, atrMult |-> 150, buffer |-> 15, tp1 |-> 150, tp2 |-> 250]
MCLayers == {<<>>, <<[slMin |-> 80, slMax |-> 60], [tp1 |-> 200, tp2 |-> 100, atrMult |-> 180]>>, <<[slMax |-> 400, atrMult |-> 300]>>}
MCThresholds == {[strong |-> 60, minimum |-> 45]}
MCAccount == [balance |-> 10000, risk |-> 10000, riskMin |-> 5000, slMin |-> 50, slMax |-> 200, pipValue |-> 1, marginPerLot |-> 100]
MCConf == {60, 90}

Bar0 == [missing |-> {}, fast |-> 11, slow |-> 10, macd |-> 1, rsi |-> 60, pctB |-> 50, adx |-> 30,
         plusDI |-> 25, minusDI |-> 15, price |-> 100, high |-> 105, low |-> 95]
MCSignalBars == {Bar0, [Bar0 EXCEPT !.fast = 9, !.macd = -1, !.rsi = 40], [Bar0 EXCEPT !.fast = 10, !.macd = 0],
    [Bar0 EXCEPT !.rsi = 75, !.pctB = 85], [Bar0 EXCEPT !.fast = 9, !.macd = -1, !.rsi = 28, !.pctB = 15],
    [Bar0 EXCEPT !.missing = {"rsi", "macd"}], [Bar0 EXCEPT !.missing = {"ema", "pctB"}], [Bar0 EXCEPT !.missing = {"atr"}],
    [Bar0 EXCEPT !.price = 106], [Bar0 EXCEPT !.price = 94, !.fast = 9, !.plusDI = 15, !.minusDI = 25]}
MCRuleSets == {<<"ema_crossover">>, <<"macd_crossover", "rsi_reversal">>, <<"bollinger_breakout", "rsi_reversal", "macd_crossover">>,
     <<"ema_crossover", "rsi_reversal", "ema_crossover">>, <<"adx_trend", "ema_crossover">>,
     <<"bos_confirm", "macd_crossover">>}
MCLogics == {"AND", "OR", "MAJORITY"}

MCBars == {[ci |-> 300, adx |-> 300, atr |-> 20], [ci |-> 650, adx |-> 300, atr |-> 20]}

MCChain == <<"gemini", "haiku", "local">>
MCProviderOf == [gemini |-> "google", haiku |-> "anthropic", local |-> "ollama"]
MCKeyed == {"google", "ollama"}

MCCandles == {[low |-> 1, high |-> 3, close |-> 2], [low |-> 2, high |-> 5, close |-> 5],
    [low |-> 4, high |-> 6, close |-> 5], [low |-> 0, high |-> 2, close |-> 0]}

MCTrades == {[side |-> 1, entry |-> 10, stop |-> 8], [side |-> -1, entry |-> 10, stop |-> 12]}
MCStopPrices == 3..17

MCSimBars == {[open |-> 10, low |-> 7, high |-> 13, close |-> 11], [open |-> 9, low |-> 8, high |-> 10, close |-> 8],
    [open |-> 13, low |-> 12, high |-> 14, close |-> 13]}
MCOffers == {[side |-> 1, stop |-> 2, target |-> 3], [side |-> -1, stop |-> 2, target |-> 2]}

High(time) == [at |-> time, high |-> TRUE]
Low(time) == [at |-> time, high |-> FALSE]
MCCalendars == {{}, {Low(1)}, {High(2)}, {High(5)}, {High(4), High(8)}, {Low(2), High(7)}, {Low(9), High(10)}, {High(0), High(13)}}

MCText == STRING
\* Flat records, and typed ones of which the flat fields are all stale.
FlatRecord ==
    [mode : {"", "algo_only", "ai_signal"}, family : {"", "breakout_retest"},
     source : {"", "auto", "ai_signal_discovery"}, prompt : {"", "long"},
     version : {3}, model : {"none", "unknown"},
     rules : {Absent, Null, {}, {"bos_confirm"}}, tools : {{}, {"fvg_guard"}, {"trendilo"}}, spec : {Absent}]
TypedSpec ==
    [mode : {"", "algo_ai", "ai_signal"}, family : {"", "range_reversal"},
     source : {"", "ui_ai_signal_card"}, prompt : {"", "short"}, version : {0, 3},
     model : {"none", "opus"}, rules : {Absent, {}}, sources : {Absent, {"bos_confirm"}}]
TypedRecord ==
    {[r EXCEPT !.spec = s] :
       r \in {q \in FlatRecord : q.mode = "algo_only" /\ q.rules # {} /\ q.family = "" /\ q.source = "auto"
                                 /\ q.model = "unknown" /\ q.prompt = "long" /\ q.tools = {"fvg_guard"}},
       s \in TypedSpec}
MCRecords == FlatRecord \cup TypedRecord
MCEdits ==
    {[f \in {"mode"} |-> "algo_ai"]}
    \cup {[f \in {"mode", "source"} |-> IF f = "mode" THEN m ELSE s] :
            m \in {"algo_only", "ai_signal"}, s \in {"", "auto", "ai_signal_discovery"}}
    \cup {[f \in {"source"} |-> "ui_ai_signal_card"], [f \in {"mode", "prompt"} |-> Null]}
    \cup {[f \in {"prompt"} |-> p] : p \in {"", "short"}}
    \cup {[f \in {"model"} |-> m] : m \in {"none", "blank", "opus", "unknown"}}
    \cup {[f \in {"rules"} |-> v] : v \in {{"bos_confirm"}, EMA}}

\* Request slots are interchangeable.
PlatformSymmetry == Permutations(Request)

-----------------------------------------------------------------------------
\* A part that does not run rests in one of its initial states.
FirstRecord == CHOOSE r \in FlatRecord : TRUE

PlatformInit ==
    /\ part \in {"pipeline", "signals", "structure", "regime", "ai", "stops", "simulation",
                "record", "strategies", "jobs", "lock", "calendar"}
    /\ PipelineInit /\ SignalInit /\ StructureInit /\ LearnedInit /\ AiInit /\ SimInit
    /\ Init /\ JobInit /\ LockInit
    /\ CalendarInit /\ (part # "calendar" => calendar = {} /\ ~paid)
    /\ StopInit /\ (part # "stops" => trade = CHOOSE t \in Trades : TRUE)
    /\ (part # "regime" => me = CHOOSE i \in LearnerId : TRUE)
    /\ IF part = "record" THEN SpecInit
       ELSE file = FirstRecord /\ setting = Absent /\ wanted = Says(FirstRecord)

PlatformNext ==
    \/ /\ part = "pipeline" /\ PipelineNext
       /\ UNCHANGED <<signalVars, learnedVars, aiVars, stopVars, simVars, specVars,
                      vars, jobVars, lockVars, candles, calendarVars, part>>
    \/ /\ part = "signals" /\ SignalNext
       /\ UNCHANGED <<pipelineVars, learnedVars, aiVars, stopVars, simVars, specVars,
                      vars, jobVars, lockVars, candles, calendarVars, part>>
    \/ /\ part = "structure" /\ NewCandle /\ UNCHANGED calendarVars
       /\ UNCHANGED <<pipelineVars, signalVars, learnedVars, aiVars, stopVars, simVars,
                      specVars, vars, jobVars, lockVars, part>>
    \/ /\ part = "regime" /\ LearnedNext
       /\ UNCHANGED <<pipelineVars, signalVars, aiVars, stopVars, simVars, specVars,
                      vars, jobVars, lockVars, candles, calendarVars, part>>
    \/ /\ part = "ai" /\ AiNext
       /\ UNCHANGED <<pipelineVars, signalVars, learnedVars, stopVars, simVars, specVars,
                      vars, jobVars, lockVars, candles, calendarVars, part>>
    \/ /\ part = "stops" /\ StopNext
       /\ UNCHANGED <<pipelineVars, signalVars, learnedVars, aiVars, simVars, specVars,
                      vars, jobVars, lockVars, candles, calendarVars, part>>
    \/ /\ part = "simulation" /\ SimNext
       /\ UNCHANGED <<pipelineVars, signalVars, learnedVars, aiVars, stopVars, specVars,
                      vars, jobVars, lockVars, candles, calendarVars, part>>
    \/ /\ part = "record" /\ SpecNext
       /\ UNCHANGED <<pipelineVars, signalVars, learnedVars, aiVars, stopVars, simVars,
                      vars, jobVars, lockVars, candles, calendarVars, part>>
    \/ /\ part = "strategies" /\ Next
       /\ UNCHANGED <<pipelineVars, signalVars, learnedVars, aiVars, stopVars, simVars,
                      specVars, jobVars, lockVars, candles, calendarVars, part>>
    \/ /\ part = "jobs" /\ JobNext
       /\ UNCHANGED <<pipelineVars, signalVars, learnedVars, aiVars, stopVars, simVars,
                      specVars, vars, lockVars, candles, calendarVars, part>>
    \/ /\ part = "lock" /\ LockNext
       /\ UNCHANGED <<pipelineVars, signalVars, learnedVars, aiVars, stopVars, simVars,
                      specVars, vars, jobVars, candles, calendarVars, part>>
    \/ /\ part = "calendar" /\ CalendarNext
       /\ UNCHANGED <<pipelineVars, signalVars, learnedVars, aiVars, stopVars, simVars,
                      specVars, vars, jobVars, lockVars, candles, part>>

platformVars == <<pipelineVars, signalVars, learnedVars, aiVars, stopVars, simVars,
                  specVars, vars, jobVars, lockVars, candles, calendarVars, part>>
PlatformSpec == PlatformInit /\ [][PlatformNext]_platformVars
===============================================================================
