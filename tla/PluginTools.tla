----------------------------- MODULE PluginTools -----------------------------
(***************************************************************************)
(* The plugin tools of the pipeline (tools/plugins): for each, the gate    *)
(* run() and the features that extract_features() scores, and the scoring  *)
(* groups they feed (directory scoring).                                   *)
(*                                                                         *)
(* A market is a record of readings: prices and levels in points, ATR      *)
(* multiples and shares in hundredths, oscillators in points, choppiness   *)
(* in tenths, the H1 ATR share in 1/1000 percent.  market.missing names    *)
(* the readings that are None.  Scores are in tenths of a point, 0..1000,  *)
(* rounded down where the code keeps a float.                              *)
(***************************************************************************)
EXTENDS Integers, Sequences, FiniteSets, SequencesExt, FiniteSetsExt

Directions == {"BUY", "SELL"}
Unknown == ""          \* trade_direction before the signal exists

Tools == {"session_filter", "news_filter", "volatility_filter", "dxy_filter",
          "sentiment_filter", "risk_filter", "ema200_filter", "alma_filter",
          "ema_crossover", "macd_filter", "bollinger_filter", "adx_filter", "rsi_feature",
          "volume_filter", "swing_structure", "tick_jump_guard", "liq_vacuum_guard",
          "bos_guard", "fvg_guard", "vwap_guard", "correlation_guard", "trendilo",
          "fast_fingers", "choppiness_index"}

RequiresDirection == Tools \ {"session_filter", "news_filter", "volatility_filter",
    "risk_filter", "adx_filter", "volume_filter", "tick_jump_guard", "liq_vacuum_guard",
    "choppiness_index"}

\* tools/registry.py STAGE_TOOL_MAP
StageTools ==
    [market_gate  |-> {"session_filter", "news_filter", "volatility_filter"},
     construction |-> {"swing_structure", "fvg_guard", "bos_guard"},
     invalidation |-> {"liq_vacuum_guard", "vwap_guard"},
     quality      |-> Tools \ {"session_filter", "risk_filter", "tick_jump_guard",
                               "vwap_guard", "correlation_guard", "trendilo"}]

\* ToolResult: severity "warn" never blocks by itself; sizes are in percent.
Pass == [passed |-> TRUE, severity |-> "info", size |-> 100]
Warn == [passed |-> FALSE, severity |-> "warn", size |-> 100]
Block == [passed |-> FALSE, severity |-> "block", size |-> 0]
PassIf(cond) == IF cond THEN Pass ELSE Warn
Sized(percent) == [Pass EXCEPT !.size = Min({100, Max({0, percent})})]

Size(x) == IF x < 0 THEN -x ELSE x
Has(m, reading) == reading \notin m.missing
Side(d, m) == IF d = "BUY" THEN m.ask ELSE m.bid
Gaps(d, m) == CASE d = "BUY" -> m.fvg.bullish [] d = "SELL" -> m.fvg.bearish
                [] OTHER -> m.fvg.bullish \o m.fvg.bearish

-----------------------------------------------------------------------------
(* run() of each tool *)

SessionGate(m) ==
    IF (m.session.weekend /\ ~m.crypto) \/ m.session.score < m.session.minimum THEN Block
    ELSE Sized(IF m.session.score >= 90 THEN 100 ELSE IF m.session.score >= 75 THEN 90 ELSE 80)

\* An event of high impact whose time does not parse counts as happening now.
NewsGate(m) ==
    IF ~Has(m, "news") \/ \E e \in m.news : e.high /\ (e.unparsed \/ e.minutes \in -30 .. 30)
    THEN Block ELSE Pass

VolatilityGate(m) ==
    IF ~Has(m, "atrPct") \/ m.atrPct > 2500 \/ m.atrPct < 50 THEN Block
    ELSE IF m.atrPct > 2000 THEN Sized(70) ELSE Pass

DXYGate(d, m) ==
    IF ~Has(m, "dxy") \/ m.dxy.block # d THEN Pass
    ELSE IF m.dxy.strength >= 30 THEN Block ELSE Sized(Max({50, 100 - m.dxy.strength}))

SentimentGate(d, m) ==
    IF /\ Has(m, "sentiment")
       /\ <<d, m.sentiment.bias>> \in {<<"BUY", "bearish">>, <<"SELL", "bullish">>}
    THEN Sized(Max({50, 100 - m.sentiment.confidence \div 2})) ELSE Pass

RiskGate(m) == IF Has(m, "risk") /\ m.risk.canOpen THEN Pass ELSE Block

\* Mutant: both directions compare the ask.
LevelGateOnAsk(d, m, reading, level) ==
    IF ~Has(m, reading) THEN Pass
    ELSE CASE d = "BUY" -> PassIf(m.ask > level) [] d = "SELL" -> PassIf(m.ask < level)

\* ema200, alma: price beyond the level on the side the order would fill at.
LevelGate(d, m, reading, level) ==
    IF ~Has(m, reading) THEN Pass
    ELSE CASE d = "BUY" -> PassIf(m.ask > level) [] d = "SELL" -> PassIf(m.bid < level)

CrossoverGate(d, m) ==
    IF ~Has(m, "ema") THEN Pass
    ELSE CASE d = "BUY" -> PassIf(m.emaFast - m.emaSlow > 0)
           [] d = "SELL" -> PassIf(m.emaFast - m.emaSlow < 0)

MACDGate(d, m) ==
    IF ~Has(m, "macd") THEN Pass
    ELSE CASE d = "BUY" -> PassIf(m.macd > 0) [] d = "SELL" -> PassIf(m.macd < 0)

BollingerGate(d, m) ==
    IF ~Has(m, "pctB") THEN Pass
    ELSE CASE d = "BUY" -> PassIf(m.pctB < 70) [] d = "SELL" -> PassIf(m.pctB > 30)

ADXGate(m) == PassIf(~Has(m, "adx") \/ m.adx >= 20)

RSIGate(d, m) == PassIf(~Has(m, "rsi") \/ ~((d = "BUY" /\ m.rsi > 75) \/ (d = "SELL" /\ m.rsi < 25)))

VolumeGate(m) == PassIf(~Has(m, "volume") \/ m.volume >= 80)

SwingGate(d, m) ==
    IF ~Has(m, "swing") THEN Pass
    ELSE CASE m.swing = "ranging" -> Warn
           [] m.swing # "ranging" /\ d = "BUY" -> PassIf(m.swing = "bullish")
           [] m.swing # "ranging" /\ d = "SELL" -> PassIf(m.swing = "bearish")

TickJumpGate(m) == PassIf(~Has(m, "tickJump") \/ m.tickJump <= 80)

VacuumGate(m) == PassIf(~Has(m, "liq") \/ ~(m.liq.range > 250 /\ m.liq.body < 30))

BOSGate(d, m) ==
    IF ~Has(m, "bos") THEN Pass
    ELSE CASE d = "BUY" -> PassIf(m.bos.bullish) [] d = "SELL" -> PassIf(m.bos.bearish)

FVGGate(d, m) == PassIf(~Has(m, "fvg") \/ \E i \in DOMAIN Gaps(d, m) : Gaps(d, m)[i].size >= 15)

VWAPGate(d, m) ==
    IF ~Has(m, "vwap") \/ m.atr = 0 THEN Pass
    ELSE LET extension == 2 * (Side(d, m) - m.vwap)
         IN  PassIf(~((d = "BUY" /\ extension > 3 * m.atr) \/ (d = "SELL" /\ extension < -3 * m.atr)))

TrendiloGate(d, m) ==
    PassIf(~(/\ Has(m, "trendilo") /\ m.trendilo.strength > 30
             /\ <<d, m.trendilo.slope>> \in {<<"BUY", "down">>, <<"SELL", "up">>}))

FastFingersGate(d, m) ==
    PassIf(~(Has(m, "ff") /\ ((d = "BUY" /\ m.ff.up) \/ (d = "SELL" /\ m.ff.down))))

ChoppinessGate(m) == PassIf(~Has(m, "ci") \/ m.ci <= 618)

\* Only the open trade with the largest |correlation| is looked at, the first of equals.
FirstLargest(size) ==
    CHOOSE i \in DOMAIN size :
        \A j \in DOMAIN size : size[i] > size[j] \/ (size[i] = size[j] /\ i <= j)
CorrelationGate(d, m) ==
    LET others == {i \in DOMAIN m.open : ~m.open[i].own /\ m.open[i].corr # 0}
        size == [i \in others |-> Size(m.open[i].corr)]
        first == FirstLargest(size)
        same == m.open[first].direction = d
        exposure == IF (m.open[first].corr >= 0) = same THEN size[first] ELSE 0
    IN  IF others = {} THEN Pass
        ELSE IF exposure >= 90 THEN Block ELSE IF exposure >= 75 THEN Sized(50) ELSE Pass

Gate(t, d, m) ==
    IF d = Unknown /\ t \in RequiresDirection THEN Pass
    ELSE CASE t = "session_filter" -> SessionGate(m)
           [] t = "news_filter" -> NewsGate(m)
           [] t = "volatility_filter" -> VolatilityGate(m)
           [] t = "dxy_filter" -> DXYGate(d, m)
           [] t = "sentiment_filter" -> SentimentGate(d, m)
           [] t = "risk_filter" -> RiskGate(m)
           [] t = "ema200_filter" -> LevelGate(d, m, "ema200", m.ema200)
           [] t = "alma_filter" -> LevelGate(d, m, "alma", m.alma)
           [] t = "ema_crossover" -> CrossoverGate(d, m)
           [] t = "macd_filter" -> MACDGate(d, m)
           [] t = "bollinger_filter" -> BollingerGate(d, m)
           [] t = "adx_filter" -> ADXGate(m)
           [] t = "rsi_feature" -> RSIGate(d, m)
           [] t = "volume_filter" -> VolumeGate(m)
           [] t = "swing_structure" -> SwingGate(d, m)
           [] t = "tick_jump_guard" -> TickJumpGate(m)
           [] t = "liq_vacuum_guard" -> VacuumGate(m)
           [] t = "bos_guard" -> BOSGate(d, m)
           [] t = "fvg_guard" -> FVGGate(d, m)
           [] t = "vwap_guard" -> VWAPGate(d, m)
           [] t = "correlation_guard" -> CorrelationGate(d, m)
           [] t = "trendilo" -> TrendiloGate(d, m)
           [] t = "fast_fingers" -> FastFingersGate(d, m)
           [] t = "choppiness_index" -> ChoppinessGate(m)

-----------------------------------------------------------------------------
(* extract_features() of each tool: a sequence of scores *)

\* FeatureResult clamps every score to 0..100.
Clamp(x) == Max({0, Min({1000, x})})
Neutral == <<500>>
Twice == <<500, 500>>

EMA200Features(m) ==
    IF Has(m, "ema200") THEN <<Clamp(500 + ((m.ask - m.ema200) * 10000) \div m.ema200)>> ELSE Neutral

\* How near the price is to the average, and on which side.
ALMAFeatures(m) ==
    LET distance == ((m.ask - m.alma) * 200) \div m.atr
    IN  IF Has(m, "alma") /\ m.atr # 0 THEN <<Clamp(1000 - Size(distance)), Clamp(500 + distance)>> ELSE Twice

CrossoverFeatures(m) ==
    LET spread == ((m.emaFast - m.emaSlow) * 250) \div m.atr
    IN  IF Has(m, "ema") /\ m.atr # 0 THEN <<Clamp(1000 - Size(spread)), Clamp(500 + spread)>> ELSE Twice

MACDFeatures(m) ==
    IF ~Has(m, "macd") THEN Neutral
    ELSE <<Clamp(500 + IF m.atr > 0 THEN (m.macd * 500) \div m.atr ELSE m.macd * 10000)>>

BollingerFeatures(m) ==
    IF ~Has(m, "pctB") THEN Twice
    ELSE <<Clamp(m.pctB * 10), IF m.atr > 0 THEN Clamp((m.bandWidth * 250) \div m.atr) ELSE 500>>

ADXFeatures(m) ==
    IF ~Has(m, "adx") THEN Twice
    ELSE <<Clamp(m.adx * 10),
           IF m.plusDI + m.minusDI > 0 THEN (m.plusDI * 1000) \div (m.plusDI + m.minusDI) ELSE 500>>

VolumeFeatures(m) ==
    IF ~Has(m, "volume") THEN Neutral
    ELSE <<CASE m.volume >= 200 -> 1000
             [] m.volume \in 100 .. 199 -> 700 + (m.volume - 100) * 3
             [] m.volume \in 50 .. 99 -> 250 + (m.volume - 50) * 9
             [] m.volume < 50 -> m.volume * 5>>

FastFingersFeatures(m) ==
    IF ~Has(m, "ff") THEN Twice
    ELSE <<Clamp(1000 - m.ff.score * 10),
           IF m.ff.upper > m.ff.lower
           THEN Clamp(((m.ff.roc - m.ff.lower) * 1000) \div (m.ff.upper - m.ff.lower)) ELSE 500>>

Signed(word, up, down, x) == CASE word = up -> x [] word = down -> -x [] OTHER -> 0

TrendiloFeatures(m) ==
    IF ~Has(m, "trendilo") THEN Twice
    ELSE <<Clamp(m.trendilo.strength * 10),
           Clamp(500 + Signed(m.trendilo.slope, "up", "down", m.trendilo.strength * 5))>>

ChoppinessFeatures(m) == IF Has(m, "ci") THEN <<Clamp(1000 - m.ci)>> ELSE Neutral
TickJumpFeatures(m) == IF Has(m, "tickJump") THEN <<Clamp(1000 - (m.tickJump * 1000) \div 80)>> ELSE Neutral

VacuumFeatures(m) ==
    IF ~Has(m, "liq") THEN Neutral
    ELSE <<(Clamp(1000 - m.liq.range * 2) + Clamp((m.liq.body * 1000) \div 60)) \div 2>>

VolatilityFeatures(m) ==
    IF ~Has(m, "atrPct") THEN <<0>>
    ELSE <<CASE m.atrPct > 2500 -> Clamp(1000 - ((m.atrPct - 2500) * 1000) \div 2500)
             [] m.atrPct < 50 -> Clamp(m.atrPct * 4)
             [] OTHER -> Max({500, 1000 - (Size(2 * m.atrPct - 2550) * 500) \div 2450})>>

SessionFeatures(m) == <<IF m.session.weekend /\ ~m.crypto THEN 0 ELSE m.session.score * 10>>

\* How far the nearest event of high impact is, before or after it.
NewsFeatures(m) ==
    LET high == {e \in m.news : e.high}
    IN  <<IF ~Has(m, "news") THEN 0 ELSE IF high = {} THEN 1000
          ELSE Min({IF e.unparsed THEN 0 ELSE Clamp((Size(e.minutes) * 1000) \div 60) : e \in high})>>

DXYFeatures(m) ==
    IF ~Has(m, "dxy") THEN Twice
    ELSE <<Clamp(500 + Signed(m.dxy.bias, "bearish_usd", "bullish_usd", m.dxy.strength * 10)),
           Clamp(m.dxy.strength * 20)>>

SentimentFeatures(m) ==
    IF ~Has(m, "sentiment") THEN Twice
    ELSE <<Clamp(500 + Signed(m.sentiment.bias, "bullish", "bearish", m.sentiment.confidence * 5)),
           m.sentiment.confidence * 10>>

CorrelationFeatures(m) ==
    <<1000 - Max({0} \cup {10 * Size(m.open[i].corr) : i \in {j \in DOMAIN m.open : ~m.open[j].own}})>>

RiskFeatures(m) ==
    <<IF ~Has(m, "risk") THEN 1000 ELSE IF m.risk.kill THEN 0 ELSE Clamp(1000 - m.risk.used * 10)>>

\* The tools that do not look at the direction of the trade.
MarketFeatures(t, m) ==
    CASE t = "ema200_filter" -> EMA200Features(m)
      [] t = "alma_filter" -> ALMAFeatures(m)
      [] t = "ema_crossover" -> CrossoverFeatures(m)
      [] t = "macd_filter" -> MACDFeatures(m)
      [] t = "bollinger_filter" -> BollingerFeatures(m)
      [] t = "adx_filter" -> ADXFeatures(m)
      [] t = "volume_filter" -> VolumeFeatures(m)
      [] t = "fast_fingers" -> FastFingersFeatures(m)
      [] t = "trendilo" -> TrendiloFeatures(m)
      [] t = "choppiness_index" -> ChoppinessFeatures(m)
      [] t = "tick_jump_guard" -> TickJumpFeatures(m)
      [] t = "liq_vacuum_guard" -> VacuumFeatures(m)
      [] t = "volatility_filter" -> VolatilityFeatures(m)
      [] t = "session_filter" -> SessionFeatures(m)
      [] t = "news_filter" -> NewsFeatures(m)
      [] t = "dxy_filter" -> DXYFeatures(m)
      [] t = "sentiment_filter" -> SentimentFeatures(m)
      [] t = "correlation_guard" -> CorrelationFeatures(m)
      [] t = "risk_filter" -> RiskFeatures(m)

ScoreBuy(rsi) ==
    CASE rsi <= 30 -> 500
      [] rsi \in 31 .. 50 -> 800 + (rsi - 30) * 10
      [] rsi \in 51 .. 65 -> 1000 - ((rsi - 50) * 200) \div 15
      [] rsi \in 66 .. 75 -> 800 - (rsi - 65) * 55
      [] rsi > 75 -> Clamp(250 - (rsi - 75) * 10)

RSIFeature(d, m) ==
    IF ~Has(m, "rsi") \/ d = Unknown THEN Neutral
    ELSE <<IF d = "BUY" THEN ScoreBuy(m.rsi) ELSE ScoreBuy(100 - m.rsi)>>

BOSScore(d, m) ==
    LET mult == CASE d = "BUY" -> IF m.bos.bullish THEN m.bos.bullBreak ELSE 0
                  [] d = "SELL" -> IF m.bos.bearish THEN m.bos.bearBreak ELSE 0
                  [] OTHER -> IF m.bos.bullish \/ m.bos.bearish
                              THEN Max({m.bos.bullBreak, m.bos.bearBreak}) ELSE 0
    IN  <<Clamp(500 + mult * 5)>>

FVGScore(d, m) ==
    LET gaps == Gaps(d, m)
    IN  IF gaps = <<>> THEN Twice
        ELSE <<Clamp(500 + Len(gaps) * 250),
               Clamp(500 + Max({gaps[i].size : i \in DOMAIN gaps}) * 10)>>

SwingScore(d, m) ==
    LET with == IF d = "SELL" THEN "bearish" ELSE "bullish"
    IN  IF m.swing = "ranging" THEN <<IF d = Unknown THEN 500 ELSE 400, 300>>
        ELSE <<IF m.swing = with THEN 900 ELSE 100, 850>>

VWAPScore(d, m) ==
    LET above == Side(d, m) - m.vwap
        beyond == CASE d = "BUY" -> Max({0, above}) [] d = "SELL" -> Max({0, -above})
                    [] OTHER -> Size(above)
    IN  <<Clamp(1000 - (beyond * 2000) \div (3 * m.atr))>>

DirectionAware == {"rsi_feature", "bos_guard", "fvg_guard", "swing_structure", "vwap_guard"}

DirectionFeatures(t, d, m) ==
    CASE t = "rsi_feature" -> RSIFeature(d, m)
      [] t = "bos_guard" -> IF Has(m, "bos") THEN BOSScore(d, m) ELSE Neutral
      [] t = "fvg_guard" -> IF Has(m, "fvg") THEN FVGScore(d, m) ELSE Twice
      [] t = "swing_structure" -> IF Has(m, "swing") THEN SwingScore(d, m) ELSE Twice
      [] t = "vwap_guard" -> IF Has(m, "vwap") /\ m.atr # 0 THEN VWAPScore(d, m) ELSE Neutral

Features(t, d, m) ==
    IF t \in DirectionAware THEN DirectionFeatures(t, d, m) ELSE MarketFeatures(t, m)

-----------------------------------------------------------------------------
(* Scoring groups *)

Groups == {"trend", "momentum", "structure", "volume", "volatility"}

ToolGroup(t) ==
    CASE t \in {"ema200_filter", "alma_filter", "ema_crossover", "dxy_filter", "swing_structure",
                "trendilo", "correlation_guard"} -> "trend"
      [] t \in {"macd_filter", "bollinger_filter", "adx_filter", "rsi_feature", "fast_fingers"} -> "momentum"
      [] t \in {"bos_guard", "fvg_guard", "vwap_guard"} -> "structure"
      [] t \in {"volume_filter", "sentiment_filter"} -> "volume"
      [] OTHER -> "volatility"

PlusTool(acc, x) == acc + x
Mean(scores) == FoldLeft(PlusTool, 0, scores) \div Len(scores)

\* GroupScorer without a tracker: the mean of the means; an empty group is neutral.
GroupScore(g, tools, d, m) ==
    LET members == {t \in tools : ToolGroup(t) = g}
    IN  IF members = {} THEN 500
        ELSE MapThenSumSet(LAMBDA t : Mean(Features(t, d, m)), members) \div Cardinality(members)

\* ConfidenceEngine.compute: a sum weighted in percent, normalised when the weights are not.
Weighted(weights, scores) ==
    LET total == MapThenSumSet(LAMBDA g : weights[g], Groups)
    IN  Clamp(MapThenSumSet(LAMBDA g : weights[g] * scores[g], Groups) \div
              (IF total > 0 THEN total ELSE 100))
===============================================================================
