--------------------------- MODULE BacktestFilters ---------------------------
(***************************************************************************)
(* The filters a backtest puts in the place of the plugin tools.  They are *)
(* spelled out three times: in run_vectorbt_backtest, in the signal        *)
(* function of backtester/runner.py and in scripts/replay_sim.py, which    *)
(* "mirrors make_signal_fn exactly"; the tools they stand for are those of *)
(* PluginTools.  The readings are the market of the decision; that each    *)
(* copy computes them anew is the subject of MarketStructure.              *)
(***************************************************************************)
EXTENDS DecisionPipeline

BacktestTools == {"volatility_filter", "session_filter", "ema200_filter", "tick_jump_guard",
    "liq_vacuum_guard", "vwap_guard", "macd_filter", "bollinger_filter", "adx_filter",
    "swing_structure", "bos_guard", "fvg_guard"}

\* Mutant: a sale below the level is refused.
AgainstLevelBelow(d, price, level) == price < level
AgainstLevel(d, price, level) ==
    \/ d = "BUY" /\ price < level
    \/ d = "SELL" /\ price > level

\* What the copies have in common.  There is no VWAP: vwap_guard measures the distance
\* from the fast average, on either side.
FilterRefuses(t, d, m, price) ==
    CASE t = "volatility_filter" -> m.atrPct > 2500 \/ m.atrPct < 50
      [] t = "session_filter" -> m.session.score < 50
      [] t = "ema200_filter" -> Has(m, "ema200") /\ AgainstLevel(d, price, m.ema200)
      [] t = "tick_jump_guard" -> m.tickJump > 80
      [] t = "liq_vacuum_guard" -> m.liq.range > 250 /\ m.liq.body < 30
      [] t = "vwap_guard" -> Has(m, "ema") /\ 2 * Size(price - m.emaFast) > 3 * m.atr
      [] t = "macd_filter" -> Has(m, "macd") /\ AgainstLevel(d, m.macd, 0)
      [] t = "bollinger_filter" ->
            Has(m, "pctB") /\ IF d = "BUY" THEN m.pctB > 70 ELSE m.pctB < 30
      [] t = "adx_filter" -> Has(m, "adx") /\ m.adx < 20
      [] t = "swing_structure" ->
            Has(m, "swing") /\ m.swing # (IF d = "BUY" THEN "bullish" ELSE "bearish")
      [] t = "bos_guard" -> ~(Has(m, "bos") /\ IF d = "BUY" THEN m.bos.bullish ELSE m.bos.bearish)
      [] t = "fvg_guard" -> ~Has(m, "fvg") \/ Gaps(d, m) = <<>>

\* run_vectorbt_backtest on a bar with a direction.  Its %B and ADX are always None, so
\* that bollinger_filter and adx_filter refuse nothing; session_filter, which is asked
\* second, reads the name "timestamps" that nothing defines.
NeverRefuse == {"bollinger_filter", "adx_filter"}
VectorBar(active, d, m, price) ==
    LET refusing == {t \in active \ NeverRefuse : FilterRefuses(t, d, m, price)}
    IN  CASE "volatility_filter" \in refusing -> "skipped"
          [] "volatility_filter" \notin refusing /\ "session_filter" \in active -> "raised"
          [] OTHER -> IF refusing = {} THEN "passed" ELSE "skipped"

\* make_signal_fn: in ai_signal mode the model has seen the structure already.  Of two
\* breaks it sees the bullish one, and too few swings are a ranging market.
SeenByModel == {"ema200_filter", "bos_guard", "fvg_guard", "macd_filter", "bollinger_filter",
                "adx_filter", "swing_structure"}
SignalFnRefuses(t, d, mode, m, price) ==
    /\ mode = "ai_signal" => t \notin SeenByModel
    /\ \/ FilterRefuses(t, d, m, price)
       \/ t = "bos_guard" /\ d = "SELL" /\ m.bos.bullish
       \/ t = "swing_structure" /\ ~Has(m, "swing")

\* replay_bar: the filters in stages, then a stand-in for the validator.  The mode only
\* chooses the filters.
ReplayFilters(mode) ==
    IF mode = "ai_signal" THEN BacktestTools \ (SeenByModel \ {"ema200_filter"}) ELSE BacktestTools
ReplayStages == <<
    [key |-> "2_session", tools |-> {"session_filter"}],
    [key |-> "3_volatility", tools |-> {"volatility_filter"}],
    [key |-> "5_ema200_trend", tools |-> {"ema200_filter"}],
    [key |-> "6_structural", tools |-> {"bos_guard", "fvg_guard", "tick_jump_guard",
                                       "liq_vacuum_guard", "vwap_guard"}],
    [key |-> "7_secondary", tools |-> {"macd_filter", "bollinger_filter", "adx_filter",
                                      "swing_structure"}]>>
AiProxyRefuses(mode, m, price) ==
    LET spread == IF mode = "algo_ai" THEN 4 ELSE 2
    IN  mode # "algo_only" /\ (1000 * Size(m.emaFast - m.emaSlow) < spread * price \/ m.rsi > 75 \/ m.rsi < 25)
ReplayBar(d, mode, m, price) ==
    LET Refuses(t) == SignalFnRefuses(t, d, "algo_only", m, price)
        blocking == {i \in DOMAIN ReplayStages :
                        \E t \in ReplayStages[i].tools \cap ReplayFilters(mode) : Refuses(t)}
    IN  CASE blocking # {} -> ReplayStages[Min(blocking)].key
          [] blocking = {} /\ AiProxyRefuses(mode, m, price) -> "9_ai_validator"
          [] OTHER -> "10_execute"

-----------------------------------------------------------------------------
\* The filters that read what their tool reads; the session score, the VWAP and the ADX
\* of a backtest are other figures than the live ones.
ReadingOf == [volatility_filter |-> "atrPct", ema200_filter |-> "ema200", tick_jump_guard |-> "tickJump",
              liq_vacuum_guard |-> "liq", macd_filter |-> "macd", bollinger_filter |-> "pctB",
              swing_structure |-> "swing", bos_guard |-> "bos", fvg_guard |-> "fvg"]

\* Where the tool is stricter: on the threshold itself, and about gaps of 0.15 ATR or less.
OnTheEdge(t, d, m) ==
    \/ t = "ema200_filter" /\ Side(d, m) = m.ema200
    \/ t = "macd_filter" /\ m.macd = 0
    \/ t = "bollinger_filter" /\ m.pctB \in {30, 70}
    \/ t = "fvg_guard" /\ Gaps(d, m) # <<>>

\* The copies agree: at the price of the order, a filter of the signal function refuses
\* exactly what the live tool of its name fails, except at the edges, where the tool
\* alone does; run_vectorbt_backtest, whose filters "match live trading behaviour"
\* (vbt_engine.py:323), skips for the same readings but of bollinger_filter, for which it
\* never does; and the replay executes a bar in algo_only mode exactly when the signal
\* function refuses nothing of the same readings.
FilterParity ==
    stage = "regime" => \A d \in Directions :
        LET price == Side(d, market) IN
        /\ \A t \in DOMAIN ReadingOf : Has(market, ReadingOf[t]) =>
              LET fails == ~Gate(t, d, market).passed
                  refuses == SignalFnRefuses(t, d, "algo_only", market, price)
              IN  /\ refuses => fails
                  /\ fails => refuses \/ OnTheEdge(t, d, market)
                  /\ VectorBar({t}, d, market, price)
                        = IF refuses /\ t # "bollinger_filter" THEN "skipped" ELSE "passed"
        /\ (ReplayBar(d, "algo_only", market, price) = "10_execute")
              = \A t \in BacktestTools : ~SignalFnRefuses(t, d, "algo_only", market, price)
===============================================================================
