------------------------------ MODULE TradeRules ------------------------------
(***************************************************************************)
(* The rules that turn a direction into an order: the construction of the  *)
(* trade (pipeline/construction.py), its structural checks                 *)
(* (invalidation.py), conviction, freshness, and the lots (risk/sizer.py). *)
(* Prices are in points (pip_size = 1), ratios and confidences in percent, *)
(* scores in tenths, lots in 1/100.  p is the parameter record that        *)
(* resolve_construction_params returns.                                    *)
(***************************************************************************)
EXTENDS PluginTools, RegimeRules

\* resolve_construction_params: each layer overrides the keys it has, so the last one that
\* has a key decides; then the clamps.
Overlay(base, layers) ==
    [k \in DOMAIN base |->
        LET having == {i \in DOMAIN layers : k \in DOMAIN layers[i]}
        IN  IF having = {} THEN base[k] ELSE layers[Max(having)][k]]

Sane(p) ==
    LET slMin == IF p.slMin <= 0 THEN 1 ELSE p.slMin
        tp1 == IF p.tp1 <= 0 THEN 50 ELSE p.tp1
    IN  [p EXCEPT !.slMin = slMin,
                  !.slMax = IF @ <= slMin THEN slMin * 10 ELSE @,
                  !.tp1 = tp1,
                  !.tp2 = Max({@, tp1}),
                  !.atrMult = Max({@, 0})]

ConstructionParams(base, layers) == Sane(Overlay(base, layers))

-----------------------------------------------------------------------------
(* TradeConstructor *)

SwingLevel(d, m, entry, buffer) ==
    IF d = "BUY"
    THEN LET below == {s \in m.swingLows : s < entry}
         IN  IF below = {} THEN <<>> ELSE <<Max(below) - buffer>>
    ELSE LET above == {s \in m.swingHighs : s > entry}
         IN  IF above = {} THEN <<>> ELSE <<Min(above) + buffer>>

\* The most recent gap whose far edge lies beyond the entry.
GapLevel(d, m, entry, buffer) ==
    IF ~Has(m, "fvg") THEN <<>>
    ELSE IF d = "BUY"
         THEN LET below == {i \in DOMAIN m.fvg.bullish : m.fvg.bullish[i].bottom < entry}
              IN  IF below = {} THEN <<>> ELSE <<m.fvg.bullish[Max(below)].bottom - buffer>>
         ELSE LET above == {i \in DOMAIN m.fvg.bearish : m.fvg.bearish[i].top > entry}
              IN  IF above = {} THEN <<>> ELSE <<m.fvg.bearish[Max(above)].top + buffer>>

ATRLevel(d, m, entry, buffer, p) ==
    IF m.atr = 0 \/ p.atrMult = 0 THEN <<>>
    ELSE LET distance == (m.atr * p.atrMult) \div 100 + buffer
         IN  IF d = "BUY" THEN <<entry - distance>> ELSE <<entry + distance>>

Candidates(d, m, p) ==
    LET entry == Side(d, m)
        buffer == (m.atr * p.buffer) \div 100
    IN  SwingLevel(d, m, entry, buffer) \o GapLevel(d, m, entry, buffer)
          \o ATRLevel(d, m, entry, buffer, p)

NoTrade == [setup |-> "none"]

Target(d, entry, delta, rr) ==
    IF d = "BUY" THEN entry + (delta * rr) \div 100 ELSE entry - (delta * rr) \div 100

\* The first candidate whose distance is within the bounds becomes the stop.
Construct(d, setup, confidence, m, p) ==
    LET entry == Side(d, m)
        levels == Candidates(d, m, p)
        valid == {i \in DOMAIN levels : Size(entry - levels[i]) \in p.slMin .. p.slMax}
        sl == levels[Min(valid)]
        delta == Size(entry - sl)
        tp1 == Target(d, entry, delta, p.tp1)
    IN  IF valid = {} THEN NoTrade
        ELSE [setup |-> setup, direction |-> d, entry |-> entry, sl |-> sl,
              tp1 |-> tp1, tp2 |-> Target(d, entry, delta, p.tp2),
              rr |-> (Size(tp1 - entry) * 100) \div delta, confidence |-> confidence]

-----------------------------------------------------------------------------
(* StructuralInvalidator *)

Hard(check) == [check |-> check, hard |-> TRUE]
Soft(check) == [check |-> check, hard |-> FALSE]
When(cond, failure) == IF cond THEN {failure} ELSE {}

Ahead(sig, level) == IF sig.direction = "BUY" THEN level > sig.entry ELSE level < sig.entry
Behind(sig, level) == IF sig.direction = "BUY" THEN level < sig.entry ELSE level > sig.entry

DistanceFailure(sig, p) ==
    LET points == Size(sig.entry - sig.sl)
    IN  IF 10 * points < 9 * p.slMin \/ 10 * points > 11 * p.slMax THEN {Hard("sl_distance")}
        ELSE When(points < p.slMin \/ points > p.slMax, Soft("sl_distance"))

RRFailure(sig) ==
    IF sig.rr < 100 THEN {Hard("rr_ratio")} ELSE When(sig.rr < 150, Soft("rr_ratio"))

GeometryFailures(sig, p) ==
    When(~Behind(sig, sig.sl), Hard("sl_direction"))
      \cup When(~Ahead(sig, sig.tp1), Hard("tp_direction"))
      \cup RRFailure(sig) \cup DistanceFailure(sig, p)

RequiredChecks ==
    [breakout |-> {"bos_guard", "ema200_filter"}, pullback |-> {"ema200_filter", "swing_structure"},
     continuation |-> {"bos_guard", "swing_structure"}, reversal |-> {"fast_fingers"},
     range_bounce |-> {"swing_ranging", "bollinger_filter"}]

\* Mutant: a break in either direction will do.
BOSFailureEither(sig, m) ==
    IF ~Has(m, "bos") \/ ~(m.bos.bullish \/ m.bos.bearish) THEN {Hard("bos_guard")}
    ELSE When(Max({m.bos.bullBreak, m.bos.bearBreak}) < 20, Soft("bos_guard"))

BOSFailure(sig, m) ==
    LET found == IF sig.direction = "BUY" THEN m.bos.bullish ELSE m.bos.bearish
        break == IF sig.direction = "BUY" THEN m.bos.bullBreak ELSE m.bos.bearBreak
    IN  IF ~Has(m, "bos") \/ ~found THEN {Hard("bos_guard")} ELSE When(break < 20, Soft("bos_guard"))

EMA200Failure(sig, m) ==
    LET price == Side(sig.direction, m)
        wrong == IF sig.direction = "BUY" THEN price < m.ema200 ELSE price > m.ema200
        marginal == 10 * Size(price - m.ema200) < 3 * m.atr
    IN  When(Has(m, "ema200") /\ wrong, IF marginal THEN Soft("ema200_filter") ELSE Hard("ema200_filter"))

SwingFailure(sig, m) ==
    LET opposed == IF sig.direction = "BUY" THEN "bearish" ELSE "bullish"
    IN  When(Has(m, "swing") /\ m.swing = "ranging", Soft("swing_structure"))
          \cup When(Has(m, "swing") /\ m.swing = opposed, Hard("swing_structure"))

ExhaustionFailure(sig, m) ==
    LET exhausted == IF sig.direction = "BUY" THEN m.ff.down ELSE m.ff.up
    IN  IF ~Has(m, "ff") \/ ~exhausted THEN {Hard("fast_fingers")}
        ELSE When(m.ff.score < 30, Soft("fast_fingers"))

BollingerFailure(sig, m) ==
    LET far == IF sig.direction = "BUY" THEN m.pctB > 65 ELSE m.pctB < 35
    IN  IF ~Has(m, "pctB") THEN {}
        ELSE IF far THEN {Hard("bollinger_filter")}
             ELSE When(m.pctB \in 45 .. 55, Soft("bollinger_filter"))

SetupFailures(sig, m, on) ==
    LET Asks(check) == check \in RequiredChecks[sig.setup]
    IN  (IF Asks("bos_guard") /\ "bos_guard" \in on THEN BOSFailure(sig, m) ELSE {})
          \cup (IF Asks("ema200_filter") /\ "ema200_filter" \in on THEN EMA200Failure(sig, m) ELSE {})
          \cup (IF Asks("swing_structure") /\ "swing_structure" \in on THEN SwingFailure(sig, m) ELSE {})
          \cup (IF Asks("fast_fingers") /\ "fast_fingers" \in on THEN ExhaustionFailure(sig, m) ELSE {})
          \cup When(Asks("swing_ranging") /\ "swing_structure" \in on /\ Has(m, "swing")
                      /\ m.swing # "ranging", Hard("swing_ranging"))
          \cup (IF Asks("bollinger_filter") /\ "bollinger_filter" \in on THEN BollingerFailure(sig, m) ELSE {})

\* The plugin tools of the stage: a "warn" is a soft failure here.
ToolFailures(sig, m, on) ==
    {[check |-> t, hard |-> Gate(t, sig.direction, m).severity = "block"] :
        t \in {u \in StageTools.invalidation \cap on : ~Gate(u, sig.direction, m).passed}}

Failures(sig, m, p, setups, on, required) ==
    GeometryFailures(sig, p)
      \cup When(sig.confidence < 30, Hard("confidence_floor"))
      \cup When(sig.setup \notin setups, Hard("regime_setup"))
      \cup SetupFailures(sig, m, required) \cup ToolFailures(sig, m, on)

\* In ai_signal mode the indicator checks of the setup do not apply.
Required(mode, on) ==
    IF mode = "ai_signal"
    THEN on \ {"bos_guard", "fvg_guard", "swing_structure", "ema200_filter", "bollinger_filter"}
    ELSE on

SoftWeight(check) ==
    CASE check \in {"rr_ratio", "fast_fingers"} -> 300
      [] check = "bos_guard" -> 350
      [] check = "ema200_filter" -> 250
      [] check \in {"sl_distance", "bollinger_filter"} -> 150
      [] OTHER -> 200

Severity(failures) ==
    IF \E f \in failures : f.hard THEN "HARD" ELSE IF failures = {} THEN "PASS" ELSE "SOFT"

InvalidationPenalty(failures) ==
    IF Severity(failures) # "SOFT" THEN 0
    ELSE Min({500, MapThenSumSet(LAMBDA f : SoftWeight(f.check), failures)})

-----------------------------------------------------------------------------
(* ConvictionScorer, compute_freshness *)

ConflictPenalty(scores) ==
    LET values == {scores[g] : g \in Groups}
        spread == Max(values) - Min(values)
    IN  IF spread < 400 THEN 0 ELSE Min({((spread - 400) * 3) \div 4, 300})

\* What remains of the raw conviction under the shared penalty budget.
Adjusted(raw, penalties, ceiling) == Min({Max({0, raw - Min({500, penalties})}), ceiling * 10})

\* The size is in percent; 0 is HOLD.  low counts the contradicting tools.
ConvictionSize(adjusted, overall, low, best, thresholds, adjust) ==
    IF overall < 550 \/ low >= 3 \/ best < 600 THEN 0
    ELSE CASE adjusted >= thresholds.strong * 10 -> 100
           [] adjusted < thresholds.strong * 10 /\ adjusted >= (thresholds.minimum + adjust) * 10 -> 60
           [] OTHER -> 0

\* In 1/1000.
Freshness(sig, m, candles) ==
    LET distance == (Size(m.bid + m.ask - 2 * sig.entry) * 500) \div (IF m.atr = 0 THEN 1 ELSE m.atr)
    IN  IF distance > 800 \/ candles > 5 THEN 0
        ELSE Max({0, 1000 - Max({0, distance - 300}) - 50 * Max({0, candles - 2})})

-----------------------------------------------------------------------------
(* PositionSizer, and the scaling of ExecutionOrchestrator.execute *)

MinLots == 1

RiskTier(confidence) ==
    CASE confidence >= 85 -> 125 [] confidence \in 70 .. 84 -> 100
      [] confidence \in 55 .. 69 -> 75 [] OTHER -> 50

\* In 1/10^6 of the balance; the risk score follows the confidence of the signal.
RiskShare(confidence, account) ==
    LET score == Min({84, confidence \div 2 + 20})
        scaled == IF score > 60 THEN (account.risk * (1000 - (score - 60) * 5)) \div 1000 ELSE account.risk
    IN  (Max({scaled, account.riskMin}) * RiskTier(confidence)) \div 100

\* Mutant: no slippage buffer.
PricedStopBare(points, account) == Min({Max({points * 100, account.slMin * 100}), account.slMax * 100})

\* The priced stop: the distance with the slippage buffer, within the asset's base bounds.
PricedStop(points, account) == Min({Max({points * 115, account.slMin * 100}), account.slMax * 100})

\* The margin of the account caps the lots.
Lots(points, confidence, account) ==
    LET raw == (account.balance * RiskShare(confidence, account))
                 \div (100 * PricedStop(points, account) * account.pipValue)
        marginCap == (account.balance * 30) \div account.marginPerLot
    IN  Max({MinLots, Min({Max({MinLots, raw}), marginCap})})

\* round(lots * combined, 2), never below the minimum lot.
Scaled(lots, conviction, regimeSize, fresh, gateSize, equity) ==
    LET num == lots * (conviction \div 20) * (regimeSize \div 10) * fresh * (gateSize \div 50) * (equity \div 25)
        den == 5 * 10 * 1000 * 2 * 4
    IN  Max({MinLots, (2 * num + den) \div (2 * den)})
===============================================================================
