--------------------------- MODULE DecisionPipeline ---------------------------
(***************************************************************************)
(* One decision of PipelineOrchestrator.run, from the readings of a cycle  *)
(* to the lots that ExecutionOrchestrator.execute submits.  An action is a *)
(* stage; every await of the handler lies between two actions.  The state  *)
(* of the risk monitor, the execution guard and the broker is TradingCycle *)
(* and ExecutionSaga's; here their verdicts are free, and so is the regime *)
(* (LearnedState).                                                         *)
(***************************************************************************)
EXTENDS TradeRules

CONSTANTS Markets,      \* readings a cycle may see
          Hypotheses,   \* [direction, setup, confidence] the signal engine may return
          Modes,        \* signal modes: "algo_only", "algo_ai", "ai_signal"
          Toggles,      \* sets of tools a strategy card may enable
          BaseParams,   \* construction parameters of the asset
          Layers,       \* sequences of overriding layers
          Thresholds,   \* [strong, minimum] of the strategy
          Account,      \* [balance, risk, riskMin, slMin, slMax, pipValue, marginPerLot]
          Confidences   \* confidences the validator's answer may carry

ASSUME PipelineAssumption ==
    /\ \A t \in Thresholds : t.strong >= t.minimum
    /\ Account.balance \in Nat /\ Account.risk \in Nat /\ Account.risk >= 10 /\ Account.riskMin \in Nat
    /\ Account.pipValue \in Nat \ {0} /\ Account.marginPerLot \in Nat \ {0}
    /\ Account.slMin \in Nat \ {0} /\ Account.slMax \in Nat \ {0}
    /\ \A h \in Hypotheses : h.direction \in Directions /\ h.setup \in Setups /\ h.confidence \in 0 .. 100
    /\ Confidences \subseteq 0 .. 100
    /\ \A on \in Toggles : on \subseteq Tools

\* The readings of a market.
Gap == [bottom : Int, top : Int, size : Int]
Readings ==
    [missing : SUBSET STRING, ask : Int, bid : Int, atr : Nat, ema200 : Int, alma : Int,
     emaFast : Int, emaSlow : Int, vwap : Int, macd : Int, pctB : Int, bandWidth : Nat,
     adx : Nat, plusDI : Nat, minusDI : Nat, rsi : Int, volume : Nat,
     swing : {"bullish", "bearish", "ranging"}, tickJump : Nat, liq : [range : Nat, body : Nat],
     bos : [bullish : BOOLEAN, bearish : BOOLEAN, bullBreak : Int, bearBreak : Int],
     fvg : [bullish : Seq(Gap), bearish : Seq(Gap)],
     ff : [up : BOOLEAN, down : BOOLEAN, score : Nat, roc : Int, upper : Int, lower : Int],
     trendilo : [slope : {"up", "down", "flat"}, strength : Nat], ci : Nat, atrPct : Nat,
     session : [weekend : BOOLEAN, score : Nat, minimum : Nat], crypto : BOOLEAN,
     news : SUBSET [high : BOOLEAN, unparsed : BOOLEAN, minutes : Int],
     dxy : [bias : {"bullish_usd", "bearish_usd", "neutral"}, strength : Nat,
            block : Directions \cup {""}],
     sentiment : [bias : {"bullish", "bearish", "neutral"}, confidence : Nat],
     risk : [canOpen : BOOLEAN, kill : BOOLEAN, used : Nat],
     open : Seq([corr : -100 .. 100, direction : Directions, own : BOOLEAN]),
     swingLows : SUBSET Int, swingHighs : SUBSET Int,
     kill : BOOLEAN, age : Nat, bars : Nat, medianSpread : Nat]

\* No move is exhausted both ways at once, and no close breaks both ends of a range.
ASSUME MarketAssumption ==
    \A m \in Markets : m \in Readings /\ ~(m.ff.up /\ m.ff.down) /\ ~(m.bos.bullish /\ m.bos.bearish)

\* Points, ratios and multiples of the parameters are numbers.
ParamKeys == {"slMin", "slMax", "atrMult", "buffer", "tp1", "tp2"}
ASSUME ParamAssumption ==
    /\ BaseParams \in [ParamKeys -> Int]
    /\ \A layers \in Layers :
          /\ Len(layers) \in Nat /\ DOMAIN layers = 1 .. Len(layers)
          /\ \A i \in DOMAIN layers, k \in ParamKeys :
                k \in DOMAIN layers[i] => layers[i][k] \in Int

VARIABLES
    stage,       \* the next stage; "idle" before the decision, "done" after it
    outcome,     \* CycleOutcome of the last decision
    market,      \* the context of the cycle
    card,        \* what the strategy sets: mode, enabled tools, parameters, thresholds
    snapshot,    \* regime of the cycle
    signal,      \* CandidateSignal, or NoTrade
    penalty,     \* invalidation penalty
    conviction,  \* size scalar of the conviction, in percent
    validated,   \* confidence of the signal in the result (the validator may change it)
    gate,        \* size scalars of the risk gate: [size, equity]
    lots         \* lots submitted, 0 before
pipelineVars == <<stage, outcome, market, card, snapshot, signal, penalty, conviction,
                  validated, gate, lots>>

FullGate == [size |-> 100, equity |-> 100]

PipelineInit ==
    /\ stage = "idle" /\ outcome = "none"
    /\ market = CHOOSE m \in Markets : TRUE
    /\ card = [mode |-> CHOOSE x \in Modes : TRUE, on |-> CHOOSE x \in Toggles : TRUE,
               params |-> Sane(BaseParams), thresholds |-> CHOOSE x \in Thresholds : TRUE]
    /\ snapshot = "neutral" /\ signal = NoTrade /\ penalty = 0 /\ conviction = 0
    /\ validated = 0 /\ gate = FullGate /\ lots = 0

\* _finalise: the decision ends with an outcome.
End(result) == stage' = "done" /\ outcome' = result

Feasible(m) ==
    /\ ~m.kill /\ m.age <= 300 /\ m.bars >= 200
    /\ m.bid < m.ask
    /\ m.medianSpread > 0 => m.ask - m.bid <= 3 * m.medianSpread

\* MarketGate.check, with the tools of its stage; only a "block" stops the cycle.
CheckMarket ==
    /\ stage = "idle"
    /\ market' \in Markets
    /\ \E mode \in Modes, on \in Toggles, layers \in Layers, t \in Thresholds :
          card' = [mode |-> mode, on |-> on, params |-> ConstructionParams(BaseParams, layers),
                   thresholds |-> t]
    /\ IF /\ Feasible(market')
          /\ \A t \in StageTools.market_gate \cap card'.on : Gate(t, Unknown, market').severity # "block"
       THEN stage' = "regime" /\ UNCHANGED outcome
       ELSE End("REJECTED")
    /\ signal' = NoTrade /\ penalty' = 0 /\ conviction' = 0 /\ validated' = 0
    /\ gate' = FullGate /\ lots' = 0
    /\ UNCHANGED snapshot

ReadRegime ==
    /\ stage = "regime" /\ stage' = "signal"
    /\ snapshot' \in Regimes
    /\ UNCHANGED <<outcome, market, card, signal, penalty, conviction, validated, gate, lots>>

\* The signal generator answers None.
NoSignal ==
    /\ stage = "signal" /\ End("NO_SIGNAL")
    /\ UNCHANGED <<market, card, snapshot, signal, penalty, conviction, validated, gate, lots>>

\* A hypothesis is made into a trade, and the setup policy of the regime is applied.
ConstructTrade ==
    /\ stage = "signal"
    /\ \E h \in Hypotheses :
          signal' = Construct(h.direction, h.setup, h.confidence, market, card.params)
    /\ CASE signal' = NoTrade -> End("NO_CONSTRUCTION")
         [] signal' # NoTrade /\ signal'.setup \notin RegimeTable[snapshot].setups -> End("HELD")
         [] OTHER -> stage' = "invalidation" /\ UNCHANGED outcome
    /\ UNCHANGED <<market, card, snapshot, penalty, conviction, validated, gate, lots>>

FailuresNow == Failures(signal, market, card.params, RegimeTable[snapshot].setups, card.on,
                        Required(card.mode, card.on))

Invalidate ==
    /\ stage = "invalidation"
    /\ penalty' = InvalidationPenalty(FailuresNow)
    /\ IF Severity(FailuresNow) = "HARD" THEN End("REJECTED")
       ELSE stage' = "conviction" /\ UNCHANGED outcome
    /\ UNCHANGED <<market, card, snapshot, signal, conviction, validated, gate, lots>>

\* StructuralQuality.evaluate and ConvictionScorer.score.
Score ==
    LET scored == StageTools.quality \cap card.on
        d == signal.direction
        group == [g \in Groups |-> GroupScore(g, scored, d, market)]
        weights == RegimeTable[snapshot].weights
        mean == [t \in scored |-> Mean(Features(t, d, market))]
        raw == Weighted(weights, group)
        adjusted == Adjusted(raw, penalty + ConflictPenalty(group), RegimeTable[snapshot].ceiling)
    IN  ConvictionSize(adjusted,
                       IF scored = {} THEN 1000 ELSE raw,
                       Cardinality({t \in scored : mean[t] < 250}),
                       IF scored = {} THEN 1000 ELSE Max({mean[t] : t \in scored}),
                       card.thresholds, RegimeTable[snapshot].adjust)

Convince ==
    /\ stage = "conviction"
    /\ conviction' = Score
    /\ validated' = signal.confidence
    /\ IF conviction' = 0 THEN End("HELD") ELSE stage' = "validator" /\ UNCHANGED outcome
    /\ UNCHANGED <<market, card, snapshot, signal, penalty, gate, lots>>

\* Mutant: the answer's confidence as it is.
BoundedFree(confidence) == Min({confidence, 100})

\* BoundedAIValidator: an approval may carry a confidence, raised by five points at
\* most.  The loop builds it with fail_open=False, so an error, an empty or an
\* unreadable answer rejects; without an AI caller the stage is skipped.  The
\* stages that follow keep the original signal.
Bounded(confidence) == Min({confidence, signal.confidence + 5})

Validate ==
    /\ stage = "validator"
    /\ \/ stage' = "risk" /\ UNCHANGED <<outcome, validated>>
       \/ /\ card.mode # "algo_only"
          /\ \E c \in Confidences : validated' = Bounded(c)
          /\ stage' = "risk" /\ UNCHANGED outcome
       \/ /\ card.mode # "algo_only"
          /\ End("REJECTED") /\ UNCHANGED validated
    /\ UNCHANGED <<market, card, snapshot, signal, penalty, conviction, gate, lots>>

\* RiskGateRunner.check.  The monitor, the pause guard and the portfolio cap may
\* refuse; a context without open_trades makes the correlation tool raise, which
\* is ignored.
CheckRisk ==
    LET corr == IF Has(market, "open") /\ "correlation_guard" \in card.on
                THEN Gate("correlation_guard", signal.direction, market) ELSE Pass
        refused == ~RiskGate(market).passed \/ corr.severity = "block"
    IN  /\ stage = "risk"
        /\ \/ End("REJECTED") /\ UNCHANGED gate
           \/ /\ ~refused
              /\ \E equity \in {100, 75, 50, 25} : gate' = [size |-> corr.size, equity |-> equity]
              /\ stage' = "guard" /\ UNCHANGED outcome
        /\ UNCHANGED <<market, card, snapshot, signal, penalty, conviction, validated, lots>>

\* ExecutionGuardRunner.check: duplicates block, a jump or a vacuum delays.
GuardExecution ==
    /\ stage = "guard"
    /\ \/ End("REJECTED")
       \/ End("DELAYED")
       \/ /\ \A t \in {"tick_jump_guard", "liq_vacuum_guard"} : Gate(t, signal.direction, market).passed
          /\ IF Freshness(signal, market, 0) = 0 THEN End("HELD")
             ELSE stage' = "sizing" /\ UNCHANGED outcome
    /\ UNCHANGED <<market, card, snapshot, signal, penalty, conviction, validated, gate, lots>>

Points == Size(signal.entry - signal.sl)
LotsFor(confidence) ==
    Scaled(Lots(Points, confidence, Account), conviction, RegimeTable[snapshot].size,
           Freshness(signal, market, 0), gate.size, gate.equity)

\* ExecutionOrchestrator.execute sizes the signal of the result.
SizeTrade ==
    /\ stage = "sizing" /\ End("TRADE_OPENED")
    /\ lots' = LotsFor(validated)
    /\ UNCHANGED <<market, card, snapshot, signal, penalty, conviction, validated, gate>>

\* shadow_mode holds the decision after its sizing.
Shadow ==
    /\ stage = "sizing" /\ End("HELD")
    /\ UNCHANGED <<market, card, snapshot, signal, penalty, conviction, validated, gate, lots>>

PipelineNext ==
    \/ CheckMarket \/ ReadRegime \/ NoSignal \/ ConstructTrade \/ Invalidate \/ Convince
    \/ Validate \/ CheckRisk \/ GuardExecution \/ SizeTrade \/ Shadow
PipelineSpec == PipelineInit /\ [][PipelineNext]_pipelineVars

-----------------------------------------------------------------------------
\* The market seen in a mirror: price x becomes Axis - x, so that what is bullish
\* there is bearish here.
Axis == 20000
Opposite(d) == IF d = "BUY" THEN "SELL" ELSE "BUY"
Inverted(word) ==
    CASE word = "bullish" -> "bearish" [] word = "bearish" -> "bullish"
      [] word = "up" -> "down" [] word = "down" -> "up"
      [] word \in Directions -> Opposite(word) [] OTHER -> word
Reflected(gaps) == [i \in DOMAIN gaps |-> [bottom |-> Axis - gaps[i].top, top |-> Axis - gaps[i].bottom,
                                          size |-> gaps[i].size]]
TurnedRound(open) == [i \in DOMAIN open |-> [open[i] EXCEPT !.direction = Inverted(@)]]
Mirror(m) ==
    [m EXCEPT !.ask = Axis - m.bid, !.bid = Axis - m.ask,
              !.ema200 = Axis - @, !.alma = Axis - @, !.vwap = Axis - @,
              !.emaFast = m.emaSlow, !.emaSlow = m.emaFast,
              !.macd = -@, !.pctB = 100 - @, !.rsi = 100 - @, !.swing = Inverted(@),
              !.bos = [bullish |-> m.bos.bearish, bearish |-> m.bos.bullish,
                       bullBreak |-> m.bos.bearBreak, bearBreak |-> m.bos.bullBreak],
              !.fvg = [bullish |-> Reflected(m.fvg.bearish), bearish |-> Reflected(m.fvg.bullish)],
              !.ff.up = m.ff.down, !.ff.down = m.ff.up,
              !.trendilo.slope = Inverted(@), !.dxy.block = Inverted(@), !.sentiment.bias = Inverted(@),
              !.open = TurnedRound(@),
              !.swingLows = {Axis - x : x \in m.swingHighs},
              !.swingHighs = {Axis - x : x \in m.swingLows}]
Reversed(sig) ==
    IF sig = NoTrade THEN NoTrade
    ELSE [sig EXCEPT !.direction = Inverted(@), !.entry = Axis - @, !.sl = Axis - @,
                     !.tp1 = Axis - @, !.tp2 = Axis - @]

\* Nothing favours one direction: a trade and its mirror image pass the same gates,
\* score the same, are built at mirrored prices and fail the same structural checks.
\* Every tool, the constructor and the invalidator spell the two directions out in
\* separate branches, which no test compares.
DirectionsAreTreatedAlike ==
    LET twin == Mirror(market) IN
    /\ stage = "regime" => \A d \in Directions :
          /\ \A t \in Tools : Gate(t, d, market) = Gate(t, Opposite(d), twin)
          /\ \A t \in DirectionAware : Features(t, d, market) = Features(t, Opposite(d), twin)
    /\ stage = "invalidation" =>
          /\ Construct(Opposite(signal.direction), signal.setup, signal.confidence, twin, card.params)
               = Reversed(signal)
          /\ FailuresNow = Failures(Reversed(signal), twin, card.params, RegimeTable[snapshot].setups,
                                   card.on, Required(card.mode, card.on))

\* Tools and invalidator judge the same readings with thresholds of their own; a
\* setup that the invalidator lets through without any failure is never one that a
\* tool it asks for would refuse (ema200 passes in both when price is beyond it).
StructureOf(setup) == RequiredChecks[setup] \ {"swing_ranging"}
InvalidatorIsStricter ==
    (stage = "conviction" /\ card.mode # "ai_signal" /\ Severity(FailuresNow) = "PASS") =>
        \A t \in StructureOf(signal.setup) \cap card.on :
            \/ Gate(t, signal.direction, market).passed
            \/ t = "ema200_filter" /\ Side(signal.direction, market) = market.ema200

\* Stop distance x lots stays within the risk that the account allows for the
\* confidence of the signal, up to half a lot step, whatever the layers of parameters
\* and the scalars did, unless the lots are the broker's minimum.  A trending regime
\* scales by 1.1, which the slippage buffer of the stop absorbs; where the sizer clamps
\* the buffered stop to the asset's widest, the loss may reach 1.1 times the budget,
\* and a stop beyond that width is not covered at all.
Loss == 5000 * (2 * lots - 1) * Points * Account.pipValue
Budget == Account.balance * RiskShare(validated, Account)
RiskWithinBudget ==
    lots > MinLots =>
        /\ 115 * Points <= 100 * Account.slMax => Loss <= Budget
        /\ Points <= Account.slMax => 10 * Loss <= 11 * Budget

\* The confidence that sizes the trade is the validator's, while the gates before it
\* judged the constructed one: the two are one risk tier apart at most, which doubles
\* the lots at most (and two lot steps of rounding).
ValidatorIsBounded ==
    outcome = "TRADE_OPENED" =>
        /\ RiskTier(validated) <= RiskTier(signal.confidence) + 25
        /\ lots <= 2 * LotsFor(signal.confidence) + 2
===============================================================================
