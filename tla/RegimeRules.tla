----------------------------- MODULE RegimeRules -----------------------------
(***************************************************************************)
(* The regime rules of the decision pipeline (pipeline/regime.py, with the *)
(* group weights of scoring/weights.py): the raw regime of one bar and the *)
(* parameters that each regime sets for the later stages.  Readings are    *)
(* integers: choppiness and ADX in tenths, ATR as a share of price in      *)
(* 1/10000, scores in points, sizes in percent.  0 stands for a reading    *)
(* that is missing or falsy, which the code replaces by its default.       *)
(***************************************************************************)
EXTENDS Integers, Sequences

\* In the order of the dictionary that _update_smoothed scans for the maximum.
RegimeOrder == <<"trending", "ranging", "volatile", "neutral">>
Regimes == {"trending", "ranging", "volatile", "neutral"}
Setups == {"pullback", "breakout", "reversal", "continuation", "range_bounce"}

OrElse(v, default) == IF v = 0 THEN default ELSE v

RawRegime(bar) ==
    LET ci == OrElse(bar.ci, 500)
        adx == OrElse(bar.adx, 250)
        atr == OrElse(bar.atr, 30)
    IN  CASE ci > 618 \/ adx < 150 -> "ranging"
          [] ~(ci > 618 \/ adx < 150) /\ ci < 382 /\ adx > 250 -> "trending"
          [] ~(ci > 618 \/ adx < 150) /\ ~(ci < 382 /\ adx > 250) /\ atr > 70 -> "volatile"
          [] OTHER -> "neutral"

Weights(trend, momentum, structure, volume, volatility) ==
    [trend |-> trend, momentum |-> momentum, structure |-> structure, volume |-> volume,
     volatility |-> volatility]
DefaultWeights == Weights(30, 25, 20, 10, 15)

RegimeTable ==
    [trending |-> [setups |-> {"pullback", "breakout", "continuation"},
                   ceiling |-> 95, adjust |-> -5, size |-> 110,
                  weights |-> Weights(35, 25, 15, 10, 15)],
     ranging  |-> [setups |-> {"range_bounce", "reversal"},
                   ceiling |-> 80, adjust |-> 5, size |-> 80,
                  weights |-> Weights(15, 20, 35, 10, 20)],
     volatile |-> [setups |-> {"pullback", "reversal"},
                   ceiling |-> 85, adjust |-> 10, size |-> 60,
                  weights |-> Weights(20, 20, 25, 10, 25)],
     neutral  |-> [setups |-> Setups, ceiling |-> 90, adjust |-> 0, size |-> 100,
                  weights |-> DefaultWeights]]
==============================================================================
