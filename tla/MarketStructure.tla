--------------------------- MODULE MarketStructure ---------------------------
(***************************************************************************)
(* Breaks of structure, fair value gaps and swings, which the code reads   *)
(* off the last bars in three places: the context of the live loop         *)
(* (trading/loop.py _build_context), data/indicators.py for the vectorbt   *)
(* engine, and the helpers of backtester/runner.py.  Each sees another     *)
(* window of the same bars and has thresholds of its own.                  *)
(***************************************************************************)
EXTENDS Integers, Sequences, FiniteSets, SequencesExt, FiniteSetsExt

CONSTANTS Candles,     \* bars [low, high, close] that may follow one another
          Fetched,     \* bars the live loop asks for (250)
          Slice,       \* bars the vectorbt engine passes on (60)
          ShortSlice,  \* bars make_signal_fn passes for swings (41)
          Lookback,    \* bars a break or a gap is searched in (20)
          SwingWidth,  \* bars on either side of a swing (5)
          MinBreak,    \* smallest confirmed break (0.2 ATR)
          MinGap       \* smallest gap of indicators.py (0.05 ATR)

ASSUME StructureAssumption ==
    /\ Candles \subseteq [low : Int, high : Int, close : Int]
    /\ \A c \in Candles : c.low <= c.close /\ c.close <= c.high
    /\ Lookback \in Nat \ {0, 1} /\ SwingWidth \in Nat \ {0}
    /\ ShortSlice \in Nat /\ Slice \in Nat /\ Fetched \in Nat
    /\ 4 * SwingWidth <= ShortSlice /\ ShortSlice <= Slice /\ Lookback + 2 <= ShortSlice
    /\ Slice <= Fetched /\ MinBreak \in Nat /\ MinGap \in Nat

VARIABLE candles   \* the bars of the market, newest last, as many as the loop fetches

StructureInit == candles = <<>>

LastBars(s, n) == SubSeq(s, Max({1, Len(s) - n + 1}), Len(s))

NewCandle == \E c \in Candles : candles' = LastBars(Append(candles, c), Fetched)

StructureSpec == StructureInit /\ [][NewCandle]_candles

-----------------------------------------------------------------------------
(* Breaks of structure: the newest bar against the Lookback bars before it *)

\* Mutant: the newest bar is among the bars it is compared with.
BarsBeforeAndNow(s) == LastBars(s, Lookback)
BarsBefore(s) == LastBars(Front(s), Lookback)

HighestOf(s) == Max({s[i].high : i \in DOMAIN s})
LowestOf(s) == Min({s[i].low : i \in DOMAIN s})

\* The live loop: any close beyond them.
LiveBreak(s) ==
    [up |-> Last(s).close > HighestOf(BarsBefore(s)), down |-> Last(s).close < LowestOf(BarsBefore(s))]

\* detect_bos: a close beyond them by more than MinBreak.
ConfirmedBreak(s) ==
    LET before == LastBars(Front(s), Lookback)
    IN  [up |-> Last(s).close - HighestOf(before) > MinBreak,
         down |-> LowestOf(before) - Last(s).close > MinBreak]

\* _detect_bos_simple: the wick will do, and upwards first.
SimpleBreak(s) ==
    LET before == LastBars(Front(s), Lookback)
    IN  CASE Last(s).high > HighestOf(before) -> "bullish"
          [] Last(s).high <= HighestOf(before) /\ Last(s).low < LowestOf(before) -> "bearish"
          [] OTHER -> "neutral"

-----------------------------------------------------------------------------
(* Fair value gaps, by the age of their third bar; the newest bar has age 1 *)

Aged(s, age) == s[Len(s) + 1 - age]
GapUp(s, age) == Aged(s, age).low - Aged(s, age + 2).high
GapDown(s, age) == Aged(s, age + 2).low - Aged(s, age).high

LiveGaps(s) ==
    LET scan == Min({Lookback, Len(s) - 1})
        ages == {a \in 1 .. scan - 1 : a + 2 <= Len(s)}
    IN  [up |-> {a \in ages : GapUp(s, a) > 0}, down |-> {a \in ages : GapDown(s, a) > 0}]

\* detect_fvg: no smaller than MinGap and not traded through.
UnfilledGaps(s) ==
    LET ages == {a \in 1 .. Lookback : a + 2 <= Len(s)}
    IN  [up |-> {a \in ages : /\ GapUp(s, a) > 0 /\ GapUp(s, a) >= MinGap
                              /\ Last(s).close >= Aged(s, a + 2).high},
         down |-> {a \in ages : /\ GapDown(s, a) > 0 /\ GapDown(s, a) >= MinGap
                                /\ Last(s).close <= Aged(s, a + 2).low}]

\* _has_fvg: never with the newest bar.
SimpleGaps(s) ==
    LET ages == 2 .. Min({Lookback, Len(s) - 2}) - 1
    IN  [up |-> {a \in ages : GapUp(s, a) > 0}, down |-> {a \in ages : GapDown(s, a) > 0}]

-----------------------------------------------------------------------------
(* Swings: bars that are the highest, or the lowest, of SwingWidth on either side *)

Around(s, i) == SubSeq(s, i - SwingWidth, i + SwingWidth)
Centres(s) == SwingWidth + 1 .. Len(s) - SwingWidth
SwingHighs(s) == {i \in Centres(s) : s[i].high = HighestOf(Around(s, i))}
SwingLows(s) == {i \in Centres(s) : s[i].low = LowestOf(Around(s, i))}

Latest(at) == Max(at)
Earlier(at) == Max(at \ {Latest(at)})   \* the swing before the latest
TwoOf(at) == \E i \in at : at \ {i} # {}
TwoSwings(s) == TwoOf(SwingHighs(s)) /\ TwoOf(SwingLows(s))

Climb(s) ==
    /\ s[Latest(SwingHighs(s))].high > s[Earlier(SwingHighs(s))].high
    /\ s[Latest(SwingLows(s))].low > s[Earlier(SwingLows(s))].low
Drop(s) ==
    /\ s[Latest(SwingHighs(s))].high < s[Earlier(SwingHighs(s))].high
    /\ s[Latest(SwingLows(s))].low < s[Earlier(SwingLows(s))].low
Structure(s) ==
    CASE TwoSwings(s) /\ Climb(s) -> "bullish"
      [] TwoSwings(s) /\ Drop(s) -> "bearish"
      [] OTHER -> "ranging"

\* find_swing_highs_lows on the slice, the loop on what it fetched, make_signal_fn on
\* the short slice; the last two want four widths of bars.
WindowStructure(s) == Structure(LastBars(s, Slice))
LiveStructure(s) == IF Len(s) >= 4 * SwingWidth THEN Structure(s) ELSE "ranging"
SimpleStructure(s) ==
    LET bars == LastBars(s, ShortSlice)
    IN  IF Len(bars) >= 4 * SwingWidth THEN Structure(bars) ELSE "ranging"

-----------------------------------------------------------------------------
\* The three readings of one market agree as far as their definitions allow, once a
\* backtest reads at all: a confirmed break is a live break, and a live break is one
\* for make_signal_fn (an outside bar that closes below counts as bullish there); a
\* gap of a backtest is a live gap, but for the oldest position of detect_fvg; and
\* what the swings of a shorter window decide is what the live loop decides.
StructureParity ==
    LET slice == LastBars(candles, Slice) IN
    Len(candles) >= Slice =>
        /\ ConfirmedBreak(slice).up => LiveBreak(candles).up
        /\ ConfirmedBreak(slice).down => LiveBreak(candles).down
        /\ LiveBreak(candles).up => SimpleBreak(candles) = "bullish"
        /\ LiveBreak(candles).down => \/ SimpleBreak(candles) = "bearish"
                                   \/ Last(candles).high > HighestOf(BarsBefore(candles))
        /\ UnfilledGaps(slice).up \ {Lookback} \subseteq LiveGaps(candles).up
        /\ UnfilledGaps(slice).down \ {Lookback} \subseteq LiveGaps(candles).down
        /\ SimpleGaps(candles).up \subseteq LiveGaps(candles).up
        /\ SimpleGaps(candles).down \subseteq LiveGaps(candles).down
        /\ TwoSwings(slice) => LiveStructure(candles) = WindowStructure(candles)
        /\ SimpleStructure(candles) # "ranging" => LiveStructure(candles) = SimpleStructure(candles)
===============================================================================
