----------------------------- MODULE BacktestSim -----------------------------
(***************************************************************************)
(* The two backtest engines on the same bars.  BacktestEngine              *)
(* (backtester/engine.py) asks make_signal_fn bar by bar: a signal of a    *)
(* bar is a trade at the open of the next one, with a stop of its own, and *)
(* it is booked when it closes.  run_vectorbt_backtest (vbt_engine.py)     *)
(* enters at the close with the levels of the TradeConstructor, marks      *)
(* entries and exits in one pass and pairs them in a second one.  Prices   *)
(* are integers.  Money is left out: the lots of a trade are such that the *)
(* distance from its entry to its stop is worth risk_pct of the equity.    *)
(***************************************************************************)
EXTENDS Integers, Sequences, FiniteSetsExt, SequencesExt

CONSTANTS
    SimBars,     \* bars [open, low, high, close]
    Offers,      \* trades [side, stop, target]: distances from the price, side 1 or -1
    Cost,        \* spread_pips + slippage_pips, which only the event-driven engine knows
    MaxSimBars   \* bound: bars after the look-back

ASSUME SimAssumption ==
    /\ \A b \in SimBars : /\ {b.open, b.low, b.high, b.close} \subseteq Int
                          /\ b.low <= b.close /\ b.close <= b.high
    /\ \A o \in Offers : o.side \in {-1, 1} /\ o.stop \in Nat \ {0} /\ o.target \in Nat \ {0}
    /\ Cost \in Nat /\ MaxSimBars \in Nat

VARIABLES
    tape,      \* bars so far
    holding,   \* open_trade of the event-driven engine, or Flat
    closed,    \* its trades
    position,  \* the trade of the vectorised loop, or Flat
    entries,   \* its entries: [bar, side, entry, sl, tp], in order
    exits,     \* its exit bars
    progress   \* "run", "done", or "raised": what run_vectorbt_backtest came to
simVars == <<tape, holding, closed, position, entries, exits, progress>>

Flat == [side |-> 0]

SimInit ==
    /\ tape = <<>> /\ holding = Flat /\ closed = <<>>
    /\ position = Flat /\ entries = <<>> /\ exits = <<>> /\ progress = "run"

Beyond(b, side, price) == IF side = 1 THEN b.low <= price ELSE b.high >= price
StopHit(b, t) == Beyond(b, t.side, t.sl)
TargetHit(b, t) == Beyond(b, -t.side, t.tp)

Trade(offer, i, price) ==
    [bar |-> i, side |-> offer.side, entry |-> price,
     sl |-> price - offer.side * offer.stop, tp |-> price + offer.side * offer.target]

-----------------------------------------------------------------------------
(* BacktestEngine *)

\* Costs worsen the entry and leave the levels; the lots are taken from the worse entry.
OpenTrade(offer, i, price) == [Trade(offer, i, price) EXCEPT !.entry = @ + offer.side * Cost]

Booking(t, i, outcome, price) ==
    [bar |-> t.bar, side |-> t.side, sl |-> t.sl, tp |-> t.tp, exit |-> i, outcome |-> outcome,
     gain |-> t.side * (price - t.entry), risk |-> t.side * (t.entry - t.sl)]

\* Mutant: the favourable touch counts first.
CheckExitHopeful(b, t, i) ==
    IF TargetHit(b, t) THEN <<Booking(t, i, "WIN", t.tp)>>
    ELSE IF StopHit(b, t) THEN <<Booking(t, i, "LOSS", t.sl)>> ELSE <<>>

\* _check_exit; the second target is not modelled, since the first one is nearer and
\* closes the whole trade.
CheckExit(b, t, i) ==
    IF StopHit(b, t) THEN <<Booking(t, i, "LOSS", t.sl)>>
    ELSE IF TargetHit(b, t) THEN <<Booking(t, i, "WIN", t.tp)>> ELSE <<>>

\* An iteration of BacktestEngine.run at the bar i; the signal function may offer a trade
\* at the open of the bar after it.  The bar of an exit is not asked for a signal.
RunBar(b, i, offered, nextOpen) ==
    IF holding # Flat
    THEN /\ closed' = closed \o CheckExit(b, holding, i)
         /\ holding' = IF CheckExit(b, holding, i) = <<>> THEN holding ELSE Flat
    ELSE /\ holding' = IF offered = {} THEN Flat ELSE OpenTrade(CHOOSE o \in offered : TRUE, i, nextOpen)
         /\ UNCHANGED closed

\* After the last bar what is open is closed at its close.
CloseRest(trades, held, i) ==
    IF held = Flat THEN trades
    ELSE Append(trades, Booking(held, i, "BREAKEVEN", tape[i].close))

-----------------------------------------------------------------------------
(* run_vectorbt_backtest *)

\* A bar that touches both levels is a loss.
ExitReason(b, t) ==
    IF StopHit(b, t) THEN "stop" ELSE IF TargetHit(b, t) THEN "target" ELSE "none"

\* An iteration of its loop; an exit bar never enters.  (Without session_filter, with which
\* it raises instead of entering: VectorBar in module BacktestFilters.)
ScanBar(b, i, offered) ==
    IF position # Flat
    THEN /\ IF ExitReason(b, position) = "none" THEN UNCHANGED <<position, exits>>
            ELSE /\ position' = Flat /\ exits' = Append(exits, i)
         /\ UNCHANGED entries
    ELSE /\ IF offered = {} THEN UNCHANGED <<position, entries>>
            ELSE \E o \in offered : /\ position' = Trade(o, i, b.close)
                                    /\ entries' = Append(entries, position')
         /\ UNCHANGED exits

\* The entries that an exit follows; the metrics of a trade read the name "timestamps",
\* which nothing defines.
Paired == {k \in DOMAIN entries : \E e \in DOMAIN exits : exits[e] > entries[k].bar}
VectorAnswer == IF Paired = {} THEN "done" ELSE "raised"

-----------------------------------------------------------------------------
OneOrNone == {{}} \cup {{o} : o \in Offers}

\* The next bar: the vectorised loop takes it, the event-driven one the bar before it,
\* whose signal is entered at the open of this one.
NextBar ==
    /\ progress = "run" /\ Len(tape) < MaxSimBars
    /\ \E b \in SimBars, scanned, signalled \in OneOrNone :
          /\ tape' = Append(tape, b)
          /\ ScanBar(b, Len(tape'), scanned)
          /\ IF tape = <<>> THEN UNCHANGED <<holding, closed>>
             ELSE RunBar(Last(tape), Len(tape), signalled, b.open)
    /\ UNCHANGED progress

\* The end of the data, where no next bar gives a signal its entry; or the end of a window
\* of walk_forward, one bar before it.
Finish ==
    /\ progress = "run" /\ tape # <<>>
    /\ \/ LET n == Len(tape)
              done == IF holding = Flat THEN <<>> ELSE CheckExit(tape[n], holding, n)
          IN  closed' = CloseRest(closed \o done, IF done = <<>> THEN holding ELSE Flat, n)
       \/ Len(tape) > 1 /\ closed' = CloseRest(closed, holding, Len(tape) - 1)
    /\ holding' = Flat /\ progress' = VectorAnswer
    /\ UNCHANGED <<tape, position, entries, exits>>

SimNext == NextBar \/ Finish
SimSpec == SimInit /\ [][SimNext]_simVars

-----------------------------------------------------------------------------
\* What the market closed it closed on the first bar after the signal that touches a
\* level, as a loss if that bar touches both.
FirstTouch(bars, t) ==
    t.outcome # "BREAKEVEN" =>
        /\ t.exit > t.bar
        /\ \A i \in t.bar + 1 .. t.exit - 1 : ~StopHit(bars[i], t) /\ ~TargetHit(bars[i], t)
        /\ IF t.outcome = "LOSS" THEN StopHit(bars[t.exit], t)
           ELSE TargetHit(bars[t.exit], t) /\ ~StopHit(bars[t.exit], t)

\* A trade loses what it risked and never more, whatever the costs, and a stop exactly
\* that; except the trade of the last bar of a window, which is closed at a price from
\* before its entry.
WithinRisk(t) ==
    /\ t.outcome = "LOSS" => t.gain = -t.risk
    /\ ~(t.outcome = "BREAKEVEN" /\ t.exit = t.bar) => t.gain >= -t.risk

\* The event-driven engine, which the seed lab, the comparison and the optimiser use,
\* books one trade at a time, none on the bar that closed another, each as its levels and
\* the bars say and within its risk.  The vectorised one answers only for data on which no
\* trade closed: with nothing to count, and one entry at most.
BacktestsAreSound ==
    /\ \A k \in DOMAIN closed : FirstTouch(tape, closed[k]) /\ WithinRisk(closed[k])
    /\ \A k \in 2 .. Len(closed) : closed[k].bar > closed[k - 1].exit
    /\ progress = "done" => exits = <<>> /\ Len(entries) <= 1
===============================================================================
