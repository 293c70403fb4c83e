--------------------------- MODULE StopManagement ---------------------------
(***************************************************************************)
(* The stop of one open trade of a live instance: TradeRepositioner        *)
(* (risk/repositioner.py), TrailingStopManager (risk/trailing_manager.py)  *)
(* and TradingLoop._reposition_open_trades, which runs both in each cycle, *)
(* asks the broker to move the stop (mt5_executor.modify_sl_tp) and leaves *)
(* the new stop to the commit at the end of the cycle.  Prices are in      *)
(* steps; side is 1 for BUY and -1 for SELL.                               *)
(***************************************************************************)
EXTENDS Integers

CONSTANTS
    Trades,        \* records [side, entry, stop]: a trade as it was opened
    StopPrices,    \* prices that the market may quote
    TrailDistance, \* ATR * trail_atr_mult, or trail_pips * pip_size
    Activation,    \* trail_activation_rr
    MinStep,       \* step_min_pips * pip_size
    MaxStopCycles  \* bound: cycles

ASSUME StopAssumption ==
    /\ Trades \subseteq [side : {-1, 1}, entry : Nat, stop : Nat]
    /\ \A t \in Trades : t.side * (t.entry - t.stop) > 0
    /\ StopPrices \subseteq Nat \ {0} /\ TrailDistance \in Nat \ {0}
    /\ Activation \in Nat /\ MinStep \in Nat /\ MaxStopCycles \in Nat

Quotes == StopPrices \cup {0}   \* 0: no quote

VARIABLES
    trade,      \* the trade as opened
    held,       \* committed TradeLog columns stop_loss and trail_high_water
    draft,      \* the same columns in the session of the cycle
    brokerStop, \* the stop that the broker holds
    open,       \* the position exists at the broker
    step,       \* where _reposition_open_trades stands
    quote,      \* current_price of this cycle
    stopCycles,
    unsaved     \* ghost: a stop that the broker accepted was never committed
stopVars == <<trade, held, draft, brokerStop, open, step, quote, stopCycles, unsaved>>

Abs(x) == IF x < 0 THEN -x ELSE x
Better(a, b) == trade.side * (a - b) > 0
Further(a, b) == IF Better(a, b) THEN a ELSE b

StopInit ==
    /\ trade \in Trades /\ held = [stop |-> trade.stop, high |-> 0] /\ draft = held
    /\ brokerStop = trade.stop /\ open = TRUE /\ step = "idle" /\ quote = 0
    /\ stopCycles = 0 /\ unsaved = FALSE

\* The cycle reads the open trades, then the price; both may fail.
StartCycle ==
    /\ step = "idle" /\ stopCycles < MaxStopCycles
    /\ stopCycles' = stopCycles + 1 /\ draft' = held
    /\ \E q \in Quotes : quote' = q
    /\ step' = "reposition"
    /\ UNCHANGED <<trade, held, brokerStop, open, unsaved>>

\* modify_sl_tp(s): the result is not looked at; the row takes the stop anyway.
Modify(s) ==
    /\ draft' = [draft EXCEPT !.stop = s]
    /\ \/ open /\ brokerStop' = s
       \/ brokerStop' = brokerStop

InProfit == quote # 0 /\ Better(quote, trade.entry)

\* TradeRepositioner.check: high-impact news within 15 minutes, a volume spike
\* or a volatility spike sets the stop of a winning trade to its entry, however
\* far it had come.  (A partial close carries no lots and is never sent.)
Reposition ==
    /\ step = "reposition" /\ step' = "trail"
    /\ \/ InProfit /\ Modify(trade.entry)
       \/ UNCHANGED <<draft, brokerStop>>
    /\ UNCHANGED <<trade, held, open, quote, stopCycles, unsaved>>

HighWater == Further(IF draft.high = 0 THEN trade.entry ELSE draft.high, quote)

\* Mutant: any new stop that is a step away counts.
ProposedUnclamped == HighWater - trade.side * TrailDistance
Proposed == Further(HighWater - trade.side * TrailDistance, draft.stop)

\* TrailingStopManager.evaluate: the risk is measured from the present stop.
TrailDue ==
    LET risk == Abs(trade.entry - draft.stop)
    IN  /\ quote # 0 /\ risk > 0
        /\ trade.side * (quote - trade.entry) >= Activation * risk
        /\ Abs(Proposed - draft.stop) >= MinStep

Trail ==
    /\ step = "trail" /\ step' = "commit"
    /\ \/ /\ TrailDue
          /\ draft' = [stop |-> Proposed, high |-> HighWater]
          /\ \/ open /\ brokerStop' = Proposed
             \/ brokerStop' = brokerStop
       \/ ~TrailDue /\ UNCHANGED <<draft, brokerStop>>
    /\ UNCHANGED <<trade, held, open, quote, stopCycles, unsaved>>

Uncommitted == draft.stop # held.stop
LoseDraft ==
    /\ unsaved' = (unsaved \/ Uncommitted) /\ draft' = held
    /\ UNCHANGED <<trade, held, brokerStop, open, quote, stopCycles>>

\* The finally clause of _cycle commits the session, or rolls it back.
Commit ==
    /\ step = "commit" /\ step' = "idle" /\ held' = draft
    /\ unsaved' = (unsaved /\ brokerStop # draft.stop)
    /\ UNCHANGED <<trade, draft, brokerStop, open, quote, stopCycles>>
Rollback == step = "commit" /\ step' = "idle" /\ LoseDraft
Crash == step # "idle" /\ step' = "idle" /\ LoseDraft

\* The market reaches the stop at the broker; nobody tells the row.
StoppedOut ==
    /\ open /\ open' = FALSE
    /\ \E p \in StopPrices : ~Better(p, brokerStop)
    /\ UNCHANGED <<trade, held, draft, brokerStop, step, quote, stopCycles, unsaved>>

StopNext == StartCycle \/ Reposition \/ Trail \/ Commit \/ Rollback \/ Crash \/ StoppedOut
StopSpec == StopInit /\ [][StopNext]_stopVars

-----------------------------------------------------------------------------
\* "Never widens SL" (trailing_manager.py): the stop that the broker holds moves
\* back only to the entry, by a reposition, or after a cycle whose new stop the
\* broker accepted and the database lost.
StopsAdvance ==
    [][Better(brokerStop, brokerStop') =>
          \/ unsaved
          \/ step = "reposition" /\ brokerStop' = trade.entry]_stopVars
=============================================================================
