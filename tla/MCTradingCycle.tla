---------------------------- MODULE MCTradingCycle ---------------------------
(***************************************************************************)
(* Small instances of TradingCycle.  Signals and versions are model values *)
(* and interchangeable: the runs without a liveness property use that.     *)
(***************************************************************************)
EXTENDS TradingCycle, TLC

Symmetry == Permutations(Signal) \cup Permutations(Version)
=============================================================================
