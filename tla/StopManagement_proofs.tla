------------------------ MODULE StopManagement_proofs -------------------------
(***************************************************************************)
(* Theorems about StopManagement, for any trades, prices, distances and    *)
(* thresholds.                                                             *)
(***************************************************************************)
EXTENDS StopManagement, TLAPS

Stop == [stop : Int, high : Int]

StopTypes ==
    /\ trade.side \in {-1, 1} /\ trade.entry \in Int
    /\ held \in Stop /\ draft \in Stop /\ brokerStop \in Int /\ quote \in Int
    /\ step \in {"idle", "reposition", "trail", "commit"} /\ unsaved \in BOOLEAN

\* The stop that the broker holds is no further than the row's, or the row says entry: a
\* trailing step then measures no risk and does nothing.
NotBehind(s) == s = trade.entry \/ ~Better(brokerStop, s)

\* The row that counts is the committed one between cycles, and the session's in a cycle.
RowKeepsUp ==
    ~unsaved => NotBehind(IF step = "idle" THEN held.stop ELSE draft.stop)

StopInv == StopTypes /\ RowKeepsUp

----------------------------------------------------------------------------
\* For a BUY a better stop is a higher one, for a SELL a lower one.
LEMMA BetterIs ==
  ASSUME trade.side \in {-1, 1}, NEW a \in Int, NEW b \in Int
  PROVE  Better(a, b) <=> IF trade.side = 1 THEN a > b ELSE a < b
<1>1. CASE trade.side = 1
  BY <1>1 DEF Better
<1>2. CASE trade.side = -1
  BY <1>2 DEF Better
<1> QED
  BY <1>1, <1>2

\* A trailing stop is never worse than the one it replaces.
LEMMA ProposedAdvances ==
  ASSUME StopTypes
  PROVE  Proposed \in Int /\ HighWater \in Int /\ ~Better(draft.stop, Proposed)
<1> USE DEF StopTypes, Stop
<1>1. HighWater \in Int
  BY DEF HighWater, Further
<1>2. HighWater - trade.side * TrailDistance \in Int
  <2>1. CASE trade.side = 1
    BY <1>1, <2>1, StopAssumption
  <2>2. CASE trade.side = -1
    BY <1>1, <2>2, StopAssumption
  <2> QED
    BY <2>1, <2>2
<1> DEFINE new == HighWater - trade.side * TrailDistance
<1>3. new \in Int /\ Proposed = Further(new, draft.stop)
  BY <1>2 DEF Proposed
<1> HIDE DEF new
<1>4. Proposed \in {new, draft.stop} /\ (Proposed = draft.stop \/ Better(Proposed, draft.stop))
  BY <1>3 DEF Further
<1>5. Proposed \in Int
  BY <1>3, <1>4
<1>6. ~Better(draft.stop, Proposed)
  BY <1>4, <1>5, BetterIs
<1> QED
  BY <1>1, <1>5, <1>6

\* A due trailing step does not take the broker's stop back.
LEMMA TrailAdvances ==
  ASSUME StopInv, Trail, TrailDue, ~unsaved
  PROVE  ~Better(brokerStop, Proposed)
<1>1. NotBehind(draft.stop)
  BY DEF StopInv, RowKeepsUp, Trail
<1>2. draft.stop # trade.entry
  BY DEF TrailDue, Abs, StopInv, StopTypes, Stop
<1>3. ~Better(brokerStop, draft.stop)
  BY <1>1, <1>2 DEF NotBehind
<1> QED
  BY <1>3, ProposedAdvances, BetterIs DEF StopInv, StopTypes, Stop

----------------------------------------------------------------------------
LEMMA StopInitInv == StopInit => StopInv
<1> SUFFICES ASSUME StopInit PROVE StopInv
  OBVIOUS
<1>1. trade.side \in {-1, 1} /\ trade.entry \in Nat /\ trade.stop \in Nat
  BY StopAssumption DEF StopInit
<1>2. held \in Stop /\ draft \in Stop
  BY <1>1 DEF StopInit, Stop
<1>3. StopTypes
  <2>1. brokerStop = trade.stop /\ quote = 0 /\ step = "idle" /\ unsaved = FALSE
    BY DEF StopInit
  <2>2. trade.entry \in Int /\ trade.stop \in Int /\ 0 \in Int
    BY <1>1
  <2>3. trade.side \in {-1, 1}
    BY <1>1
  <2> QED
    BY <1>2, <2>1, <2>2, <2>3, Zenon DEF StopTypes
<1>4. ~Better(brokerStop, held.stop)
  BY <1>1, BetterIs DEF StopInit
<1> QED
  BY <1>3, <1>4 DEF StopInit, StopInv, RowKeepsUp, NotBehind

LEMMA TrailInv ==
  ASSUME StopInv, Trail
  PROVE  StopInv'
<1>1. StopTypes'
  <2>1. Proposed \in Int /\ HighWater \in Int
    BY ProposedAdvances DEF StopInv
  <2>2. draft' \in {draft, [stop |-> Proposed, high |-> HighWater]}
        /\ brokerStop' \in {brokerStop, Proposed} /\ step' = "commit"
        /\ UNCHANGED <<trade, held, quote, unsaved>>
    BY DEF Trail
  <2> HIDE DEF Proposed, HighWater
  <2> QED
    BY <2>1, <2>2 DEF StopInv, StopTypes, Stop
<1>2. CASE ~TrailDue
  BY <1>1, <1>2 DEF Trail, StopInv, RowKeepsUp, NotBehind, Better
<1>3. CASE TrailDue /\ ~unsaved
  <2>1. ~Better(brokerStop, Proposed) /\ ~Better(Proposed, Proposed)
    BY <1>3, TrailAdvances, ProposedAdvances, BetterIs DEF StopInv, StopTypes
  <2>2. draft' = [stop |-> Proposed, high |-> HighWater] /\ brokerStop' \in {Proposed, brokerStop}
        /\ step' = "commit" /\ trade' = trade
    BY <1>3 DEF Trail
  <2>3. ~Better(brokerStop', draft'.stop)
    BY <2>1, <2>2
  <2> QED
    BY <1>1, <2>2, <2>3 DEF StopInv, RowKeepsUp, NotBehind, Better
<1>4. CASE TrailDue /\ unsaved
  BY <1>1, <1>4 DEF Trail, StopInv, RowKeepsUp
<1> QED
  BY <1>2, <1>3, <1>4 DEF StopInv, StopTypes

\* What is lost leaves the row as it was, and the ghost says so.
LEMMA LoseInv ==
  ASSUME StopInv, step # "idle", step' = "idle", LoseDraft
  PROVE  StopInv'
<1>1. StopTypes'
  BY DEF LoseDraft, Uncommitted, StopInv, StopTypes
<1>2. ~unsaved' => ~unsaved /\ held.stop = draft.stop
  BY DEF LoseDraft, Uncommitted
<1> QED
  BY <1>1, <1>2 DEF LoseDraft, StopInv, RowKeepsUp, NotBehind, Better

LEMMA StopNextInv ==
  ASSUME StopInv, [StopNext]_stopVars
  PROVE  StopInv'
<1> USE DEF StopInv, StopTypes, Stop, RowKeepsUp, NotBehind
<1>1. CASE StartCycle
  BY <1>1, StopAssumption DEF StartCycle, Quotes, Better
<1>2. CASE Reposition
  <2>1. CASE UNCHANGED <<draft, brokerStop>>
    BY <1>2, <2>1 DEF Reposition, Better
  <2>2. CASE Modify(trade.entry)
    BY <1>2, <2>2 DEF Reposition, Modify
  <2> QED
    BY <1>2, <2>1, <2>2 DEF Reposition
<1>3. CASE Trail
  BY <1>3, TrailInv
<1>4. CASE Commit
  <2>1. brokerStop = draft.stop => ~Better(brokerStop, draft.stop)
    BY BetterIs
  <2> QED
    BY <1>4, <2>1 DEF Commit, Better
<1>5. CASE Rollback \/ Crash
  BY <1>5, LoseInv DEF Rollback, Crash
<1>6. CASE StoppedOut
  BY <1>6 DEF StoppedOut, Better
<1>7. CASE UNCHANGED stopVars
  BY <1>7 DEF stopVars, Better
<1> QED
  BY <1>1, <1>2, <1>3, <1>4, <1>5, <1>6, <1>7 DEF StopNext

\* The broker's stop moves back only to the entry, by a reposition, or after a cycle
\* whose stop was lost (trailing_manager.py, "Never widens SL").
THEOREM StopsOnlyAdvance == StopSpec => StopsAdvance
<1>1. StopInv /\ [StopNext]_stopVars =>
        [Better(brokerStop, brokerStop') =>
            \/ unsaved
            \/ step = "reposition" /\ brokerStop' = trade.entry]_stopVars
  <2> SUFFICES ASSUME StopInv, StopNext, Better(brokerStop, brokerStop'), ~unsaved
               PROVE  step = "reposition" /\ brokerStop' = trade.entry
    BY DEF stopVars
  <2>1. brokerStop' # brokerStop
    BY BetterIs DEF StopInv, StopTypes
  <2>2. ~Trail
    BY <2>1, TrailAdvances DEF Trail
  <2> QED
    BY <2>1, <2>2
       DEF StopNext, StartCycle, Reposition, Modify, Commit, Rollback, Crash, LoseDraft, StoppedOut
<1>2. StopInv /\ [StopNext]_stopVars => StopInv'
  BY StopNextInv
<1> QED
  BY <1>1, <1>2, StopInitInv, PTL DEF StopSpec, StopsAdvance
=============================================================================
