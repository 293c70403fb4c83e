---------------------------- MODULE Backtest_proofs ----------------------------
(***************************************************************************)
(* Theorems about BacktestJobs, for any number of generations, any Sharpe  *)
(* ratios, and any number of faults and calls; and about BacktestSim, for  *)
(* any bars, offers, costs and number of bars.                             *)
(***************************************************************************)
EXTENDS BacktestJobs, BacktestSim, TLAPS

\* Where a task is before it makes a strategy version, or when it leaves without one.
BeforeVersion ==
    {"queued", "fetch", "load", "baseline", "again", "generation", "optimizing", "version",
     "pausing", "returning"}
Tasks == BeforeVersion \cup {"none", "completing", "done"}
Runs == {"absent", "pending", "running", "paused", "completed", "failed"}

JobTypes ==
    /\ run \in Runs /\ task \in Tasks
    /\ handler \in [kind : {"none", "create", "stop", "resume", "delete", "unlinked"}, seen : Runs]
    /\ versions \in Nat /\ faults \in Nat /\ overtaken \in Nat /\ calls \in Nat

\* The run has paid for the versions it made, so it may make another one.
Paid == versions <= faults + overtaken

\* A task on its way to a version has paid for the earlier ones; so has a row that
\* shows the run as unfinished, unless its version is about to be reported or the row
\* is about to go.  A request to create finds nothing done.
Accounts ==
    /\ OneVersion
    /\ task \in BeforeVersion => Paid
    /\ run \in {"running", "paused"} /\ task # "completing" /\ handler.kind # "unlinked" => Paid
    /\ handler.kind = "create" => task = "none" /\ versions = 0
    /\ calls = 0 => run = "absent" /\ task = "none" /\ versions = 0 /\ handler = NoRequest

JobInv == JobTypes /\ Accounts

LEMMA JobInitInv == JobInit => JobInv
BY JobAssumption
   DEF JobInit, JobInv, JobTypes, Accounts, OneVersion, Paid, NoRequest, Tasks, BeforeVersion, Runs

\* A task that makes no version, or comes to rest, keeps the accounts.
LEMMA TaskStepAccounts ==
  ASSUME JobInv, TaskStep \/ LoseState
  PROVE  JobInv'
<1> USE DEF JobInv, JobTypes, Accounts, OneVersion, Paid, NoRequest, Tasks, BeforeVersion, Runs,
            TaskOnly, SetRun
<1>1. CASE Begin \/ FetchData \/ LoadCheckpoint \/ Baseline
  BY <1>1 DEF Begin, FetchData, LoadCheckpoint, Baseline
<1>2. CASE TooFewTrades \/ Fail \/ Complete
  BY <1>2 DEF TooFewTrades, Fail, Complete, Settle
<1>3. CASE StopAtBoundary \/ StopInOptimizer
  BY <1>3 DEF StopAtBoundary, StopInOptimizer, PauseRun
<1>4. CASE StartGeneration \/ EndGeneration \/ GiveUp \/ LastGeneration
  BY <1>4 DEF StartGeneration, EndGeneration, GiveUp, LastGeneration
<1>5. CASE CreateVersion
  BY <1>5 DEF CreateVersion
<1>6. CASE CommitPause \/ Return
  BY <1>6 DEF CommitPause, Return
<1>7. CASE LoseState
  \* The lost write pays for the version that it does not report.
  BY <1>7 DEF LoseState
<1> QED
  BY <1>1, <1>2, <1>3, <1>4, <1>5, <1>6, <1>7 DEF TaskStep

\* A resume starts a task for a row that was read as unfinished: when it still is, the
\* run has paid; when it is not, the resume counts as overtaken and pays itself.
LEMMA ResumeAccounts ==
  ASSUME JobInv, Resume
  PROVE  JobInv'
<1> USE DEF JobInv, JobTypes, OneVersion, Paid, NoRequest, Tasks, BeforeVersion, Runs
<1>1. ~Alive => Paid' /\ OneVersion'
  <2>1. ~Alive => task \in {"none", "done"} /\ handler.seen \in {"running", "paused"}
    BY DEF Resume, Resumable, LooksCrashed, Alive
  <2>2. versions' = versions /\ faults' = faults
    BY DEF Resume, Answer
  <2>3. CASE run = handler.seen
    BY <2>1, <2>2, <2>3 DEF Accounts, Resume, CountOvertaken
  <2>4. CASE run # handler.seen
    BY <2>2, <2>4 DEF Accounts, Resume, CountOvertaken
  <2> QED
    BY <2>3, <2>4
<1>2. JobTypes'
  BY DEF Resume, StartTask, CountOvertaken, Answer, PauseLost, SetRun
<1>3. calls' # 0
  BY DEF Resume, Answer, Accounts
<1> QED
  BY <1>1, <1>2, <1>3
     DEF Resume, Accounts, StartTask, CountOvertaken, Answer, PauseLost, SetRun, LooksCrashed, Alive

LEMMA HandlersAccounts ==
  ASSUME JobInv,
         Create \/ ReadRun \/ StartCreated \/ RequestStop \/ StopLost \/ Refuse
         \/ DeleteData \/ DeleteRow \/ CrashWeb
  PROVE  JobInv'
<1> USE DEF JobInv, JobTypes, Accounts, OneVersion, Paid, NoRequest, Tasks, BeforeVersion, Runs,
            Answer, SetRun
<1>1. CASE Create \/ ReadRun
  BY <1>1 DEF Create, ReadRun
<1>2. CASE StartCreated
  BY <1>2 DEF StartCreated, StartTask, Alive
<1>3. CASE RequestStop \/ Refuse
  BY <1>3 DEF RequestStop, Refuse
<1>4. CASE StopLost
  BY <1>4 DEF StopLost, LooksCrashed, Alive, PauseLost, CountOvertaken
<1>5. CASE DeleteData \/ DeleteRow
  BY <1>5 DEF DeleteData, DeleteRow
<1>6. CASE CrashWeb
  BY <1>6 DEF CrashWeb
<1> QED
  BY <1>1, <1>2, <1>3, <1>4, <1>5, <1>6

LEMMA JobNextInv ==
  ASSUME JobInv, [JobNext]_jobVars
  PROVE  JobInv'
<1>1. CASE UNCHANGED jobVars
  BY <1>1 DEF jobVars, JobInv, JobTypes, Accounts, OneVersion, Paid
<1>2. CASE JobNext
  BY <1>2, TaskStepAccounts, ResumeAccounts, HandlersAccounts DEF JobNext
<1> QED
  BY <1>1, <1>2

\* A run that is stopped, resumed, deleted and crashed in any order makes one strategy
\* version, and one more for each crash, lost write or overtaken request.
THEOREM OneVersionPerRun == JobSpec => []OneVersion
<1>1. JobInit => JobInv
  BY JobInitInv
<1>2. JobInv /\ [JobNext]_jobVars => JobInv'
  BY JobNextInv
<1>3. JobInv => OneVersion
  BY DEF JobInv, Accounts
<1> QED
  BY <1>1, <1>2, <1>3, PTL DEF JobSpec

-----------------------------------------------------------------------------
\* The search of a task is ahead of its checkpoint: the generation it works on comes
\* after the one on disk, and its best Sharpe ratio is no worse.  A first baseline finds
\* none on disk.
SearchAhead ==
    /\ search \in [gen : Nat, best : Int, streak : Nat] /\ search.best >= NoSharpe
    /\ checkpoint \in [gen : Nat, best : Int] /\ checkpoint.best >= NoSharpe
    /\ checkpoint.gen = 0 => checkpoint = NoCheckpoint
    /\ task = "baseline" => checkpoint = NoCheckpoint
    /\ task \in {"generation", "optimizing"} =>
          search.gen >= 2 /\ search.gen > checkpoint.gen /\ search.best >= checkpoint.best

Advances ==
    \/ checkpoint' = NoCheckpoint
    \/ checkpoint'.gen >= checkpoint.gen /\ checkpoint'.best >= checkpoint.best
    \/ task = "again" /\ checkpoint'.gen = 1

LEMMA SearchTask ==
  ASSUME SearchAhead, TaskStep \/ LoseState
  PROVE  SearchAhead' /\ Advances
<1> USE JobAssumption DEF SearchAhead, Advances, NoSharpe, NoCheckpoint
<1>1. CASE Begin \/ FetchData \/ CreateVersion \/ CommitPause \/ Return \/ LoseState
  BY <1>1 DEF Begin, FetchData, CreateVersion, CommitPause, Return, LoseState
<1>2. CASE LoadCheckpoint
  BY <1>2 DEF LoadCheckpoint, FirstGeneration, Larger, NoSearch
<1>3. CASE Baseline
  BY <1>3 DEF Baseline
<1>4. CASE TooFewTrades \/ Fail \/ Complete
  BY <1>4 DEF TooFewTrades, Fail, Complete, Settle
<1>5. CASE StopAtBoundary \/ StopInOptimizer
  BY <1>5 DEF StopAtBoundary, StopInOptimizer, PauseRun
<1>6. CASE StartGeneration \/ LastGeneration
  BY <1>6 DEF StartGeneration, LastGeneration
<1>7. CASE EndGeneration
  <2>1. /\ search' \in [gen : Nat, best : Int, streak : Nat] /\ search'.gen = search.gen + 1
        /\ search'.best >= search.best
    <3>1. CASE \E s \in Sharpes : s > search.best
                  /\ search' = [gen |-> search.gen + 1, best |-> s, streak |-> 0]
      BY <3>1
    <3>2. CASE search' = [search EXCEPT !.gen = @ + 1, !.streak = @ + 1]
      <4>1. search' = [gen |-> search.gen + 1, best |-> search.best, streak |-> search.streak + 1]
        BY <3>2
      <4> QED
        BY <4>1
    <3> QED
      BY <1>7, <3>1, <3>2 DEF EndGeneration
  <2>2. checkpoint' = [gen |-> search.gen, best |-> search'.best] /\ task' = "generation"
        /\ task = "optimizing"
    BY <1>7 DEF EndGeneration
  <2> QED
    BY <2>1, <2>2
<1>8. CASE GiveUp
  BY <1>8 DEF GiveUp
<1> QED
  BY <1>1, <1>2, <1>3, <1>4, <1>5, <1>6, <1>7, <1>8 DEF TaskStep

\* A handler starts a task from its first step, or throws the checkpoint away.
LEMMA SearchHandlers ==
  ASSUME SearchAhead, ~(TaskStep \/ LoseState), [JobNext]_jobVars
  PROVE  SearchAhead' /\ Advances
<1> USE DEF SearchAhead, Advances, NoSharpe, NoCheckpoint
<1>1. CASE Create \/ ReadRun \/ RequestStop \/ StopLost \/ Refuse
  BY <1>1 DEF Create, ReadRun, RequestStop, StopLost, Refuse
<1>2. CASE StartCreated \/ Resume
  BY <1>2 DEF StartCreated, Resume, StartTask, NoSearch
<1>3. CASE DeleteData \/ DeleteRow
  BY <1>3 DEF DeleteData, DeleteRow
<1>4. CASE CrashWeb
  BY <1>4 DEF CrashWeb, NoSearch
<1>5. CASE UNCHANGED jobVars
  BY <1>5 DEF jobVars
<1> QED
  BY <1>1, <1>2, <1>3, <1>4, <1>5 DEF JobNext

\* Over stops at a boundary or inside a generation, resumes, crashes and lost writes,
\* the generation and the best Sharpe ratio of the checkpoint only grow, but for the
\* baseline of a task that could not read it (backtester/runner.py:230-272).
THEOREM CheckpointNeverLosesWork == JobSpec => CheckpointAdvances
<1>1. JobInit => SearchAhead
  BY DEF JobInit, SearchAhead, NoSearch, NoCheckpoint, NoSharpe
<1>2. SearchAhead /\ [JobNext]_jobVars => SearchAhead'
  BY SearchTask, SearchHandlers
<1>3. SearchAhead /\ [JobNext]_jobVars =>
         [\/ checkpoint' = NoCheckpoint
          \/ checkpoint'.gen >= checkpoint.gen /\ checkpoint'.best >= checkpoint.best
          \/ task = "again" /\ checkpoint'.gen = 1]_jobVars
  BY SearchTask, SearchHandlers DEF Advances
<1> QED
  BY <1>1, <1>2, <1>3, PTL DEF JobSpec, CheckpointAdvances

-----------------------------------------------------------------------------
(* The backtest engines *)

TradeRecords == [bar : Nat, side : {-1, 1}, entry : Int, sl : Int, tp : Int]
ClosedRecords ==
    [bar : Nat, side : {-1, 1}, sl : Int, tp : Int, exit : Nat,
     outcome : {"WIN", "LOSS", "BREAKEVEN"}, gain : Int, risk : Int]

\* An open trade after n bars: its target lies beyond its stop, and no bar since its signal
\* touched either.
HeldAt(bars, n, t) ==
    /\ t \in TradeRecords /\ t.bar \in 1 .. n
    /\ t.side * (t.entry - t.sl) >= 0 /\ t.side * (t.tp - t.sl) >= 0
    /\ \A i \in t.bar + 1 .. n : ~StopHit(bars[i], t) /\ ~TargetHit(bars[i], t)

BookedAt(bars, n, t) ==
    t \in ClosedRecords /\ t.exit \in 1 .. n /\ FirstTouch(bars, t) /\ WithinRisk(t)

\* The event-driven engine after n bars.
EventInv(bars, n, held, trades) ==
    /\ held = Flat \/ HeldAt(bars, n, held)
    /\ trades \in Seq(ClosedRecords)
    /\ \A k \in 1 .. Len(trades) : BookedAt(bars, n, trades[k])
    /\ \A k \in 2 .. Len(trades) : trades[k].bar > trades[k - 1].exit
    /\ held # Flat => \A k \in 1 .. Len(trades) : held.bar > trades[k].exit

\* The vectorised one: every exit but the open trade's belongs to an entry, and the first
\* exit follows the first entry.
VectorInv ==
    /\ entries \in Seq(TradeRecords) /\ exits \in Seq(Nat)
    /\ Len(entries) = Len(exits) + (IF position = Flat THEN 0 ELSE 1)
    /\ \A k \in 1 .. Len(entries) : entries[k].bar <= Len(tape)
    /\ Len(exits) > 0 => entries[1].bar < exits[1]

SimInv ==
    /\ BacktestsAreSound
    /\ progress = "run" =>
          /\ tape \in Seq(SimBars) /\ VectorInv
          /\ EventInv(tape, Len(tape) - 1, holding, closed)

\* A trade is a record with a side, so it is not Flat.
LEMMA TradeIsNotFlat == ASSUME NEW t \in TradeRecords PROVE t # Flat
BY DEF TradeRecords, Flat

\* An offer becomes a trade, and costs only add to its risk.
LEMMA TradeType ==
    ASSUME NEW o \in Offers, NEW i \in Nat, NEW c \in Int
    PROVE  LET t == OpenTrade(o, i, c) IN
           /\ Trade(o, i, c) \in TradeRecords /\ Trade(o, i, c).bar = i
           /\ t \in TradeRecords /\ t.bar = i
           /\ t.side * (t.entry - t.sl) >= 0 /\ t.side * (t.tp - t.sl) >= 0
<1>1. o.side \in {-1, 1} /\ o.stop \in Nat /\ o.target \in Nat /\ Cost \in Nat
  BY SimAssumption
<1>2. o.side * o.stop \in Int /\ o.side * o.target \in Int /\ o.side * Cost \in Int
  BY <1>1
<1>3. Trade(o, i, c) = [bar |-> i, side |-> o.side, entry |-> c,
                        sl |-> c - o.side * o.stop, tp |-> c + o.side * o.target]
  BY DEF Trade
<1>4. OpenTrade(o, i, c) = [bar |-> i, side |-> o.side, entry |-> c + o.side * Cost,
                            sl |-> c - o.side * o.stop, tp |-> c + o.side * o.target]
  BY <1>3 DEF OpenTrade
<1>5. /\ o.side * ((c + o.side * Cost) - (c - o.side * o.stop)) >= 0
      /\ o.side * ((c + o.side * o.target) - (c - o.side * o.stop)) >= 0
  <2>1. CASE o.side = 1
    BY <1>1, <2>1
  <2>2. CASE o.side = -1
    BY <1>1, <2>2
  <2> QED
    BY <1>1, <2>1, <2>2
<1>6. c + o.side * Cost \in Int /\ c - o.side * o.stop \in Int /\ c + o.side * o.target \in Int
  BY <1>2
<1> QED
  BY <1>1, <1>3, <1>4, <1>5, <1>6 DEF TradeRecords

\* What booking a trade at a price gives.
LEMMA BookingType ==
    ASSUME NEW t \in TradeRecords, NEW i \in Nat, NEW x \in {"WIN", "LOSS", "BREAKEVEN"},
           NEW price \in Int, NEW r, r = Booking(t, i, x, price)
    PROVE  /\ r \in ClosedRecords /\ r.bar = t.bar /\ r.exit = i /\ r.outcome = x
           /\ r.side = t.side /\ r.sl = t.sl /\ r.tp = t.tp
           /\ r.gain = t.side * (price - t.entry) /\ r.risk = t.side * (t.entry - t.sl)
<1>1. t.side * (price - t.entry) \in Int /\ t.side * (t.entry - t.sl) \in Int
  BY DEF TradeRecords
<1> QED
  BY <1>1 DEF Booking, ClosedRecords, TradeRecords

\* A bar that touched neither level closed within the risk.
LEMMA InsideLoss ==
    ASSUME NEW t \in TradeRecords, NEW b \in SimBars, ~StopHit(b, t)
    PROVE  t.side * (b.close - t.entry) >= -(t.side * (t.entry - t.sl))
<1>1. b.low \in Int /\ b.high \in Int /\ b.close \in Int /\ b.low <= b.close /\ b.close <= b.high
  BY SimAssumption
<1>2. t.side \in {-1, 1} /\ t.entry \in Int /\ t.sl \in Int
  BY DEF TradeRecords
<1>3. CASE t.side = 1
  <2>1. ~(b.low <= t.sl)
    BY <1>3 DEF StopHit, Beyond
  <2> QED
    BY <1>1, <1>2, <1>3, <2>1
<1>4. CASE t.side = -1
  <2>1. ~(b.high >= t.sl)
    BY <1>4 DEF StopHit, Beyond
  <2> QED
    BY <1>1, <1>2, <1>4, <2>1
<1> QED
  BY <1>2, <1>3, <1>4

\* The check of the exit at the next bar: the trade stays as it is, or is booked there.
LEMMA CheckedExit ==
    ASSUME NEW bars, NEW n \in Nat, NEW t, HeldAt(bars, n, t), NEW m, m = n + 1,
           NEW done, done = CheckExit(bars[m], t, m)
    PROVE  \/ done = <<>> /\ HeldAt(bars, m, t)
           \/ \E r : done = <<r>> /\ BookedAt(bars, m, r) /\ r.bar = t.bar /\ r.exit = m
<1> DEFINE b == bars[m]
<1>1. /\ t \in TradeRecords /\ t.bar \in Nat /\ t.bar <= n /\ t.bar >= 1
      /\ t.sl \in Int /\ t.tp \in Int /\ t.entry \in Int /\ t.side \in {-1, 1}
      /\ t.side * (t.entry - t.sl) >= 0 /\ t.side * (t.tp - t.sl) >= 0
      /\ \A i \in t.bar + 1 .. n : ~StopHit(bars[i], t) /\ ~TargetHit(bars[i], t)
  BY DEF HeldAt, TradeRecords
<1>2. ASSUME NEW x \in {"WIN", "LOSS"}, NEW price \in Int,
             IF x = "LOSS" THEN StopHit(b, t) ELSE TargetHit(b, t) /\ ~StopHit(b, t),
             t.side * (price - t.entry) >= -(t.side * (t.entry - t.sl)),
             x = "LOSS" => t.side * (price - t.entry) = -(t.side * (t.entry - t.sl))
      PROVE  \A r : r = Booking(t, m, x, price) =>
                BookedAt(bars, m, r) /\ r.bar = t.bar /\ r.exit = m
  <2> SUFFICES ASSUME NEW r, r = Booking(t, m, x, price)
               PROVE  BookedAt(bars, m, r) /\ r.bar = t.bar /\ r.exit = m
    OBVIOUS
  <2>0. m \in Nat /\ x \in {"WIN", "LOSS", "BREAKEVEN"} /\ t \in TradeRecords
    BY <1>1
  <2>1. /\ r \in ClosedRecords /\ r.bar = t.bar /\ r.exit = m /\ r.outcome = x
        /\ r.side = t.side /\ r.sl = t.sl /\ r.tp = t.tp
        /\ r.gain = t.side * (price - t.entry) /\ r.risk = t.side * (t.entry - t.sl)
    BY <2>0, BookingType
  <2>2. \A c : StopHit(c, r) = StopHit(c, t) /\ TargetHit(c, r) = TargetHit(c, t)
    BY <2>1 DEF StopHit, TargetHit
  <2>3. \A i \in r.bar + 1 .. r.exit - 1 : i \in t.bar + 1 .. n
    BY <1>1, <2>1
  <2>4. \A i \in r.bar + 1 .. r.exit - 1 : ~StopHit(bars[i], r) /\ ~TargetHit(bars[i], r)
    BY <1>1, <2>2, <2>3
  <2>5. r.exit > r.bar /\ r.exit \in 1 .. m
    BY <1>1, <2>1
  <2>6. FirstTouch(bars, r)
    BY <1>2, <2>1, <2>2, <2>4, <2>5 DEF FirstTouch
  <2>7. WithinRisk(r)
    BY <1>2, <2>1 DEF WithinRisk
  <2> QED
    BY <2>1, <2>5, <2>6, <2>7 DEF BookedAt
<1>3. CASE StopHit(b, t)
  <2>1. done = <<Booking(t, m, "LOSS", t.sl)>>
    BY <1>3 DEF CheckExit
  <2>2. t.side * (t.sl - t.entry) = -(t.side * (t.entry - t.sl))
    BY <1>1
  <2>3. t.side * (t.sl - t.entry) >= -(t.side * (t.entry - t.sl))
    BY <1>1
  <2> DEFINE r == Booking(t, m, "LOSS", t.sl)
  <2>4. BookedAt(bars, m, r) /\ r.bar = t.bar /\ r.exit = m
    BY <1>1, <1>2, <1>3, <2>2, <2>3
  <2> HIDE DEF r
  <2> QED
    BY <2>1, <2>4 DEF r
<1>4. CASE ~StopHit(b, t) /\ TargetHit(b, t)
  <2>1. done = <<Booking(t, m, "WIN", t.tp)>>
    BY <1>4 DEF CheckExit
  <2>2. t.side * (t.tp - t.entry) >= -(t.side * (t.entry - t.sl))
    <3>1. CASE t.side = 1
      BY <1>1, <3>1
    <3>2. CASE t.side = -1
      BY <1>1, <3>2
    <3> QED
      BY <1>1, <3>1, <3>2
  <2> QED
    BY <1>1, <1>2, <1>4, <2>1, <2>2
<1>5. CASE ~StopHit(b, t) /\ ~TargetHit(b, t)
  <2>1. done = <<>>
    BY <1>5 DEF CheckExit
  <2>2. \A i \in t.bar + 1 .. m : i \in t.bar + 1 .. n \/ i = m
    BY <1>1
  <2>3. t.bar \in 1 .. m
    BY <1>1
  <2> QED
    BY <1>1, <1>5, <2>1, <2>2, <2>3 DEF HeldAt
<1> QED
  BY <1>3, <1>4, <1>5

\* A longer tape changes nothing about the bars so far.
LEMMA Longer ==
    ASSUME NEW bars \in Seq(SimBars), NEW b \in SimBars, NEW n \in Int, n <= Len(bars),
           NEW held, NEW trades, EventInv(bars, n, held, trades)
    PROVE  EventInv(Append(bars, b), n, held, trades)
<1> DEFINE more == Append(bars, b)
<1>1. \A i \in Nat : 1 <= i /\ i <= n => more[i] = bars[i]
  OBVIOUS
<1> HIDE DEF more
<1>2. ASSUME HeldAt(bars, n, held) PROVE HeldAt(more, n, held)
  <2>1. \A i \in held.bar + 1 .. n : i \in Nat /\ 1 <= i /\ i <= n
    BY <1>2 DEF HeldAt, TradeRecords
  <2> QED
    BY <1>1, <1>2, <2>1 DEF HeldAt
<1>3. ASSUME NEW r, BookedAt(bars, n, r) PROVE BookedAt(more, n, r)
  <2>1. /\ r \in ClosedRecords /\ r.exit \in Nat /\ 1 <= r.exit /\ r.exit <= n
        /\ \A i \in r.bar + 1 .. r.exit - 1 : i \in Nat /\ 1 <= i /\ i <= n
    BY <1>3 DEF BookedAt, ClosedRecords
  <2>2. FirstTouch(more, r)
    BY <1>1, <1>3, <2>1 DEF BookedAt, FirstTouch
  <2> QED
    BY <1>3, <2>2 DEF BookedAt
<1> QED
  BY <1>2, <1>3 DEF EventInv, more

\* One more bar passed without an open trade.
LEMMA Passed ==
    ASSUME NEW bars, NEW n \in Nat, NEW trades, EventInv(bars, n, Flat, trades)
    PROVE  EventInv(bars, n + 1, Flat, trades)
BY DEF EventInv, BookedAt

\* A booked trade joins the list.
LEMMA Booked ==
    ASSUME NEW bars, NEW n \in Nat, NEW held, NEW trades, EventInv(bars, n, held, trades),
           held # Flat, NEW m \in {n, n + 1}, NEW r, BookedAt(bars, m, r), r.bar = held.bar
    PROVE  EventInv(bars, m, Flat, Append(trades, r))
<1> DEFINE more == Append(trades, r)
<1>1. /\ trades \in Seq(ClosedRecords) /\ r \in ClosedRecords /\ more \in Seq(ClosedRecords)
      /\ Len(more) = Len(trades) + 1 /\ more[Len(trades) + 1] = r
      /\ \A k \in 1 .. Len(trades) : more[k] = trades[k]
      /\ Len(trades) \in Nat
  BY DEF EventInv, BookedAt
<1> HIDE DEF more
<1>2. ASSUME NEW k \in 1 .. Len(more) PROVE BookedAt(bars, m, more[k])
  <2>1. CASE k = Len(trades) + 1
    BY <1>1, <2>1
  <2>2. CASE k \in 1 .. Len(trades)
    <3>1. BookedAt(bars, n, trades[k])
      BY <2>2 DEF EventInv
    <3> QED
      BY <1>1, <2>2, <3>1 DEF BookedAt
  <2> QED
    BY <1>1, <2>1, <2>2
<1>3. ASSUME NEW k \in 2 .. Len(more) PROVE more[k].bar > more[k - 1].exit
  <2>1. CASE k = Len(trades) + 1
    <3>1. k - 1 \in 1 .. Len(trades)
      BY <1>1, <1>3, <2>1
    <3>2. held.bar > trades[k - 1].exit
      BY <3>1 DEF EventInv
    <3> QED
      BY <1>1, <2>1, <3>1, <3>2
  <2>2. CASE k \in 2 .. Len(trades)
    <3>1. k \in 1 .. Len(trades) /\ k - 1 \in 1 .. Len(trades)
      BY <2>2, <1>1
    <3> QED
      BY <1>1, <2>2, <3>1 DEF EventInv
  <2> QED
    BY <1>1, <2>1, <2>2
<1> QED
  BY <1>1, <1>2, <1>3 DEF EventInv, more

\* An iteration of the event-driven engine.
LEMMA RunBarInv ==
    ASSUME NEW n \in Nat, tape \in Seq(SimBars), EventInv(tape, n, holding, closed),
           NEW offered \in OneOrNone, NEW price \in Int,
           RunBar(tape[n + 1], n + 1, offered, price)
    PROVE  EventInv(tape, n + 1, holding', closed')
<1>1. CASE holding # Flat
  <2> DEFINE done == CheckExit(tape[n + 1], holding, n + 1)
  <2>1. HeldAt(tape, n, holding) /\ closed \in Seq(ClosedRecords)
    BY <1>1 DEF EventInv
  <2>2. closed' = closed \o done /\ holding' = IF done = <<>> THEN holding ELSE Flat
    BY <1>1 DEF RunBar
  <2>3. \/ done = <<>> /\ HeldAt(tape, n + 1, holding)
        \/ \E r : done = <<r>> /\ BookedAt(tape, n + 1, r) /\ r.bar = holding.bar /\ r.exit = n + 1
    BY <2>1, CheckedExit
  <2> HIDE DEF done
  <2>4. CASE done = <<>> /\ HeldAt(tape, n + 1, holding)
    <3>1. closed' = closed /\ holding' = holding
      BY <2>1, <2>2, <2>4
    <3> QED
      BY <2>4, <3>1 DEF EventInv, BookedAt
  <2>5. ASSUME NEW r, done = <<r>>, BookedAt(tape, n + 1, r), r.bar = holding.bar
        PROVE  EventInv(tape, n + 1, holding', closed')
    <3>1. r \in ClosedRecords /\ holding' = Flat
      BY <2>2, <2>5 DEF BookedAt
    <3>2. closed' = Append(closed, r)
      BY <2>1, <2>2, <2>5, <3>1
    <3> QED
      BY <1>1, <2>5, <3>1, <3>2, Booked
  <2> QED
    BY <2>3, <2>4, <2>5
<1>2. CASE holding = Flat
  <2>1. /\ holding' = IF offered = {} THEN Flat
                      ELSE OpenTrade(CHOOSE o \in offered : TRUE, n + 1, price)
        /\ closed' = closed
    BY <1>2 DEF RunBar
  <2>2. EventInv(tape, n + 1, Flat, closed)
    BY <1>2, Passed
  <2>3. CASE offered = {}
    BY <2>1, <2>2, <2>3
  <2>4. CASE offered # {}
    <3> DEFINE o == CHOOSE x \in offered : TRUE
               t == OpenTrade(o, n + 1, price)
    <3>1. o \in Offers
      BY <2>4 DEF OneOrNone
    <3>2. holding' = t
      BY <2>1, <2>4
    <3> HIDE DEF o
    <3>3. /\ t \in TradeRecords /\ t.bar = n + 1
          /\ t.side * (t.entry - t.sl) >= 0 /\ t.side * (t.tp - t.sl) >= 0
      BY <3>1, TradeType
    <3> HIDE DEF t
    <3>4. HeldAt(tape, n + 1, t)
      BY <3>3 DEF HeldAt
    <3>5. \A k \in 1 .. Len(closed) : t.bar > closed[k].exit
      BY <1>2, <3>3 DEF EventInv, BookedAt
    <3> QED
      BY <2>1, <2>2, <3>2, <3>4, <3>5 DEF EventInv
  <2> QED
    BY <2>3, <2>4
<1> QED
  BY <1>1, <1>2

\* The end closes what is open within its risk, unless its signal is of the last bar.
LEMMA CloseRestInv ==
    ASSUME tape \in Seq(SimBars), NEW n \in 1 .. Len(tape), NEW held, NEW trades,
           EventInv(tape, n, held, trades)
    PROVE  EventInv(tape, n, Flat, CloseRest(trades, held, n))
<1>1. CASE held = Flat
  BY <1>1 DEF CloseRest
<1>2. CASE held # Flat
  <2> DEFINE price == tape[n].close
             r == Booking(held, n, "BREAKEVEN", price)
  <2>1. /\ HeldAt(tape, n, held) /\ held \in TradeRecords /\ n \in Nat
        /\ tape[n] \in SimBars /\ held.bar \in Nat /\ held.bar >= 1 /\ held.bar <= n
    BY <1>2 DEF EventInv, HeldAt
  <2>2. price \in Int
    BY <2>1, SimAssumption
  <2>3. /\ r \in ClosedRecords /\ r.bar = held.bar /\ r.exit = n /\ r.outcome = "BREAKEVEN"
        /\ r.gain = held.side * (price - held.entry) /\ r.risk = held.side * (held.entry - held.sl)
    BY <2>1, <2>2, BookingType
  <2>4. held.bar < n => held.side * (price - held.entry) >= -(held.side * (held.entry - held.sl))
    <3>1. held.bar < n => ~StopHit(tape[n], held)
      BY <2>1 DEF HeldAt
    <3> QED
      BY <2>1, <3>1, InsideLoss
  <2> HIDE DEF r
  <2>5. FirstTouch(tape, r)
    BY <2>3 DEF FirstTouch
  <2>6. WithinRisk(r)
    BY <2>1, <2>3, <2>4 DEF WithinRisk
  <2>7. BookedAt(tape, n, r)
    BY <2>1, <2>3, <2>5, <2>6 DEF BookedAt
  <2>8. CloseRest(trades, held, n) = Append(trades, r)
    BY <1>2 DEF CloseRest, r
  <2> QED
    BY <1>2, <2>1, <2>3, <2>7, <2>8, Booked
<1> QED
  BY <1>1, <1>2

\* An iteration of the vectorised loop.
LEMMA ScanBarInv ==
    ASSUME NEW b \in SimBars, NEW offered \in OneOrNone, tape \in Seq(SimBars), VectorInv,
           tape' = Append(tape, b), ScanBar(b, Len(tape'), offered)
    PROVE  VectorInv'
<1> DEFINE n == Len(tape)
<1>1. n \in Nat /\ Len(tape') = n + 1
  OBVIOUS
<1>2. /\ entries \in Seq(TradeRecords) /\ exits \in Seq(Nat)
      /\ Len(entries) = Len(exits) + (IF position = Flat THEN 0 ELSE 1)
      /\ \A k \in 1 .. Len(entries) : entries[k] \in TradeRecords /\ entries[k].bar <= n
      /\ Len(exits) > 0 => entries[1].bar < exits[1]
      /\ Len(entries) \in Nat /\ Len(exits) \in Nat
  BY DEF VectorInv
<1> HIDE DEF n
<1>0. \A k \in 1 .. Len(entries) : entries[k].bar \in Nat
  <2>1. \A t \in TradeRecords : t.bar \in Nat
    BY DEF TradeRecords
  <2> QED
    BY <1>2, <2>1
<1>9. \A k \in 1 .. Len(entries) : entries[k].bar <= n + 1
  BY <1>0, <1>1, <1>2
<1>3. CASE UNCHANGED <<position, entries, exits>>
  BY <1>1, <1>2, <1>3, <1>9 DEF VectorInv
<1>4. CASE position # Flat /\ position' = Flat /\ exits' = Append(exits, n + 1) /\ UNCHANGED entries
  <2>1. /\ exits' \in Seq(Nat) /\ Len(exits') = Len(exits) + 1
        /\ Len(exits) > 0 => exits'[1] = exits[1]
        /\ Len(exits) = 0 => exits'[1] = n + 1
    BY <1>1, <1>2, <1>4
  <2>2. entries[1].bar < exits'[1]
    <3>1. 1 \in 1 .. Len(entries)
      BY <1>2, <1>4
    <3>2. entries[1].bar <= n /\ entries[1].bar \in Nat
      BY <1>0, <1>2, <3>1
    <3> QED
      BY <1>1, <1>2, <2>1, <3>2
  <2> QED
    BY <1>9, <1>1, <1>2, <1>4, <2>1, <2>2 DEF VectorInv
<1>5. ASSUME NEW o \in Offers, position = Flat, position' = Trade(o, n + 1, b.close),
             entries' = Append(entries, position'), UNCHANGED exits
      PROVE  VectorInv'
  <2>1. position' \in TradeRecords /\ position'.bar = n + 1 /\ position' # Flat
    <3>1. b.close \in Int
      BY SimAssumption
    <3>2. Trade(o, n + 1, b.close) \in TradeRecords /\ Trade(o, n + 1, b.close).bar = n + 1
      BY <1>1, <3>1, TradeType
    <3> QED
      BY <1>5, <3>2, TradeIsNotFlat
  <2>2. /\ entries' \in Seq(TradeRecords) /\ Len(entries') = Len(entries) + 1
        /\ entries'[Len(entries) + 1] = position'
        /\ \A k \in 1 .. Len(entries) : entries'[k] = entries[k]
    BY <1>2, <1>5, <2>1
  <2>3. \A k \in 1 .. Len(entries') : entries'[k].bar <= n + 1
    <3> SUFFICES ASSUME NEW k \in 1 .. Len(entries') PROVE entries'[k].bar <= n + 1
      OBVIOUS
    <3>1. k \in 1 .. Len(entries) \/ k = Len(entries) + 1
      BY <1>2, <2>2
    <3> QED
      BY <1>9, <1>1, <2>1, <2>2, <3>1
  <2>4. Len(exits) > 0 => entries'[1] = entries[1]
    BY <1>2, <1>5, <2>2
  <2> QED
    BY <1>1, <1>2, <1>5, <2>1, <2>2, <2>3, <2>4 DEF VectorInv
<1>6. OneOrNone = {{}} \cup {{o} : o \in Offers}
  BY DEF OneOrNone
<1>7. \A o \in offered : o \in Offers
  BY <1>6
<1> QED
  BY <1>1, <1>3, <1>4, <1>5, <1>7 DEF ScanBar

LEMMA NextBarInv ==
    ASSUME tape \in Seq(SimBars), VectorInv, EventInv(tape, Len(tape) - 1, holding, closed), NextBar
    PROVE  tape' \in Seq(SimBars) /\ VectorInv' /\ EventInv(tape', Len(tape') - 1, holding', closed')
<1>1. PICK b \in SimBars, scanned \in OneOrNone, signalled \in OneOrNone :
        /\ tape' = Append(tape, b)
        /\ ScanBar(b, Len(tape'), scanned)
        /\ IF tape = <<>> THEN UNCHANGED <<holding, closed>>
           ELSE RunBar(Last(tape), Len(tape), signalled, b.open)
  BY DEF NextBar
<1>2. tape' \in Seq(SimBars) /\ Len(tape') = Len(tape) + 1 /\ Len(tape) \in Nat
  BY <1>1
<1>3. VectorInv'
  BY <1>1, ScanBarInv
<1>4. EventInv(tape, Len(tape), holding', closed')
  <2>1. CASE tape = <<>>
    <3>1. EventInv(tape, -1, holding, closed)
      BY <2>1
    <3>2. ~HeldAt(tape, -1, holding) /\ \A r : ~BookedAt(tape, -1, r)
      BY DEF HeldAt, BookedAt
    <3>3. holding = Flat /\ \A k \in 1 .. Len(closed) : FALSE
      BY <3>1, <3>2 DEF EventInv
    <3> QED
      BY <1>1, <2>1, <3>1, <3>3 DEF EventInv
  <2>2. CASE tape # <<>>
    <3> DEFINE n == Len(tape) - 1
    <3>1. n \in Nat /\ n + 1 = Len(tape) /\ Last(tape) = tape[n + 1]
      BY <2>2 DEF Last
    <3>2. b.open \in Int
      BY SimAssumption
    <3>3. EventInv(tape, n, holding, closed)
      OBVIOUS
    <3>4. RunBar(tape[n + 1], n + 1, signalled, b.open)
      BY <1>1, <2>2, <3>1
    <3> HIDE DEF n
    <3>5. EventInv(tape, n + 1, holding', closed')
      BY <3>1, <3>2, <3>3, <3>4, RunBarInv
    <3> QED
      BY <3>1, <3>5
  <2> QED
    BY <2>1, <2>2
<1>5. EventInv(Append(tape, b), Len(tape), holding', closed')
  BY <1>2, <1>4, Longer
<1> QED
  BY <1>1, <1>2, <1>3, <1>5

\* What the invariant says of the trades.
LEMMA SoundTrades ==
    ASSUME NEW bars, NEW n \in Int, NEW held, NEW trades, EventInv(bars, n, held, trades)
    PROVE  /\ \A k \in DOMAIN trades : FirstTouch(bars, trades[k]) /\ WithinRisk(trades[k])
           /\ \A k \in 2 .. Len(trades) : trades[k].bar > trades[k - 1].exit
BY DEF EventInv, BookedAt

LEMMA FinishInv ==
    ASSUME tape \in Seq(SimBars), VectorInv, EventInv(tape, Len(tape) - 1, holding, closed), Finish
    PROVE  BacktestsAreSound'
<1> DEFINE n == Len(tape)
<1>1. n \in Nat /\ n > 0 /\ n - 1 \in Nat /\ tape' = tape /\ UNCHANGED <<entries, exits>>
      /\ progress' = VectorAnswer
  BY DEF Finish
<1>2. \E m \in 1 .. n : EventInv(tape, m, Flat, closed')
  <2>1. ASSUME NEW done, done = (IF holding = Flat THEN <<>> ELSE CheckExit(tape[n], holding, n)),
               closed' = CloseRest(closed \o done, IF done = <<>> THEN holding ELSE Flat, n)
        PROVE  EventInv(tape, n, Flat, closed')
    <3>1. EventInv(tape, n, IF done = <<>> THEN holding ELSE Flat, closed \o done)
      <4>1. CASE holding = Flat
        <5>1. done = <<>> /\ closed \o done = closed
          BY <2>1, <4>1 DEF EventInv
        <5>2. EventInv(tape, (n - 1) + 1, Flat, closed)
          BY <1>1, <4>1, Passed
        <5> QED
          BY <1>1, <4>1, <5>1, <5>2
      <4>2. CASE holding # Flat
        <5>1. HeldAt(tape, n - 1, holding) /\ closed \in Seq(ClosedRecords)
          BY <4>2 DEF EventInv
        <5>2. done = CheckExit(tape[n], holding, n) /\ n = (n - 1) + 1
          BY <1>1, <2>1, <4>2
        <5> HIDE DEF n
        <5>3. \/ done = <<>> /\ HeldAt(tape, n, holding)
              \/ \E r : done = <<r>> /\ BookedAt(tape, n, r) /\ r.bar = holding.bar /\ r.exit = n
          BY <1>1, <5>1, <5>2, CheckedExit
        <5>4. CASE done = <<>> /\ HeldAt(tape, n, holding)
          <6>1. closed \o done = closed
            BY <5>1, <5>4
          <6>2. \A r : BookedAt(tape, n - 1, r) => BookedAt(tape, n, r)
            <7>1. \A e \in 1 .. n - 1 : e \in 1 .. n
              BY <1>1
            <7> QED
              BY <7>1 DEF BookedAt
          <6>3. EventInv(tape, n, holding, closed)
            BY <4>2, <5>4, <6>1, <6>2 DEF EventInv, n
          <6> QED
            BY <5>4, <6>1, <6>3
        <5>5. ASSUME NEW r, done = <<r>>, BookedAt(tape, n, r), r.bar = holding.bar
              PROVE  EventInv(tape, n, IF done = <<>> THEN holding ELSE Flat, closed \o done)
          <6>0. done # <<>>
            BY <5>5
          <6>1. closed \o done = Append(closed, r)
            BY <5>1, <5>5
          <6>2. n \in {n - 1, (n - 1) + 1} /\ EventInv(tape, n - 1, holding, closed)
            BY <1>1 DEF n
          <6>3. EventInv(tape, n, Flat, Append(closed, r))
            BY <1>1, <4>2, <5>5, <6>2, Booked
          <6> QED
            BY <6>0, <6>1, <6>3
        <5> QED
          BY <5>3, <5>4, <5>5
      <4> QED
        BY <4>1, <4>2
    <3> QED
      BY <1>1, <2>1, <3>1, CloseRestInv
  <2>2. ASSUME n > 1, closed' = CloseRest(closed, holding, n - 1)
        PROVE  EventInv(tape, n - 1, Flat, closed')
    BY <1>1, <2>2, CloseRestInv
  <2> QED
    BY <1>1, <2>1, <2>2 DEF Finish
<1>3. VectorAnswer = "done" => exits = <<>> /\ Len(entries) <= 1
  <2> SUFFICES ASSUME VectorAnswer = "done" PROVE exits = <<>> /\ Len(entries) <= 1
    OBVIOUS
  <2>1. Paired = {}
    BY DEF VectorAnswer
  <2>2. /\ entries \in Seq(TradeRecords) /\ exits \in Seq(Nat)
        /\ Len(entries) = Len(exits) + (IF position = Flat THEN 0 ELSE 1)
        /\ Len(exits) > 0 => entries[1].bar < exits[1]
    BY DEF VectorInv
  <2>3. ASSUME Len(exits) > 0 PROVE FALSE
    <3>1. 1 \in DOMAIN entries /\ 1 \in DOMAIN exits
      BY <2>2, <2>3
    <3>2. exits[1] > entries[1].bar
      BY <2>2, <2>3, <3>1 DEF TradeRecords
    <3>3. 1 \in Paired
      BY <3>1, <3>2 DEF Paired
    <3> QED
      BY <2>1, <3>3
  <2> QED
    BY <2>2, <2>3
<1>4. /\ \A k \in DOMAIN closed' : FirstTouch(tape, closed'[k]) /\ WithinRisk(closed'[k])
      /\ \A k \in 2 .. Len(closed') : closed'[k].bar > closed'[k - 1].exit
  BY <1>2, SoundTrades
<1> QED
  BY <1>1, <1>3, <1>4 DEF BacktestsAreSound

\* Over any bars, offers and costs: the event-driven engine books one trade at a time, each
\* on the first bar that touches a level and within its risk, but for the trade of the last
\* bar of a window; the vectorised one answers only when no trade closed.
THEOREM BacktestsStaySound == SimSpec => []BacktestsAreSound
<1>1. SimInit => SimInv
  <2> SUFFICES ASSUME SimInit PROVE SimInv
    OBVIOUS
  <2>1. /\ tape = <<>> /\ holding = Flat /\ closed = <<>> /\ position = Flat
        /\ entries = <<>> /\ exits = <<>> /\ progress = "run"
    BY DEF SimInit
  <2> QED
    BY <2>1 DEF SimInv, BacktestsAreSound, VectorInv, EventInv
<1>2. SimInv /\ [SimNext]_simVars => SimInv'
  <2> SUFFICES ASSUME SimInv, [SimNext]_simVars PROVE SimInv'
    OBVIOUS
  <2>1. CASE NextBar
    <3>1. progress = "run" /\ progress' = "run"
      BY <2>1 DEF NextBar
    <3>2. tape' \in Seq(SimBars) /\ VectorInv' /\ EventInv(tape', Len(tape') - 1, holding', closed')
      BY <2>1, <3>1, NextBarInv DEF SimInv
    <3>3. /\ \A k \in DOMAIN closed' : FirstTouch(tape', closed'[k]) /\ WithinRisk(closed'[k])
          /\ \A k \in 2 .. Len(closed') : closed'[k].bar > closed'[k - 1].exit
      BY <3>2, SoundTrades
    <3> QED
      BY <3>1, <3>2, <3>3 DEF SimInv, BacktestsAreSound
  <2>2. CASE Finish
    <3>1. progress = "run" /\ progress' \in {"done", "raised"}
      BY <2>2 DEF Finish, VectorAnswer
    <3> QED
      BY <2>2, <3>1, FinishInv DEF SimInv
  <2>3. CASE UNCHANGED simVars
    BY <2>3 DEF simVars, SimInv, BacktestsAreSound, VectorInv
  <2> QED
    BY <2>1, <2>2, <2>3 DEF SimNext
<1>3. SimInv => BacktestsAreSound
  BY DEF SimInv
<1> QED
  BY <1>1, <1>2, <1>3, PTL DEF SimSpec
===============================================================================
