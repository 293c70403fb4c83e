----------------------------- MODULE BacktestJobs -----------------------------
(***************************************************************************)
(* One backtest run of the web process: the row in backtest_runs, the      *)
(* asyncio task that optimises generation after generation                 *)
(* (backtester/runner.py, optimizer.py), its checkpoint file, and the      *)
(* handlers that create, stop, resume and delete the run                   *)
(* (webui/routes/backtests.py).  A handler reads the row, and acts on what *)
(* it read after another await.                                            *)
(***************************************************************************)
EXTENDS Integers

CONSTANTS
    Generations,   \* max_generations of the run
    Sharpes,       \* Sharpe ratios that a simulation may have; all are above NoSharpe
    EarlyStop,     \* generations without improvement that end a run
    MaxFaults,     \* bound: crashes of the web process and lost writes of a state
    MaxJobCalls    \* bound: calls of the operator

ASSUME JobAssumption ==
    /\ Generations \in Nat \ {0} /\ Sharpes \subseteq Nat /\ EarlyStop \in Nat \ {0}
    /\ MaxFaults \in Nat /\ MaxJobCalls \in Nat

NoSharpe == -1   \* -999.0
NoCheckpoint == [gen |-> 0, best |-> NoSharpe]
NoRequest == [kind |-> "none", seen |-> "absent"]

VARIABLES
    run,        \* state of the row, "absent" when there is none
    task,       \* where _run_backtest stands; "none" and "done" are not alive
    search,     \* its locals [gen, best, streak]
    stopFlag,   \* _stop_flags
    checkpoint, \* checkpoints/<run_id>.json
    handler,    \* the handler that is between its read and its act
    calls,      \* calls so far
    versions,   \* ghost: strategy versions that the run created
    faults,     \* ghost: crashes and lost writes
    overtaken   \* ghost: handlers that acted on a row that had changed since they read it
jobVars == <<run, task, search, stopFlag, checkpoint, handler, calls, versions,
             faults, overtaken>>

Alive == task \notin {"none", "done"}
NoSearch == [gen |-> 0, best |-> NoSharpe, streak |-> 0]
Larger(a, b) == IF a > b THEN a ELSE b

JobInit ==
    /\ run = "absent" /\ task = "none" /\ search = NoSearch /\ stopFlag = FALSE
    /\ checkpoint = NoCheckpoint /\ handler = NoRequest /\ calls = 0
    /\ versions = 0 /\ faults = 0 /\ overtaken = 0

-----------------------------------------------------------------------------
(* The task.  update_state does nothing when the row is gone. *)

SetRun(state) == run' = IF run = "absent" THEN run ELSE state
TaskOnly == UNCHANGED <<handler, calls, overtaken>>
Settle(state) ==
    /\ SetRun(state) /\ task' = "done"
    /\ UNCHANGED <<search, stopFlag, checkpoint, versions, faults>> /\ TaskOnly

Begin ==
    /\ task = "queued" /\ task' = "fetch" /\ SetRun("running")
    /\ UNCHANGED <<search, stopFlag, checkpoint, versions, faults>> /\ TaskOnly

\* The terminal, else yfinance, else a random walk: there are always data, and a run
\* on the random walk goes on to a strategy version like any other.
FetchData ==
    /\ task = "fetch" /\ task' = "load"
    /\ UNCHANGED <<run, search, stopFlag, checkpoint, versions, faults>> /\ TaskOnly

\* Mutant: the generation of the checkpoint is done once more.
FirstGenerationAgain(gen) == Larger(2, gen)
FirstGeneration(gen) == Larger(2, gen + 1)

\* The checkpoint is read, whatever data it was made on; the streak without
\* improvement is not in it.  One that cannot be read or used counts as none: the run
\* starts over, and the baseline will replace the checkpoint.
LoadCheckpoint ==
    /\ task = "load"
    /\ \/ /\ checkpoint.gen > 0 /\ task' = "generation"
          /\ search' = [gen |-> FirstGeneration(checkpoint.gen), best |-> checkpoint.best, streak |-> 0]
       \/ /\ task' = IF checkpoint.gen > 0 THEN "again" ELSE "baseline"
          /\ search' = [NoSearch EXCEPT !.gen = 1]
    /\ UNCHANGED <<run, stopFlag, checkpoint, versions, faults>> /\ TaskOnly

\* Generation 1; Sharpe may be None.
Baseline ==
    /\ task \in {"baseline", "again"}
    /\ \E s \in Sharpes \cup {NoSharpe} :
          /\ search' = [gen |-> 2, best |-> s, streak |-> 0]
          /\ checkpoint' = [gen |-> 1, best |-> s]
    /\ task' = "generation"
    /\ UNCHANGED <<run, stopFlag, versions, faults>> /\ TaskOnly

TooFewTrades == task \in {"baseline", "again"} /\ Settle("failed")

PauseRun ==
    /\ checkpoint' = [gen |-> search.gen - 1, best |-> search.best]
    /\ task' = "pausing"
    /\ UNCHANGED <<run, search, stopFlag, versions, faults>> /\ TaskOnly

StopAtBoundary == task = "generation" /\ search.gen <= Generations /\ stopFlag /\ PauseRun

StartGeneration ==
    /\ task = "generation" /\ search.gen <= Generations /\ ~stopFlag
    /\ task' = "optimizing"
    /\ UNCHANGED <<run, search, stopFlag, checkpoint, versions, faults>> /\ TaskOnly

\* optimize() looks at the flag before every trial.
StopInOptimizer == task = "optimizing" /\ stopFlag /\ PauseRun

\* A generation ends: accepted on the training data, on the validation data (gap)
\* and on all the data, or one more without improvement.
EndGeneration ==
    /\ task = "optimizing"
    /\ \/ \E s \in {x \in Sharpes : x > search.best} :
             search' = [gen |-> search.gen + 1, best |-> s, streak |-> 0]
       \/ search' = [search EXCEPT !.gen = @ + 1, !.streak = @ + 1]
    /\ checkpoint' = [gen |-> search.gen, best |-> search'.best]
    /\ task' = "generation"
    /\ UNCHANGED <<run, stopFlag, versions, faults>> /\ TaskOnly

\* Only a trial that is worse on the training data ends the run; no checkpoint.
GiveUp ==
    /\ task = "optimizing" /\ search.streak + 1 >= EarlyStop
    /\ search' = [search EXCEPT !.streak = @ + 1] /\ task' = "version"
    /\ UNCHANGED <<run, stopFlag, checkpoint, versions, faults>> /\ TaskOnly

LastGeneration ==
    /\ task = "generation" /\ search.gen > Generations /\ task' = "version"
    /\ UNCHANGED <<run, search, stopFlag, checkpoint, versions, faults>> /\ TaskOnly

\* create_strategy_version, as candidate or retired; a failure is logged only.
CreateVersion ==
    /\ task = "version" /\ task' = "completing"
    /\ \E created \in {0, 1} : versions' = versions + created
    /\ UNCHANGED <<run, search, stopFlag, checkpoint, faults>> /\ TaskOnly

Complete == task = "completing" /\ Settle("completed")

\* The state is committed, and the task is still alive until it returns.
CommitPause ==
    /\ task = "pausing" /\ SetRun("paused") /\ task' = "returning"
    /\ UNCHANGED <<search, stopFlag, checkpoint, versions, faults>> /\ TaskOnly
Return ==
    /\ task = "returning" /\ task' = "done"
    /\ UNCHANGED <<run, search, stopFlag, checkpoint, versions, faults>> /\ TaskOnly

\* A simulation or a write of the progress raises.
Fail ==
    /\ task \in {"fetch", "load", "baseline", "again", "generation", "optimizing", "pausing", "completing"}
    /\ Settle("failed")

\* The write of a final state fails, and the one of "failed" after it.
LoseState ==
    /\ task \in {"queued", "pausing", "completing"} /\ faults < MaxFaults
    /\ task' = "done" /\ faults' = faults + 1
    /\ UNCHANGED <<run, search, stopFlag, checkpoint, versions>> /\ TaskOnly

TaskStep ==
    \/ Begin \/ FetchData \/ LoadCheckpoint \/ Baseline \/ TooFewTrades \/ StopAtBoundary \/ StartGeneration
    \/ StopInOptimizer \/ EndGeneration \/ GiveUp \/ LastGeneration \/ CreateVersion \/ Complete
    \/ CommitPause \/ Return \/ Fail

-----------------------------------------------------------------------------
(* The handlers *)

\* start_backtest: nothing while a task is alive.
StartTask ==
    IF Alive THEN UNCHANGED <<task, search, stopFlag>>
    ELSE task' = "queued" /\ search' = NoSearch /\ stopFlag' = FALSE

Create ==
    /\ run = "absent" /\ calls = 0
    /\ run' = "pending" /\ calls' = 1
    /\ handler' = [kind |-> "create", seen |-> "pending"]
    /\ UNCHANGED <<task, search, stopFlag, checkpoint, versions, faults, overtaken>>

\* Stop, resume and delete find the row, or answer 404.
ReadRun ==
    /\ handler = NoRequest /\ run # "absent" /\ calls < MaxJobCalls
    /\ \E kind \in {"stop", "resume", "delete"} : handler' = [kind |-> kind, seen |-> run]
    /\ calls' = calls + 1
    /\ UNCHANGED <<run, task, search, stopFlag, checkpoint, versions, faults, overtaken>>

Answer == handler' = NoRequest /\ UNCHANGED <<calls, versions, faults>>

StartCreated ==
    /\ handler.kind = "create" /\ StartTask /\ Answer
    /\ UNCHANGED <<run, checkpoint, overtaken>>

RequestStop ==
    /\ handler.kind = "stop" /\ Alive /\ Answer
    /\ stopFlag' = TRUE
    /\ UNCHANGED <<run, task, search, checkpoint, overtaken>>

\* A row that was read as "running" without a task is taken for lost.
LooksCrashed == handler.seen = "running" /\ ~Alive
PauseLost == SetRun("paused")
CountOvertaken == overtaken' = IF run = handler.seen THEN overtaken ELSE overtaken + 1

StopLost ==
    /\ handler.kind = "stop" /\ LooksCrashed /\ PauseLost /\ CountOvertaken /\ Answer
    /\ UNCHANGED <<task, search, stopFlag, checkpoint>>

\* Mutant: a run that completed may be resumed.
ResumableAny == LooksCrashed \/ handler.seen \in {"paused", "completed"}
Resumable == LooksCrashed \/ handler.seen = "paused"

Resume ==
    /\ handler.kind = "resume" /\ Resumable /\ Answer
    /\ IF LooksCrashed THEN PauseLost ELSE UNCHANGED run
    /\ CountOvertaken /\ StartTask
    /\ UNCHANGED checkpoint

Refuse ==
    /\ \/ handler.kind = "stop" /\ ~Alive /\ ~LooksCrashed
       \/ handler.kind = "resume" /\ ~Resumable
    /\ Answer
    /\ UNCHANGED <<run, task, search, stopFlag, checkpoint, overtaken>>

\* delete_run_data cancels the task and unlinks the checkpoint; then the row goes.
DeleteData ==
    /\ handler.kind = "delete" /\ handler' = [handler EXCEPT !.kind = "unlinked"]
    /\ task' = "none" /\ stopFlag' = FALSE /\ checkpoint' = NoCheckpoint
    /\ UNCHANGED <<run, search, calls, versions, faults, overtaken>>
DeleteRow ==
    /\ handler.kind = "unlinked" /\ run' = "absent" /\ Answer
    /\ UNCHANGED <<task, search, stopFlag, checkpoint, overtaken>>

\* The web process dies, and is started again.
CrashWeb ==
    /\ faults < MaxFaults /\ faults' = faults + 1
    /\ task' = "none" /\ search' = NoSearch /\ stopFlag' = FALSE
    /\ handler' = NoRequest
    /\ UNCHANGED <<run, checkpoint, calls, versions, overtaken>>

JobNext ==
    \/ TaskStep \/ LoseState \/ Create \/ ReadRun \/ StartCreated \/ RequestStop \/ StopLost
    \/ Resume \/ Refuse \/ DeleteData \/ DeleteRow \/ CrashWeb
JobSpec == JobInit /\ [][JobNext]_jobVars

-----------------------------------------------------------------------------
\* Over stops at a boundary or inside a generation, resumes, crashes and lost writes, the
\* generation and the best Sharpe ratio of the checkpoint only grow, until the run is
\* deleted: work is lost in one way only, when a task could not read the checkpoint and
\* its baseline, generation 1, replaces it.
CheckpointAdvances ==
    [][\/ checkpoint' = NoCheckpoint
       \/ checkpoint'.gen >= checkpoint.gen /\ checkpoint'.best >= checkpoint.best
       \/ task = "again" /\ checkpoint'.gen = 1]_jobVars

\* A run creates one strategy version, however often it is stopped and resumed: a
\* second one takes a crash or a lost write after the first, or a stop or resume that
\* acts on a row which is no longer as it was read.
OneVersion == versions <= 1 + faults + overtaken
===============================================================================
