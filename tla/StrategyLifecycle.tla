-------------------------- MODULE StrategyLifecycle --------------------------
(***************************************************************************)
(* The life of the strategies of one symbol: version files that trainers,  *)
(* operators and the meta loop create, edit, promote, rename and delete;   *)
(* the active_strategy_* settings that bind a version to the symbol or to  *)
(* an instance; each agent's cached view of them; and the meta loop, which *)
(* reacts to degradation with a new version and rolls it back.             *)
(*                                                                         *)
(* Code: webui/routes/strategies.py, trading/strategy_loader.py,           *)
(* backtester/asset_trainer.py, backtester/deployment_pipeline.py,         *)
(* trading/meta_loop.py, research/analyzer.py, config/settings_service.py, *)
(* the start and stop of agents in webui/routes/bots.py.  The contents of  *)
(* a strategy (rules, prompts, models) are one opaque body; metrics, and   *)
(* with them every statistical gate, are data: a gate may go either way.   *)
(***************************************************************************)
EXTENDS Integers, FiniteSets

CONSTANTS
  Name,            \* card names: a lineage of versions each
  MaxVersion,      \* bound: versions of a lineage
  Instance,        \* instance ids, used once each
  Symbol,          \* the symbol, as a settings key
  Trainer,         \* the web process, as a creator of versions
  NoRecord,
  Request,         \* slots for requests the web process serves at once
  CheckInterval,   \* METALOOP_CHECK_INTERVAL, in trades
  RollbackWindow,  \* METALOOP_ROLLBACK_WINDOW, in trades
  AutoActivate,    \* METALOOP_AUTO_ACTIVATE
  AnalyzerFits,    \* the analyzer has the interface meta_loop.py calls
  MaxBodies,       \* bound: saved contents
  MaxRequests,     \* bound: operator requests that change something
  MaxCrashes       \* bound: crashes of an agent or of the web process

ASSUME LifecycleAssumption ==
  /\ MaxVersion \in Nat \ {0} /\ MaxBodies \in Nat \ {0}
  /\ CheckInterval \in Nat \ {0} /\ RollbackWindow \in Nat \ {0}
  /\ AutoActivate \in BOOLEAN /\ AnalyzerFits \in BOOLEAN
  /\ MaxRequests \in Nat /\ MaxCrashes \in Nat
  /\ Symbol \notin Instance /\ Trainer \notin Instance

VARIABLES
  files,     \* strategy_versions/: (name, version) of a file -> record
  locks,     \* its lock files
  creator,   \* each creator's progress through the reservation of a file
  binding,   \* the active_strategy_* settings, in the database
  cache,     \* SettingsService._cache of each agent
  rows,      \* RunningInstance rows
  alive,     \* agents whose process runs
  request,   \* the operator requests under way in the web process
  meta,      \* MetaLoop of each agent: its counters and its cycle's task
  tracker,   \* MetaLoop._rollback_tracker
  rollback,  \* the progress of _execute_rollback
  bodies, requests, crashes

dirVars  == <<files, locks, creator, bodies>>
metaVars == <<meta, tracker, rollback>>
vars == <<dirVars, binding, cache, rows, alive, request, metaVars,
          requests, crashes>>

Version == 1 .. MaxVersion
Key     == Name \X Version
Status  == {"candidate", "wf_rejected", "dry_run", "demo", "live", "retired"}
Creator == Instance \cup {Trainer}
Setting == Instance \cup {Symbol}

Bound   == [version : Version, status : Status \cup {"active"}, body : 1 .. MaxBodies]

Idle     == [pc |-> "idle", name |-> NoRecord, version |-> 0,
             status |-> NoRecord, body |-> 0]
NoReq    == [op |-> "none", key |-> NoRecord, rec |-> NoRecord]
FreshMeta == [pc |-> "idle", count |-> 0, cooled |-> TRUE, active |-> NoRecord,
              new |-> NoRecord]
NoRollback == [pc |-> "idle", prev |-> 0, to |-> NoRecord]

\* build_active_strategy_payload of a record
Payload(r) == [version |-> r.version, status |-> r.status, body |-> r.body]

Exists(k) == files[k] # NoRecord

\* The path that a record's name and version give.
PathOf(r) == <<r.name, r.version>>

\* The web process is between the look at a path and the rename to it; no await parts them.
Listing == \E q \in Request : request[q].op = "rename"

Init ==
  /\ files = [k \in Key |-> NoRecord]
  /\ locks = {}
  /\ creator = [c \in Creator |-> Idle]
  /\ binding = [s \in Setting |-> NoRecord]
  /\ cache = [i \in Instance |-> [s \in Setting |-> NoRecord]]
  /\ rows = {} /\ alive = {}
  /\ request = [q \in Request |-> NoReq]
  /\ meta = [i \in Instance |-> FreshMeta]
  /\ tracker = [i \in Instance |-> NoRecord]
  /\ rollback = [i \in Instance |-> NoRollback]
  /\ bodies = 0 /\ requests = 0 /\ crashes = 0

----------------------------------------------------------------------------
(* Creating a version file.                                                *)

Largest(S) == CHOOSE v \in S \cup {0} : \A u \in S : u <= v

\* _next_version: one more than the largest version the directory shows.
NextVersion(n) == 1 + Largest({v \in Version : Exists(<<n, v>>)})

Step(c, p) == creator' = [creator EXCEPT ![c].pc = p]
MyKey(c)   == <<creator[c].name, creator[c].version>>

BeginVersion(c, n, st) ==
  creator' = [creator EXCEPT ![c] =
                [pc |-> "scan", name |-> n, version |-> 0, status |-> st, body |-> 0]]

ScanVersions(c) ==
  /\ creator[c].pc = "scan"
  /\ NextVersion(creator[c].name) <= MaxVersion
  /\ creator' = [creator EXCEPT ![c].pc = "lock",
                                ![c].version = NextVersion(creator[c].name)]
  /\ UNCHANGED <<files, locks, bodies>>

\* Mutant: the lock is opened without O_EXCL.
TakeLockShared(c) ==
  /\ creator[c].pc = "lock"
  /\ locks' = locks \cup {MyKey(c)}
  /\ Step(c, "check")
  /\ UNCHANGED <<files, bodies>>

\* os.open(lock, O_CREAT | O_EXCL): a lock that is there sends it to look at
\* the directory again, a thousand times at most.
TakeLock(c) ==
  /\ creator[c].pc = "lock"
  /\ IF MyKey(c) \in locks
     THEN /\ \/ Step(c, "scan")
             \/ creator' = [creator EXCEPT ![c] = Idle]
          /\ UNCHANGED locks
     ELSE Step(c, "check") /\ locks' = locks \cup {MyKey(c)}
  /\ UNCHANGED <<files, bodies>>

\* The number may have been saved, and its lock released, since the scan.
CheckPath(c) ==
  /\ creator[c].pc = "check"
  /\ IF Exists(MyKey(c))
     THEN Step(c, "scan") /\ locks' = locks \ {MyKey(c)}
     ELSE Step(c, "save") /\ UNCHANGED locks
  /\ UNCHANGED <<files, bodies>>

\* save_strategy_record replaces the file atomically; then the lock goes.
SaveVersion(c) ==
  /\ creator[c].pc = "save"
  /\ bodies < MaxBodies
  /\ bodies' = bodies + 1
  /\ files' = [files EXCEPT ![MyKey(c)] =
                 [name |-> creator[c].name, version |-> creator[c].version,
                  status |-> creator[c].status, body |-> bodies']]
  /\ locks' = locks \ {MyKey(c)}
  /\ creator' = [creator EXCEPT ![c].pc = "idle", ![c].body = bodies']

\* The trainer lives in the web process, which does nothing else while it lists.
ReservePath(c) ==
  /\ c = Trainer => ~Listing
  /\ ScanVersions(c) \/ TakeLock(c) \/ CheckPath(c) \/ SaveVersion(c)
  /\ UNCHANGED <<binding, cache, rows, alive, request, metaVars, requests, crashes>>

\* train_from_card: the walk-forward gate decides the status, an error in it
\* rejects.  create_ai_signal_card creates candidates in the same way.
TrainFromCard(n, passed) ==
  /\ creator[Trainer].pc = "idle" /\ ~Listing
  /\ requests < MaxRequests /\ requests' = requests + 1
  /\ BeginVersion(Trainer, n, IF passed THEN "candidate" ELSE "wf_rejected")
  /\ UNCHANGED <<files, locks, bodies, binding, cache, rows, alive, request,
                 metaVars, crashes>>

----------------------------------------------------------------------------
(* Operator requests.  What a handler read before an await is in `request'.*)

Accept(q, op, k) ==
  /\ request[q] = NoReq /\ ~Listing
  /\ requests < MaxRequests /\ requests' = requests + 1
  /\ Exists(k)
  /\ request' = [request EXCEPT ![q] = [op |-> op, key |-> k, rec |-> files[k]]]
  /\ UNCHANGED <<dirVars, binding, cache, rows, alive, metaVars, crashes>>

Reply(q) ==
  /\ request' = [request EXCEPT ![q] = NoReq]
  /\ UNCHANGED <<creator, cache, rows, alive, metaVars, requests, crashes>>

\* update_strategy, update_strategy_models: load, validate and save without
\* an await; the bindings follow in the session, after one.
UpdateStrategy(q, k, n, st) ==
  /\ request[q] = NoReq /\ ~Listing
  /\ requests < MaxRequests /\ requests' = requests + 1
  /\ Exists(k)
  /\ bodies < MaxBodies /\ bodies' = bodies + 1
  /\ LET r == [files[k] EXCEPT !.name = n, !.status = st, !.body = bodies']
     IN  /\ files' = [files EXCEPT ![k] = r]
         /\ request' = [request EXCEPT ![q] = [op |-> "sync", key |-> k, rec |-> r]]
  /\ UNCHANGED <<locks, creator, binding, cache, rows, alive, metaVars, crashes>>

\* sync_active_strategy_bindings: the symbol's binding and those of instances
\* with a row, where they carry the same version number.
SyncBindings(q) ==
  /\ request[q].op = "sync"
  /\ binding' = [s \in Setting |->
       IF /\ s \in rows \cup {Symbol}
          /\ binding[s] # NoRecord
          /\ binding[s].version = request[q].rec.version
       THEN Payload(request[q].rec) ELSE binding[s]]
  /\ UNCHANGED <<files, locks, bodies>>
  /\ Reply(q)

\* Mutant: the holdout is not required.
GateWithoutHoldout(st, bypass, good) ==
  CASE st = "candidate" /\ (bypass \/ good) -> "dry_run"
    [] st = "dry_run" /\ good -> "demo"
    [] st = "demo" /\ good -> "live"
    [] OTHER -> st

\* DeploymentPipeline.evaluate_promotion as promote calls it: without a holdout
\* result, so that nothing passes from demo to live; a status without a gate
\* (wf_rejected, live, retired) stays.
PromotionGate(st, bypass, good) ==
  CASE st = "candidate" /\ (bypass \/ good) -> "dry_run"
    [] st = "dry_run" /\ good -> "demo"
    [] OTHER -> st

PromoteRequest(q, k) == Accept(q, "promote", k)

\* promote_strategy after its awaits: what it loaded is written back whole, to
\* a file of its path or, when that is gone, of its name.
PromoteStrategy(q, bypass, good) ==
  /\ request[q].op = "promote"
  /\ LET r   == request[q].rec
         new == PromotionGate(r.status, bypass, good)
         k   == IF Exists(request[q].key) THEN request[q].key ELSE PathOf(r)
     IN  files' = IF new = r.status THEN files
                  ELSE [files EXCEPT ![k] = [r EXCEPT !.status = new]]
  /\ UNCHANGED <<binding, locks, bodies>>
  /\ Reply(q)

\* activate_strategy: at least dry_run, and the symbol's key only.
ActivateRequest(q, k) ==
  /\ files[k] # NoRecord /\ files[k].status \in {"live", "demo", "dry_run"}
  /\ Accept(q, "activate", k)

ActivateStrategy(q) ==
  /\ request[q].op = "activate"
  /\ binding' = [binding EXCEPT ![Symbol] = Payload(request[q].rec)]
  /\ UNCHANGED <<files, locks, bodies>>
  /\ Reply(q)

DeleteRequest(q, k) ==
  /\ files[k] # NoRecord /\ files[k].status \notin {"live", "demo"}
  /\ Accept(q, "delete", k)

\* Mutant: a deletion that retires the record it loaded.
RetireStrategy(q) ==
  /\ request[q].op = "delete"
  /\ files' = [files EXCEPT ![request[q].key] = [request[q].rec EXCEPT !.status = "retired"]]
  /\ UNCHANGED <<binding, locks, bodies>>
  /\ Reply(q)

\* delete_strategy: refused while the symbol or an instance with a row is bound
\* to that version number.
DeleteStrategy(q) ==
  /\ request[q].op = "delete"
  /\ LET k     == request[q].key
         bound == \E s \in rows \cup {Symbol} :
                    binding[s] # NoRecord /\ binding[s].version = k[2]
     IN  files' = IF bound THEN files ELSE [files EXCEPT ![k] = NoRecord]
  /\ UNCHANGED <<binding, locks, bodies>>
  /\ Reply(q)

\* Listing the versions renames a file whose record has another name, when the path of
\* that name is free.
ListVersions(q, k) ==
  /\ request[q] = NoReq /\ ~Listing
  /\ Exists(k) /\ ~Exists(PathOf(files[k]))
  /\ request' = [request EXCEPT ![q] = [op |-> "rename", key |-> k, rec |-> files[k]]]
  /\ UNCHANGED <<dirVars, binding, cache, rows, alive, metaVars, requests, crashes>>

\* The rename replaces what another process has saved there since the look (on Windows it
\* fails); a rename that fails leaves the files.
MigrateFilename(q) ==
  /\ request[q].op = "rename"
  /\ LET from == request[q].key
         to   == PathOf(request[q].rec)
     IN  \/ UNCHANGED files
         \/ /\ Exists(from)
            /\ files' = [files EXCEPT ![from] = NoRecord, ![to] = files[from]]
  /\ UNCHANGED <<binding, locks, bodies>>
  /\ Reply(q)

----------------------------------------------------------------------------
(* Agents and their settings caches.                                       *)

\* start_agent binds a version file to the new id first; an agent started by
\* hand (p = NoRecord) runs under whatever is bound.
StartAgent(i, p) ==
  /\ i \notin alive
  /\ requests < MaxRequests /\ requests' = requests + 1
  /\ p = NoRecord \/ \E k \in Key : Exists(k) /\ p = Payload(files[k])
  /\ binding' = IF p = NoRecord THEN binding ELSE [binding EXCEPT ![i] = p]
  /\ cache' = [cache EXCEPT ![i] = binding']
  /\ alive' = alive \cup {i}
  /\ rows' = (rows \cap alive) \cup {i}
  /\ UNCHANGED <<dirVars, request, metaVars, crashes>>

\* The process ends and forgets; files, locks and settings stay.
Forget(i) ==
  /\ alive' = alive \ {i}
  /\ creator' = [creator EXCEPT ![i] = Idle]
  /\ meta' = [meta EXCEPT ![i] = FreshMeta]
  /\ tracker' = [tracker EXCEPT ![i] = NoRecord]
  /\ rollback' = [rollback EXCEPT ![i] = NoRollback]
  /\ UNCHANGED <<files, locks, bodies, binding, cache, request, requests>>

\* stop_agent deletes the row as soon as the signal is sent.
StopAgent(i) ==
  /\ i \in alive /\ i \in rows
  /\ rows' = rows \ {i}
  /\ UNCHANGED <<dirVars, binding, cache, alive, request, metaVars, requests,
                 crashes>>

AgentExits(i) ==
  /\ i \in alive /\ i \notin rows
  /\ Forget(i)
  /\ UNCHANGED <<rows, crashes>>

AgentCrashes(i) ==
  /\ i \in alive
  /\ crashes < MaxCrashes /\ crashes' = crashes + 1
  /\ Forget(i)
  /\ UNCHANGED rows

WebCrashes ==
  /\ crashes < MaxCrashes /\ crashes' = crashes + 1
  /\ request' = [q \in Request |-> NoReq]
  /\ creator' = [creator EXCEPT ![Trainer] = Idle]
  /\ UNCHANGED <<files, locks, bodies, binding, cache, rows, alive, metaVars,
                 requests>>

\* list_bots drops the rows of dead processes.
PurgeRows ==
  /\ rows # rows \cap alive
  /\ rows' = rows \cap alive
  /\ UNCHANGED <<dirVars, binding, cache, alive, request, metaVars, requests,
                 crashes>>

\* Mutant: a reload keeps the instance's own key.
RefreshSymbolKey(i) ==
  /\ i \in alive /\ cache[i][Symbol] # binding[Symbol]
  /\ cache' = [cache EXCEPT ![i][Symbol] = binding[Symbol]]
  /\ UNCHANGED <<dirVars, binding, rows, alive, request, metaVars, requests,
                 crashes>>

\* SettingsService: the first read after the TTL reloads all settings.
RefreshCache(i) ==
  /\ i \in alive /\ cache[i] # binding
  /\ cache' = [cache EXCEPT ![i] = binding]
  /\ UNCHANGED <<dirVars, binding, rows, alive, request, metaVars, requests,
                 crashes>>

\* load_active_strategy: the instance's key first, then the symbol's.
Active(i) == IF cache[i][i] # NoRecord THEN cache[i][i] ELSE cache[i][Symbol]

\* SettingsService.set: the database, then the writer's own cache.
SetSetting(i, s, p) ==
  /\ binding' = [binding EXCEPT ![s] = p]
  /\ cache' = [cache EXCEPT ![i][s] = p]

----------------------------------------------------------------------------
(* The meta loop.  record_trade_close awaits the publication of TradeClosed *)
(* and so its handler: an agent handles one closed trade at a time, but the *)
(* cycle it started is a task of its own.                                  *)

Cycle(i, p) == meta' = [meta EXCEPT ![i].pc = p]
MetaFrame(i) ==
  /\ i \in alive
  /\ UNCHANGED <<files, locks, bodies, rows, alive, request, requests>>

Min2(a, b) == IF a < b THEN a ELSE b

\* on_trade_closed.  `worse': the last RollbackWindow trades of the version
\* have less than 0.7 of the previous Sharpe ratio (should_rollback).
TradeClosed(i, worse) ==
  /\ MetaFrame(i)
  /\ rollback[i].pc = "idle"
  /\ LET count == Min2(meta[i].count + 1, CheckInterval)
         seen  == IF tracker[i] = NoRecord THEN 0
                  ELSE Min2(tracker[i].seen + 1, RollbackWindow)
         back  == tracker[i] # NoRecord /\ seen = RollbackWindow /\ worse
         start == ~back /\ count = CheckInterval /\ meta[i].pc = "idle"
                  /\ meta[i].cooled
     IN  /\ tracker' = IF tracker[i] = NoRecord THEN tracker
                       ELSE [tracker EXCEPT ![i].seen = seen]
         /\ rollback' = IF back
                        THEN [rollback EXCEPT ![i].pc = "find",
                                              ![i].prev = tracker[i].prev]
                        ELSE rollback
         /\ meta' = IF start
                    THEN [meta EXCEPT ![i].pc = "retrain", ![i].count = 0,
                                      ![i].cooled = FALSE]
                    ELSE [meta EXCEPT ![i].count = count]
  /\ UNCHANGED <<creator, binding, cache, crashes>>

\* 24 hours after a cycle began.
CooldownEnds(i) ==
  /\ ~meta[i].cooled
  /\ meta' = [meta EXCEPT ![i].cooled = TRUE]
  /\ MetaFrame(i)
  /\ UNCHANGED <<creator, binding, cache, tracker, rollback, crashes>>

\* check_retraining_needed: the two windows' Sharpe ratios decide.
CheckRetraining(i, degraded) ==
  /\ meta[i].pc = "retrain"
  /\ Cycle(i, IF degraded THEN "load" ELSE "idle")
  /\ MetaFrame(i)
  /\ UNCHANGED <<creator, binding, cache, tracker, rollback, crashes>>

LoadActive(i) ==
  /\ meta[i].pc = "load"
  /\ meta' = [meta EXCEPT ![i].active = Active(i),
       ![i].pc = IF Active(i) = NoRecord THEN "idle" ELSE "report"]
  /\ MetaFrame(i)
  /\ UNCHANGED <<creator, binding, cache, tracker, rollback, crashes>>

\* _run_walk_forward_gate: the class it imports is not in backtester/runner.py,
\* and an error passes the gate.
WalkForwardPasses == TRUE

\* The report, the AI's suggestion and the t-test, which may each end the
\* cycle.  The repository's analyzer does: its run takes no extra_context, and
\* it has no suggest_params.  An active strategy has no name, so that the new
\* version gets a generated one.
Improve(i, better, n) ==
  /\ meta[i].pc = "report"
  /\ IF AnalyzerFits /\ better /\ WalkForwardPasses
     THEN Cycle(i, "create") /\ BeginVersion(i, n, "candidate")
     ELSE Cycle(i, "idle") /\ UNCHANGED creator
  /\ MetaFrame(i)
  /\ UNCHANGED <<binding, cache, tracker, rollback, crashes>>

\* _create_strategy_version has returned: None when no path could be reserved.
VersionCreated(i) ==
  /\ meta[i].pc = "create" /\ creator[i].pc = "idle"
  /\ creator' = [creator EXCEPT ![i] = Idle]
  /\ meta' = IF creator[i] = Idle \/ ~AutoActivate
             THEN [meta EXCEPT ![i].pc = "idle"]
             ELSE [meta EXCEPT ![i].pc = "bind",
                    ![i].new = [version |-> creator[i].version,
                                status |-> "active", body |-> creator[i].body]]
  /\ MetaFrame(i)
  /\ UNCHANGED <<binding, cache, tracker, rollback, crashes>>

\* _activate_version: store_active_strategy_bindings writes the instance's key
\* and then the symbol's, in two transactions; then the tracker begins.
BindInstance(i) ==
  /\ meta[i].pc = "bind"
  /\ SetSetting(i, i, meta[i].new)
  /\ Cycle(i, "bindSymbol")
  /\ MetaFrame(i)
  /\ UNCHANGED <<creator, tracker, rollback, crashes>>

BindSymbol(i) ==
  /\ meta[i].pc = "bindSymbol"
  /\ SetSetting(i, Symbol, meta[i].new)
  /\ Cycle(i, "idle")
  /\ tracker' = [tracker EXCEPT ![i] = [prev |-> meta[i].active.version, seen |-> 0]]
  /\ MetaFrame(i)
  /\ UNCHANGED <<creator, rollback, crashes>>

\* A write that fails ends the activation where it is.
ActivationFails(i) ==
  /\ meta[i].pc \in {"bind", "bindSymbol"}
  /\ crashes < MaxCrashes /\ crashes' = crashes + 1
  /\ Cycle(i, "idle")
  /\ MetaFrame(i)
  /\ UNCHANGED <<creator, binding, cache, tracker, rollback>>

\* _execute_rollback.  find_strategy_record is not given a name: any file with
\* the previous version's number will do, and without one nothing is bound.
FindPrevious(i) ==
  /\ rollback[i].pc = "find"
  /\ \/ \E k \in Key :
          /\ Exists(k) /\ files[k].version = rollback[i].prev
          /\ rollback' = [rollback EXCEPT ![i].pc = "bind",
                                          ![i].to = Payload(files[k])]
     \/ /\ \A k \in Key : Exists(k) => files[k].version # rollback[i].prev
        /\ rollback' = [rollback EXCEPT ![i].pc = "done"]
  /\ MetaFrame(i)
  /\ UNCHANGED <<creator, binding, cache, meta, tracker, crashes>>

RollbackBinds(i) ==
  /\ \/ /\ rollback[i].pc = "bind"
        /\ SetSetting(i, i, rollback[i].to)
        /\ rollback' = [rollback EXCEPT ![i].pc = "bindSymbol"]
     \/ /\ rollback[i].pc = "bindSymbol"
        /\ SetSetting(i, Symbol, rollback[i].to)
        /\ rollback' = [rollback EXCEPT ![i].pc = "done"]
  /\ MetaFrame(i)
  /\ UNCHANGED <<creator, meta, tracker, crashes>>

\* A failed write leaves the tracker: the next closed trade tries again.
RollbackFails(i) ==
  /\ rollback[i].pc \in {"bind", "bindSymbol"}
  /\ crashes < MaxCrashes /\ crashes' = crashes + 1
  /\ rollback' = [rollback EXCEPT ![i] = NoRollback]
  /\ MetaFrame(i)
  /\ UNCHANGED <<creator, binding, cache, meta, tracker>>

\* StrategyRolledBack is published and the tracker, whichever it is, dropped.
RolledBack(i) ==
  /\ rollback[i].pc = "done"
  /\ rollback' = [rollback EXCEPT ![i] = NoRollback]
  /\ tracker' = [tracker EXCEPT ![i] = NoRecord]
  /\ MetaFrame(i)
  /\ UNCHANGED <<creator, binding, cache, meta, crashes>>

----------------------------------------------------------------------------
Operator ==
  \/ \E n \in Name, passed \in BOOLEAN : TrainFromCard(n, passed)
  \/ \E q \in Request, k \in Key, n \in Name, st \in Status : UpdateStrategy(q, k, n, st)
  \/ \E q \in Request, k \in Key : PromoteRequest(q, k)
  \/ \E q \in Request, k \in Key : ActivateRequest(q, k)
  \/ \E q \in Request, k \in Key : DeleteRequest(q, k)
  \/ \E q \in Request, k \in Key : ListVersions(q, k)
  \/ \E i \in Instance, p \in Bound \cup {NoRecord} : StartAgent(i, p)
  \/ \E i \in Instance : StopAgent(i)
  \/ PurgeRows

Serve(q) ==
  \/ MigrateFilename(q)
  \/ /\ ~Listing
     /\ \/ SyncBindings(q)
        \/ \E bypass, good \in BOOLEAN : PromoteStrategy(q, bypass, good)
        \/ ActivateStrategy(q)
        \/ DeleteStrategy(q)

CycleTask(i) ==
  \/ \E degraded \in BOOLEAN : CheckRetraining(i, degraded)
  \/ LoadActive(i)
  \/ \E better \in BOOLEAN, n \in Name : Improve(i, better, n)
  \/ VersionCreated(i) \/ BindInstance(i) \/ BindSymbol(i)

RollbackTask(i) == FindPrevious(i) \/ RollbackBinds(i) \/ RolledBack(i)

Fault ==
  \/ \E i \in Instance : AgentCrashes(i) \/ ActivationFails(i) \/ RollbackFails(i)
  \/ WebCrashes

Next ==
  \/ Operator
  \/ \E q \in Request : Serve(q)
  \/ \E c \in Creator : ReservePath(c)
  \/ \E i \in Instance : RefreshCache(i)
  \/ \E i \in Instance : AgentExits(i)
  \/ \E i \in Instance, worse \in BOOLEAN : TradeClosed(i, worse)
  \/ \E i \in Instance : CooldownEnds(i)
  \/ \E i \in Instance : CycleTask(i)
  \/ \E i \in Instance : RollbackTask(i)
  \/ Fault

Spec == Init /\ [][Next]_vars

\* Coroutines that are scheduled run on, and an agent keeps reading settings.
FairSpec ==
  /\ Spec
  /\ \A q \in Request : WF_vars(Serve(q))
  /\ \A c \in Creator : WF_vars(ReservePath(c))
  /\ \A i \in Instance : /\ WF_vars(RefreshCache(i)) /\ WF_vars(AgentExits(i))
                         /\ WF_vars(CycleTask(i)) /\ WF_vars(RollbackTask(i))

----------------------------------------------------------------------------
\* Two creators that have passed the lock, in whichever processes, never hold
\* the same file: the lock is released only after the save or after the path
\* was found taken, and the directory is looked at again under the lock.
ReservationsDistinct ==
  \A c, d \in Creator :
    /\ creator[c].pc \in {"check", "save"} => MyKey(c) \in locks
    /\ {creator[c].pc, creator[d].pc} \subseteq {"check", "save"} /\ c # d
         => MyKey(c) # MyKey(d)

\* A request writes what it loaded, which need not be what the file k holds by now: a
\* promotion that was under way before an edit, or a rename whose look found k free.
WrittenLate(q, k) ==
  \/ request[q].op = "promote" /\ files'[k].body = request[q].rec.body
  \/ /\ request[q].op = "rename" /\ k = PathOf(request[q].rec)
     /\ files'[k] = files[request[q].key] /\ files'[request[q].key] = NoRecord

\* Without new content from an operator or a creator, whatever the metrics, the gate
\* bypass and the order of awaits: nothing becomes live that no live file held, and what
\* the walk-forward gate rejected stays rejected.  A rejected file gives way only to other
\* content that is written late.
PromotionLimits ==
  [][\A k \in Key :
       bodies' = bodies /\ files'[k] # NoRecord =>
         /\ files'[k].status = "live" =>
              \E j \in Key : /\ Exists(j) /\ files[j].status = "live"
                             /\ files[j].body = files'[k].body
         /\ Exists(k) /\ files[k].status = "wf_rejected" /\ files'[k].status # "wf_rejected" =>
              /\ files'[k].body # files[k].body
              /\ \E q \in Request : WrittenLate(q, k)]_vars

\* A version's content gives way to older content only when that is written late:
\* creators, edits, deletions and the meta loop never bring an old body back into a file.
OldContentWrittenLate ==
  [][\A k \in Key :
       Exists(k) /\ files'[k] # NoRecord /\ files'[k].body < files[k].body =>
         \E q \in Request : WrittenLate(q, k)]_vars

\* When operators and meta loops are done, every running agent's cached view
\* of the settings is what the database holds, also where several processes
\* wrote the same key and each first updated its own cache.
CachesConverge == <>[](\A i \in alive : cache[i] = binding)
=============================================================================
