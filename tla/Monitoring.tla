------------------------------ MODULE Monitoring ------------------------------
(***************************************************************************)
(* How silence is noticed: the heartbeat file that a trading process       *)
(* rewrites after a cycle (trading/heartbeat.py), and the two tasks of the *)
(* web process that read it, the dead-man's switch and the watchdog        *)
(* (monitoring/).  The web process gives the switch neither an executor    *)
(* nor a notifier and the watchdog no session factory, so both only        *)
(* report.  Both tasks look at least once in every tick.                   *)
(***************************************************************************)
EXTENDS Integers

CONSTANTS
    Warning, Critical, Emergency, \* thresholds of the switch, in ticks of staleness
    Stale, Unresponsive,          \* thresholds of the watchdog
    AlertEvery                    \* ticks between two alerts of the watchdog

\* A switch that looks every minute and warns after ten has looked before it warns.
ASSUME MonitorAssumption ==
    /\ {Warning, Critical, Emergency, Stale, Unresponsive, AlertEvery} \subseteq Nat
    /\ 1 < Warning /\ Warning < Critical /\ Critical < Emergency
    /\ 0 < Stale /\ Stale < Unresponsive /\ Unresponsive < Emergency

VARIABLES
    beating,   \* a trading process runs and its cycles end
    backtests, \* BacktestRepository.get_active_runs is not empty: pending, running or paused
    staleness, \* age of the timestamp in heartbeat.json
    readable,  \* the file is there and holds a timestamp
    level,     \* _last_alert_level of the switch
    triggered, \* its _emergency_triggered
    health,    \* the component "trading_loop" of /health
    alertAge,  \* ticks since the watchdog's last alert
    due,       \* the tasks that have not looked in this tick
    told       \* ghost: what was reported since the last heartbeat; "lost": an incident that was
               \* not written
monitorVars == <<beating, backtests, staleness, readable, level, triggered, health, alertAge, due, told>>

MonitorInit ==
    /\ beating = FALSE /\ backtests \in BOOLEAN /\ staleness = Emergency /\ readable = FALSE
    /\ level = "ok" /\ triggered = FALSE /\ health = "unknown"
    /\ alertAge = AlertEvery /\ due = {} /\ told = {}

\* HeartbeatWriter.write, from every process to the one file.
Beat ==
    /\ beating /\ staleness > 0
    /\ staleness' = 0 /\ readable' = TRUE /\ told' = {}
    /\ UNCHANGED <<beating, backtests, level, triggered, health, alertAge, due>>

Environment ==
    /\ \/ beating' = ~beating /\ UNCHANGED <<backtests, readable>>
       \/ backtests' = ~backtests /\ UNCHANGED <<beating, readable>>
       \/ readable /\ readable' = FALSE /\ UNCHANGED <<beating, backtests>>
    /\ UNCHANGED <<staleness, level, triggered, health, alertAge, due, told>>

Capped(n, most) == IF n < most THEN n + 1 ELSE n
Minute ==
    /\ due = {} /\ due' = {"switch", "watchdog"}
    /\ staleness' = Capped(staleness, Emergency) /\ alertAge' = Capped(alertAge, AlertEvery)
    /\ UNCHANGED <<beating, backtests, readable, level, triggered, health, told>>

-----------------------------------------------------------------------------
\* Mutant: a recovery leaves _emergency_triggered.
RecoveredArmed == triggered
\* After a recovery the next silence triggers again.
Recovered == FALSE

Switch(next, emergency, reports) ==
    /\ level' = next /\ triggered' = emergency /\ told' = told \cup reports

\* _check_heartbeat.  Without an executor an active backtest suppresses the alarm.  The flag
\* is set before the incident is written: a write that fails is not tried again.
CheckHeartbeat ==
    /\ "switch" \in due /\ due' = due \ {"switch"}
    /\ IF ~readable THEN Switch("no_file", triggered, {})
       ELSE IF staleness < Warning
       THEN Switch("ok", IF level = "ok" THEN triggered ELSE Recovered, {})
       ELSE IF staleness >= Emergency /\ ~triggered
       THEN IF backtests THEN Switch("backtest_suppress", FALSE, {})
            ELSE \E written \in {"incident", "lost"} : Switch("emergency", TRUE, {written})
       ELSE IF staleness >= Critical
       THEN IF level \in {"critical", "backtest_suppress"} THEN Switch(level, triggered, {})
            ELSE IF backtests THEN Switch("backtest_suppress", triggered, {})
            ELSE Switch("critical", triggered, {"critical"})
       ELSE Switch("warning", triggered, {})
    /\ UNCHANGED <<beating, backtests, staleness, readable, health, alertAge>>

Alert(kind) ==
    IF alertAge >= AlertEvery THEN alertAge' = 0 /\ told' = told \cup {kind}
    ELSE UNCHANGED <<alertAge, told>>

\* TradingWatchdog._check.  It looks for the kill switch and the open circuit under
\* names that the heartbeat does not use, so a halted loop is healthy.
Watch ==
    /\ "watchdog" \in due /\ due' = due \ {"watchdog"}
    /\ IF readable /\ staleness > Unresponsive
       THEN health' = "unhealthy" /\ Alert("unresponsive")
       ELSE IF readable /\ staleness > Stale THEN health' = "degraded" /\ Alert("stale")
       ELSE /\ health' = (IF readable THEN "healthy" ELSE "unknown")
            /\ UNCHANGED <<alertAge, told>>
    /\ UNCHANGED <<beating, backtests, staleness, readable, level, triggered>>

MonitorNext == Beat \/ Environment \/ Minute \/ CheckHeartbeat \/ Watch
MonitorSpec == MonitorInit /\ [][MonitorNext]_monitorVars
\* The tasks of the web process are scheduled, and time passes.
MonitorFairness ==
    WF_monitorVars(CheckHeartbeat) /\ WF_monitorVars(Watch) /\ WF_monitorVars(Minute)
FairMonitorSpec == MonitorSpec /\ MonitorFairness

-----------------------------------------------------------------------------
\* Silence raises the alarm: when the heartbeats stop for good and no backtest is active,
\* the watchdog gives its critical alert and the switch its emergency, with an incident
\* unless that one write failed, whatever was reported, suppressed or recovered from before.
SilenceRaisesAlarm ==
    <>[](~beating /\ readable /\ ~backtests) =>
        <>[](triggered /\ "unresponsive" \in told /\ {"incident", "lost"} \cap told # {})
===============================================================================
