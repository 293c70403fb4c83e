------------------------------- MODULE RiskLock -------------------------------
(***************************************************************************)
(* The no-new-risk lock as the operator sees it: a trading process that    *)
(* finds the broker and its rows apart stops itself in memory and records  *)
(* an incident (main.py, risk/monitor.py, supervision/service.py); the web *)
(* UI derives the lock from the incidents and clears it by resolving them  *)
(* (webui/routes/controls.py).  Nothing tells the process.                 *)
(***************************************************************************)
EXTENDS Integers, Sequences, FiniteSets

CONSTANTS
    Trader,        \* trading processes
    OtherTypes,    \* incident types that say nothing of risk
    ListLimit,     \* list_incidents(limit): 200 in the code
    MaxIncidents   \* bound: incidents

ASSUME LockAssumption == ListLimit \in Nat \ {0} /\ MaxIncidents \in Nat

NoType == "none"
\* The incident types of the process and the reasons it halts for; with a failed
\* start it is not halted but gone.
Halting == {"bg_reconciliation_critical", "bg_reconciliation_failure"}
LockTypes == Halting \cup {"order_recovery_block", "cross_instance_risk_block"}

\* Mutant: a failing reconciler has no entry in the map.
RiskReasonPartial(type) == type \in LockTypes \ {"bg_reconciliation_failure"}
\* _NO_NEW_RISK_INCIDENT_REASON_MAP
RiskReason(type) == type \in LockTypes

VARIABLES
    incidents, \* incident_records in order: [type, status]
    halted,    \* _no_new_risk_reasons of each process, with its kill switch
    recording, \* the incident that a halted process is about to write
    acking,    \* an acknowledgement that has read its incident, or 0
    clearing,  \* the incidents that a clear request has read and found clearable
    hidden     \* ghost: processes whose incident was lost or cleared
lockVars == <<incidents, halted, recording, acking, clearing, hidden>>

LockInit ==
    /\ incidents = <<>> /\ halted = [t \in Trader |-> {}] /\ recording = [t \in Trader |-> NoType]
    /\ acking = 0 /\ clearing = {} /\ hidden = {}

Unresolved == {i \in DOMAIN incidents : incidents[i].status # "RESOLVED"}

\* The newest first, acknowledged ones included.
Listed == {i \in Unresolved : Cardinality({j \in Unresolved : j >= i}) <= ListLimit}

\* _build_risk_lock_state
ActiveReasons == {i \in Listed : RiskReason(incidents[i].type)}

Clearable == ActiveReasons # {} /\ \A i \in ActiveReasons : incidents[i].status = "ACKNOWLEDGED"

SetStatus(ids, status) ==
    [i \in DOMAIN incidents |-> IF i \in ids THEN [incidents[i] EXCEPT !.status = status] ELSE incidents[i]]
Recorded(type) ==
    /\ Len(incidents) < MaxIncidents
    /\ incidents' = Append(incidents, [type |-> type, status |-> "OPEN"])

-----------------------------------------------------------------------------
\* _trip_reconciliation_kill_switch, every quarter of an hour while it lasts: first
\* the memory, then the incident, which may be lost.
Trip(t) ==
    /\ recording[t] = NoType
    /\ \E type \in Halting :
          /\ halted' = [halted EXCEPT ![t] = @ \cup {type}]
          /\ recording' = [recording EXCEPT ![t] = type]
    /\ UNCHANGED <<incidents, acking, clearing, hidden>>

RecordIncident(t) ==
    /\ recording[t] # NoType /\ recording' = [recording EXCEPT ![t] = NoType]
    /\ \/ Recorded(recording[t]) /\ hidden' = hidden \ {t}
       \/ UNCHANGED incidents /\ hidden' = hidden \cup {t}
    /\ UNCHANGED <<halted, acking, clearing>>

\* Start-up recovery that blocks, and everything else that reports.
Report ==
    /\ \E type \in OtherTypes \cup {"order_recovery_block"} : Recorded(type)
    /\ UNCHANGED <<halted, recording, acking, clearing, hidden>>

RestartTrader(t) ==
    /\ halted[t] # {} /\ halted' = [halted EXCEPT ![t] = {}]
    /\ recording' = [recording EXCEPT ![t] = NoType] /\ hidden' = hidden \ {t}
    /\ UNCHANGED <<incidents, acking, clearing>>

\* acknowledge_incident writes the status whatever it was when it was read, and
\* reopens an incident that was resolved.
ReadIncident ==
    /\ acking = 0 /\ acking' \in DOMAIN incidents
    /\ UNCHANGED <<incidents, halted, recording, clearing, hidden>>
Acknowledge ==
    /\ acking # 0 /\ acking' = 0
    /\ incidents' = SetStatus({acking}, "ACKNOWLEDGED")
    /\ UNCHANGED <<halted, recording, clearing, hidden>>

\* clear_no_new_risk reads the state in one session and resolves in another.
ReadLock ==
    /\ clearing = {} /\ Clearable /\ clearing' = ActiveReasons
    /\ UNCHANGED <<incidents, halted, recording, acking, hidden>>
Clear ==
    /\ clearing # {} /\ clearing' = {}
    /\ incidents' = SetStatus(clearing, "RESOLVED")
    /\ hidden' = hidden \cup {t \in Trader : halted[t] # {}}
    /\ UNCHANGED <<halted, recording, acking>>

LockNext ==
    \/ \E t \in Trader : Trip(t) \/ RecordIncident(t) \/ RestartTrader(t)
    \/ Report \/ ReadIncident \/ Acknowledge \/ ReadLock \/ Clear
LockSpec == LockInit /\ [][LockNext]_lockVars

-----------------------------------------------------------------------------
\* A process that has stopped itself shows as a lock in the UI, unless its incident is
\* still being written, was lost or cleared, or unresolved incidents overflow the list.
HaltIsShown ==
    \A t \in Trader :
        halted[t] # {} => \/ ActiveReasons # {} \/ recording[t] # NoType \/ t \in hidden
                          \/ Cardinality(Unresolved) > ListLimit
===============================================================================
