------------------------------- MODULE MCFleet --------------------------------
(***************************************************************************)
(* Small instances of what runs for as long as the platform does: a        *)
(* lineage of strategy versions with one agent's meta loop; two agents of  *)
(* one account and symbol that start and stop; the monitors of the fleet.  *)
(* The modules share no variable; a behaviour runs the part that Init      *)
(* chose, and the others rest in an initial state.                         *)
(***************************************************************************)
EXTENDS StrategyLifecycle, AgentLifecycle, Monitoring

VARIABLE part

FleetInit ==
  /\ part \in {"strategies", "agents", "monitors"}
  /\ Init /\ AgentInit /\ MonitorInit /\ (part # "monitors" => ~backtests)

FleetNext ==
  \/ part = "strategies" /\ Next /\ UNCHANGED <<agentVars, monitorVars, part>>
  \/ part = "agents" /\ AgentNext /\ UNCHANGED <<vars, monitorVars, part>>
  \/ part = "monitors" /\ MonitorNext /\ UNCHANGED <<vars, agentVars, part>>

\* The fairness of the three modules, each in the behaviours of its part.
Runs(p, A) == part = p /\ A
FleetSpec ==
  /\ FleetInit /\ [][FleetNext]_<<vars, agentVars, monitorVars, part>>
  /\ \A q \in Request : WF_vars(Runs("strategies", Serve(q)))
  /\ \A c \in Creator : WF_vars(Runs("strategies", ReservePath(c)))
  /\ \A i \in Instance :
       /\ WF_vars(Runs("strategies", RefreshCache(i)))
       /\ WF_vars(Runs("strategies", AgentExits(i)))
       /\ WF_vars(Runs("strategies", CycleTask(i)))
       /\ WF_vars(Runs("strategies", RollbackTask(i)))
  /\ \A a \in Agent : WF_agentVars(Runs("agents", AgentStep(a)))
  /\ WF_monitorVars(Runs("monitors", CheckHeartbeat))
  /\ WF_monitorVars(Runs("monitors", Watch))
  /\ WF_monitorVars(Runs("monitors", Minute))
===============================================================================
