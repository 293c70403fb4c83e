---------------------------- MODULE AgentLifecycle ----------------------------
(***************************************************************************)
(* The processes that trade one account and symbol, from the operator's    *)
(* start to their end: main.py with its signal handler, its single-writer  *)
(* row in execution_locks and its row in running_instances, and the        *)
(* handlers of webui/routes/bots.py that launch, list and stop agents.     *)
(* ExecutionSaga has what the same processes do to orders.                 *)
(***************************************************************************)
EXTENDS Integers, FiniteSets

CONSTANTS
    Agent,        \* launches; each gets a fresh instance id and pid
    NoAgent,
    LeaseTimeout, \* ticks until a heartbeat of the single-writer row is stale
    MaxKills      \* bound: processes that die without their finally clause

ASSUME AgentAssumption == NoAgent \notin Agent /\ LeaseTimeout \in Nat \ {0} /\ MaxKills \in Nat

VARIABLES
    phase,     \* where main_async is
    live,      \* started with --live --allow-v4-live
    looping,   \* TradingLoop._running
    leaseRow,  \* owner_uuid of the scope's row
    leaseAge,  \* ticks since its heartbeat_at
    listing,   \* running_instances: "none", "web" (pre-registered) or "own"
    launching, \* the agent whose start request has not registered it yet
    stopping,  \* a stop request between its signal and its delete: [agent, row]
    heeded,    \* ghost: agents whose loop was running when they were told to stop
    left,      \* ghost: agents that ended without deleting their single-writer row
    kills
agentVars ==
    <<phase, live, looping, leaseRow, leaseAge, listing, launching, stopping, heeded, left, kills>>

\* "boot": no signal handler yet; "check": broker, recovery, reconciliation;
\* "wire": after the lease, before the agent lists itself; "built": the TradingLoop
\* exists; then its loop and the steps of the finally clause.
Running(a) == phase[a] \notin {"idle", "gone"}
Writing(a) == live[a] /\ phase[a] \in {"wire", "built", "loop", "unlist", "release"}
NoStop == [agent |-> NoAgent, row |-> "none"]

AgentInit ==
    /\ phase = [a \in Agent |-> "idle"] /\ live = [a \in Agent |-> FALSE]
    /\ looping = [a \in Agent |-> FALSE]
    /\ leaseRow = NoAgent /\ leaseAge = 0
    /\ listing = [a \in Agent |-> "none"] /\ launching = NoAgent /\ stopping = NoStop
    /\ heeded = {} /\ left = {} /\ kills = 0

Enter(a, p) == phase' = [phase EXCEPT ![a] = p]
WebOnly == UNCHANGED <<live, looping, leaseRow, leaseAge, heeded>>
OwnOnly == UNCHANGED <<live, launching, stopping, heeded, kills>>
ProcessOnly == OwnOnly /\ UNCHANGED left

-----------------------------------------------------------------------------
(* The process *)

InstallHandlers(a) ==
    /\ phase[a] = "boot" /\ Enter(a, "check")
    /\ UNCHANGED <<looping, leaseRow, leaseAge, listing>> /\ ProcessOnly

\* A start that is blocked raises SystemExit outside the try; a dry run can fail too.
Blocked(a) ==
    /\ phase[a] \in {"boot", "check", "wire"} /\ Enter(a, "gone")
    /\ UNCHANGED <<looping, leaseRow, leaseAge, listing>> /\ ProcessOnly

\* Mutant: a stale row is taken over, as the code means to.
LeaseFreeWhenStale(a) == leaseRow = NoAgent \/ leaseAge >= LeaseTimeout

\* Any row ends the start: the column is a DateTime without a time zone, so the age
\* of its heartbeat cannot be computed from an aware "now".
LeaseFree(a) == leaseRow = NoAgent

ClaimLease(a) ==
    /\ phase[a] = "check"
    /\ IF ~live[a] THEN Enter(a, "wire") /\ UNCHANGED <<leaseRow, leaseAge>>
       ELSE IF LeaseFree(a)
       THEN Enter(a, "wire") /\ leaseRow' = a /\ leaseAge' = 0
       ELSE Enter(a, "gone") /\ UNCHANGED <<leaseRow, leaseAge>>
    /\ UNCHANGED <<looping, listing>> /\ ProcessOnly

\* The agent replaces its own row and builds the TradingLoop.
ListItself(a) ==
    /\ phase[a] = "wire" /\ Enter(a, "built") /\ listing' = [listing EXCEPT ![a] = "own"]
    /\ UNCHANGED <<looping, leaseRow, leaseAge>> /\ ProcessOnly

\* TradingLoop.run sets _running, whatever stop() said before.
Run(a) ==
    /\ phase[a] = "built" /\ Enter(a, "loop") /\ looping' = [looping EXCEPT ![a] = TRUE]
    /\ UNCHANGED <<leaseRow, leaseAge, listing>> /\ ProcessOnly

\* The heartbeat task, every third of the timeout; nothing if the row is not its own.
Refresh(a) ==
    /\ Writing(a) /\ leaseRow = a /\ leaseAge > 0 /\ leaseAge' = 0
    /\ UNCHANGED <<phase, looping, leaseRow, listing>> /\ ProcessOnly

\* The loop ends after the cycle in which _running was cleared.
\* Mutant: the loop is left when an order ends it only.
LoopEndsNever(a) == FALSE
LoopEnds(a) == ~looping[a]

LeaveLoop(a) ==
    /\ phase[a] = "loop" /\ LoopEnds(a)
    /\ \/ Enter(a, "unlist") /\ UNCHANGED left
       \* A background task that has died raises where the finally clause awaits it.
       \/ Enter(a, "gone") /\ left' = left \cup {a}
    /\ UNCHANGED <<looping, leaseRow, leaseAge, listing>> /\ OwnOnly
\* The circuit breaker's second threshold stops the loop from inside.
BreakLoop(a) ==
    /\ phase[a] = "loop" /\ looping[a] /\ looping' = [looping EXCEPT ![a] = FALSE]
    /\ UNCHANGED <<phase, leaseRow, leaseAge, listing>> /\ ProcessOnly
\* A delete that fails is logged, and the shutdown goes on.
Unlist(a) ==
    /\ phase[a] = "unlist" /\ Enter(a, "release")
    /\ listing' \in {listing, [listing EXCEPT ![a] = "none"]}
    /\ UNCHANGED <<looping, leaseRow, leaseAge>> /\ ProcessOnly
\* The delete names the scope, not the owner.  When it fails the row stays for good.
ReleaseLease(a) ==
    /\ phase[a] = "release" /\ Enter(a, "gone")
    /\ \/ leaseRow' = (IF live[a] THEN NoAgent ELSE leaseRow) /\ UNCHANGED left
       \/ live[a] /\ UNCHANGED leaseRow /\ left' = left \cup {a}
    /\ UNCHANGED <<looping, leaseAge, listing>> /\ OwnOnly

Kill(a) ==
    /\ Running(a) /\ kills < MaxKills /\ kills' = kills + 1 /\ Enter(a, "gone")
    /\ left' = left \cup {a}
    /\ UNCHANGED <<listing, launching, stopping>> /\ WebOnly

AgeLease ==
    /\ leaseRow # NoAgent /\ leaseAge < LeaseTimeout /\ leaseAge' = leaseAge + 1
    /\ UNCHANGED <<phase, looping, leaseRow, listing>> /\ ProcessOnly

-----------------------------------------------------------------------------
(* The operator *)

\* Rows of dead processes are dropped by a start, a listing and the web's own start.
DropDead(rows) == [a \in Agent |-> IF Running(a) THEN rows[a] ELSE "none"]

Launch(a) ==
    /\ phase[a] = "idle" /\ launching = NoAgent
    /\ Enter(a, "boot") /\ launching' = a
    /\ \E l \in BOOLEAN : live' = [live EXCEPT ![a] = l]
    /\ listing' = DropDead(listing)
    /\ UNCHANGED <<looping, leaseRow, leaseAge, stopping, heeded, left, kills>>

\* The row of the start request; a unique key refuses it if the agent was faster.
PreRegister ==
    /\ launching # NoAgent /\ launching' = NoAgent
    /\ listing' = IF listing[launching] = "none" THEN [listing EXCEPT ![launching] = "web"] ELSE listing
    /\ UNCHANGED <<phase, stopping, left, kills>> /\ WebOnly

ListAgents ==
    /\ listing' = DropDead(listing)
    /\ UNCHANGED <<phase, launching, stopping, left, kills>> /\ WebOnly

\* SIGTERM: fatal before the handler, nothing before the TradingLoop, then stop().
SignalAgent(a) ==
    /\ stopping = NoStop /\ listing[a] # "none"
    /\ stopping' = [agent |-> a, row |-> listing[a]]
    /\ phase' = IF phase[a] = "boot" THEN [phase EXCEPT ![a] = "gone"] ELSE phase
    /\ looping' = IF phase[a] \in {"built", "loop"} THEN [looping EXCEPT ![a] = FALSE] ELSE looping
    /\ heeded' = IF phase[a] = "loop" THEN heeded \cup {a} ELSE heeded
    /\ UNCHANGED <<live, leaseRow, leaseAge, listing, launching, left, kills>>

\* On Windows nothing reads the sentinel file: after ten seconds the process is killed.
KillAgent(a) ==
    /\ stopping = NoStop /\ listing[a] # "none" /\ kills < MaxKills
    /\ stopping' = [agent |-> a, row |-> listing[a]]
    /\ phase' = IF Running(a) THEN [phase EXCEPT ![a] = "gone"] ELSE phase
    /\ left' = IF Running(a) THEN left \cup {a} ELSE left
    /\ kills' = kills + 1
    /\ UNCHANGED <<listing, launching>> /\ WebOnly

\* The row that was read is deleted by its key, not the one the agent wrote since.
DropRow ==
    /\ stopping # NoStop /\ stopping' = NoStop
    /\ listing' = IF listing[stopping.agent] = stopping.row
                  THEN [listing EXCEPT ![stopping.agent] = "none"] ELSE listing
    /\ UNCHANGED <<phase, launching, left, kills>> /\ WebOnly

Unregister(a) ==
    /\ listing[a] # "none" /\ listing' = [listing EXCEPT ![a] = "none"]
    /\ UNCHANGED <<phase, launching, stopping, left, kills>> /\ WebOnly

AgentStep(a) ==
    \/ InstallHandlers(a) \/ ClaimLease(a) \/ ListItself(a) \/ Run(a) \/ LeaveLoop(a)
    \/ Unlist(a) \/ ReleaseLease(a)
OperatorStep ==
    \/ PreRegister \/ ListAgents \/ DropRow
    \/ \E a \in Agent : Launch(a) \/ SignalAgent(a) \/ KillAgent(a) \/ Unregister(a)
AgentNext ==
    \/ OperatorStep \/ AgeLease
    \/ \E a \in Agent : AgentStep(a) \/ Blocked(a) \/ Refresh(a) \/ BreakLoop(a) \/ Kill(a)

\* A process that runs gets on with what it does.
AgentFairness == \A a \in Agent : WF_agentVars(AgentStep(a))
AgentSpec == AgentInit /\ [][AgentNext]_agentVars
FairAgentSpec == AgentSpec /\ AgentFairness

-----------------------------------------------------------------------------
\* execution_lock.py: at most one live agent of an account and symbol is past its
\* claim, although stops, kills and the deletes of the single-writer row by scope
\* (not by owner) come in any order.
SingleWriter == \A a, b \in Agent : Writing(a) /\ Writing(b) => a = b

\* execution_lock.py, main.py:528: the row is a lease on writing.  It is taken when there
\* is none, given back by the writer that holds it although the delete names the scope,
\* and left behind by one that dies; whoever writes has taken it (SingleWriter follows).
Lease == INSTANCE WriterLease
         WITH Owner <- Agent, NoOwner <- NoAgent, holder <- leaseRow,
              writers <- {a \in Agent : Writing(a)}
LeaseIsKept == Lease!Spec

\* An agent that is told to stop while its loop runs ends.  Its single-writer row outlives
\* it only if it was killed, its shutdown broke off or the delete failed: no other agent
\* can keep it from giving back its own row, or give it back for it.
StopIsHeeded == \A a \in Agent : a \in heeded ~> ~Running(a) /\ (leaseRow = a => a \in left)

\* execution_lock.py, main.py:553: a start that finds a row whose heartbeat is older
\* than the lease takes it over instead of giving up.
StaleLeaseIsTaken ==
    [][\A a \in Agent :
          (phase[a] = "check" /\ leaseRow # NoAgent /\ leaseRow # a /\ leaseAge >= LeaseTimeout
           /\ ~Running(leaseRow) /\ ClaimLease(a)) => leaseRow' = a \/ ~live[a]]_agentVars
===============================================================================
