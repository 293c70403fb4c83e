-------------------------- MODULE Supervision_proofs --------------------------
(***************************************************************************)
(* Theorems about what supervises the trading processes: AgentLifecycle,   *)
(* for any number of agents, any lease timeout and any number of kills,    *)
(* RiskLock, for any number of traders, other incident types and           *)
(* incidents, and any limit of the list, and the dead-man's switch of      *)
(* Monitoring, for any thresholds.                                         *)
(***************************************************************************)
EXTENDS AgentLifecycle, RiskLock, Monitoring, FiniteSetTheorems, TLAPS

-----------------------------------------------------------------------------
(* The single-writer row *)

Phases == {"idle", "boot", "check", "wire", "built", "loop", "unlist", "release", "gone"}

AgentTypes ==
    /\ phase \in [Agent -> Phases] /\ live \in [Agent -> BOOLEAN]
    /\ leaseRow \in Agent \cup {NoAgent}

\* A live agent past its claim is the owner of the single-writer row.  This is what
\* SingleWriter needs to be inductive: the delete by scope then removes its own row.
WriterOwnsLease == \A a \in Agent : Writing(a) => leaseRow = a

AgentInv == AgentTypes /\ WriterOwnsLease

LEMMA AgentInitInv == AgentInit => AgentInv
BY DEF AgentInit, AgentInv, AgentTypes, WriterOwnsLease, Writing, Phases

\* Nobody's phase changes but that of one agent, which stops writing or never did.
LEMMA LeavesWriters ==
  ASSUME AgentInv, NEW a \in Agent, NEW p \in Phases, Enter(a, p), UNCHANGED <<live, leaseRow>>,
         p \in {"wire", "built", "loop", "unlist", "release"} =>
            Writing(a) \/ ~live[a]
  PROVE  AgentInv'
BY DEF AgentInv, AgentTypes, WriterOwnsLease, Writing, Enter, Phases

\* The steps of the process on its way from the start to its end.
LEMMA AgentStepInv ==
  ASSUME AgentInv, NEW a \in Agent, AgentStep(a)
  PROVE  AgentInv'
<1> USE DEF ProcessOnly, OwnOnly
<1>1. CASE InstallHandlers(a)
  BY <1>1, LeavesWriters DEF InstallHandlers, Phases
<1>2. CASE ClaimLease(a)
  \* Whoever wrote would own the row, and a row that is there ends the start.
  BY <1>2, AgentAssumption
     DEF ClaimLease, LeaseFree, AgentInv, AgentTypes, WriterOwnsLease, Writing, Enter, Phases
<1>3. CASE ListItself(a)
  BY <1>3, LeavesWriters DEF ListItself, Phases, Writing, AgentInv, AgentTypes
<1>4. CASE Run(a)
  BY <1>4, LeavesWriters DEF Run, Phases, Writing, AgentInv, AgentTypes
<1>5. CASE LeaveLoop(a)
  BY <1>5, LeavesWriters DEF LeaveLoop, Phases, Writing, AgentInv, AgentTypes
<1>6. CASE Unlist(a)
  BY <1>6, LeavesWriters DEF Unlist, Phases, Writing, AgentInv, AgentTypes
<1>7. CASE ReleaseLease(a)
  \* A live agent that releases is the owner, so nobody else writes.
  BY <1>7 DEF ReleaseLease, AgentInv, AgentTypes, WriterOwnsLease, Writing, Enter, Phases
<1> QED
  BY <1>1, <1>2, <1>3, <1>4, <1>5, <1>6, <1>7 DEF AgentStep

\* What the operator does to the rows of running_instances leaves the writers alone;
\* a start and a signal only concern agents that do not write, or end them.
LEMMA OperatorStepInv ==
  ASSUME AgentInv, OperatorStep
  PROVE  AgentInv'
<1> USE DEF AgentInv, AgentTypes, WriterOwnsLease, Writing, Phases
<1>1. CASE PreRegister \/ ListAgents \/ DropRow
  BY <1>1 DEF PreRegister, ListAgents, DropRow, WebOnly
<1>2. ASSUME NEW a \in Agent, Launch(a) PROVE AgentInv'
  BY <1>2 DEF Launch, Enter
<1>3. ASSUME NEW a \in Agent, SignalAgent(a) PROVE AgentInv'
  BY <1>3 DEF SignalAgent
<1>4. ASSUME NEW a \in Agent, KillAgent(a) PROVE AgentInv'
  BY <1>4 DEF KillAgent, WebOnly
<1>5. ASSUME NEW a \in Agent, Unregister(a) PROVE AgentInv'
  BY <1>5 DEF Unregister, WebOnly
<1> QED
  BY <1>1, <1>2, <1>3, <1>4, <1>5 DEF OperatorStep

LEMMA AgentNextInv ==
  ASSUME AgentInv, [AgentNext]_agentVars
  PROVE  AgentInv'
<1>1. CASE OperatorStep
  BY <1>1, OperatorStepInv
<1>2. CASE AgeLease
  BY <1>2 DEF AgeLease, ProcessOnly, OwnOnly, AgentInv, AgentTypes, WriterOwnsLease, Writing
<1>3. ASSUME NEW a \in Agent, AgentStep(a) PROVE AgentInv'
  BY <1>3, AgentStepInv
<1>4. ASSUME NEW a \in Agent, Blocked(a) PROVE AgentInv'
  BY <1>4, LeavesWriters DEF Blocked, ProcessOnly, OwnOnly, Phases
<1>5. ASSUME NEW a \in Agent, Refresh(a) \/ BreakLoop(a) PROVE AgentInv'
  BY <1>5 DEF Refresh, BreakLoop, ProcessOnly, OwnOnly, AgentInv, AgentTypes, WriterOwnsLease, Writing
<1>6. ASSUME NEW a \in Agent, Kill(a) PROVE AgentInv'
  BY <1>6, LeavesWriters DEF Kill, WebOnly, Phases
<1>7. CASE UNCHANGED agentVars
  BY <1>7 DEF agentVars, AgentInv, AgentTypes, WriterOwnsLease, Writing
<1> QED
  BY <1>1, <1>2, <1>3, <1>4, <1>5, <1>6, <1>7 DEF AgentNext

\* Whatever the order of starts, signals, kills, breakers and deletes by scope, a live
\* agent past its claim owns the single-writer row (main.py, execution_lock.py).
THEOREM AgentInvariant == AgentSpec => []AgentInv
<1>1. AgentInit => AgentInv
  BY AgentInitInv
<1>2. AgentInv /\ [AgentNext]_agentVars => AgentInv'
  BY AgentNextInv
<1> QED
  BY <1>1, <1>2, PTL DEF AgentSpec

\* Two live agents of an account and symbol are never past their claim together.
THEOREM OnlyOneWriter == AgentSpec => []SingleWriter
<1>1. AgentInv => SingleWriter
  BY DEF AgentInv, WriterOwnsLease, SingleWriter
<1> QED
  BY <1>1, AgentInvariant, PTL

-----------------------------------------------------------------------------
(* The row as a lease *)

\* Nobody begins or ends to write, and the row stays.
LEMMA LeaseStays ==
  ASSUME UNCHANGED leaseRow, \A b \in Agent : Writing(b)' <=> Writing(b)
  PROVE  UNCHANGED Lease!vars
<1>1. {b \in Agent : Writing(b)}' = {b \in Agent : Writing(b)}
  OBVIOUS
<1> QED
  BY <1>1 DEF Lease!vars

\* One process moves to a phase and is as much of a writer as before.
LEMMA MovesInLease ==
  ASSUME AgentInv, NEW a \in Agent, NEW p \in Phases, Enter(a, p), UNCHANGED <<live, leaseRow>>,
         live[a] => (Writing(a) <=> p \in {"wire", "built", "loop", "unlist", "release"})
  PROVE  UNCHANGED Lease!vars
<1>1. \A b \in Agent : Writing(b)' <=> Writing(b)
  BY DEF AgentInv, AgentTypes, Writing, Enter, Phases
<1> QED
  BY <1>1, LeaseStays

\* One process ends, and the row stays.
LEMMA DiesInLease ==
  ASSUME AgentInv, NEW a \in Agent, Enter(a, "gone"), UNCHANGED <<live, leaseRow>>
  PROVE  [Lease!Next]_(Lease!vars)
<1>1. \A b \in Agent : Writing(b)' <=> Writing(b) /\ b # a
  BY DEF AgentInv, AgentTypes, Writing, Enter
<1>2. {b \in Agent : Writing(b)}' = {b \in Agent : Writing(b)} \ {a}
  BY <1>1
<1>3. CASE Writing(a)
  <2>1. Lease!Die(a)
    BY <1>2, <1>3 DEF Lease!Die
  <2> QED
    BY <2>1 DEF Lease!Next
<1>4. CASE ~Writing(a)
  <2>1. \A b \in Agent : Writing(b)' <=> Writing(b)
    BY <1>1, <1>4
  <2> QED
    BY <2>1, LeaseStays
<1> QED
  BY <1>3, <1>4

LEMMA ClaimTakes ==
  ASSUME AgentInv, NEW a \in Agent, ClaimLease(a)
  PROVE  [Lease!Next]_(Lease!vars)
<1> USE DEF ProcessOnly, OwnOnly
<1>1. CASE ~live[a]
  BY <1>1, MovesInLease DEF ClaimLease, Phases
<1>2. CASE live[a] /\ LeaseFree(a)
  <2>1. \A b \in Agent : Writing(b)' <=> Writing(b) \/ b = a
    BY <1>2 DEF ClaimLease, Enter, AgentInv, AgentTypes, Writing
  <2>2. {b \in Agent : Writing(b)}' = {b \in Agent : Writing(b)} \cup {a}
    BY <2>1
  <2>3. Lease!Take(a)
    BY <1>2, <2>2 DEF Lease!Take, ClaimLease, LeaseFree
  <2> QED
    BY <2>3 DEF Lease!Next
<1>3. CASE live[a] /\ ~LeaseFree(a)
  BY <1>3, DiesInLease DEF ClaimLease
<1> QED
  BY <1>1, <1>2, <1>3

\* The delete by scope gives back the lease of the one that deletes, or fails.
LEMMA ReleaseGives ==
  ASSUME AgentInv, NEW a \in Agent, ReleaseLease(a)
  PROVE  [Lease!Next]_(Lease!vars)
<1> USE DEF ProcessOnly, OwnOnly
<1>1. CASE UNCHANGED leaseRow
  BY <1>1, DiesInLease DEF ReleaseLease
<1>2. CASE live[a] /\ leaseRow' = NoAgent
  <2>1. Writing(a) /\ leaseRow = a
    BY <1>2 DEF ReleaseLease, Writing, AgentInv, WriterOwnsLease
  <2>2. \A b \in Agent : Writing(b)' <=> Writing(b) /\ b # a
    BY <1>2 DEF ReleaseLease, Enter, AgentInv, AgentTypes, Writing
  <2>3. {b \in Agent : Writing(b)}' = {b \in Agent : Writing(b)} \ {a}
    BY <2>2
  <2>4. Lease!Give(a)
    BY <1>2, <2>1, <2>3 DEF Lease!Give
  <2> QED
    BY <2>4 DEF Lease!Next
<1> QED
  BY <1>1, <1>2 DEF ReleaseLease

LEMMA AgentStepLease ==
  ASSUME AgentInv, NEW a \in Agent, AgentStep(a)
  PROVE  [Lease!Next]_(Lease!vars)
<1> USE DEF ProcessOnly, OwnOnly
<1>1. CASE InstallHandlers(a)
  BY <1>1, MovesInLease DEF InstallHandlers, Phases, Writing
<1>2. CASE ListItself(a)
  BY <1>2, MovesInLease DEF ListItself, Phases, Writing
<1>3. CASE Run(a)
  BY <1>3, MovesInLease DEF Run, Phases, Writing
<1>4. CASE LeaveLoop(a)
  <2>1. CASE Enter(a, "unlist")
    BY <1>4, <2>1, MovesInLease DEF LeaveLoop, Phases, Writing
  <2>2. CASE Enter(a, "gone")
    BY <1>4, <2>2, DiesInLease DEF LeaveLoop
  <2> QED
    BY <1>4, <2>1, <2>2 DEF LeaveLoop
<1>5. CASE Unlist(a)
  BY <1>5, MovesInLease DEF Unlist, Phases, Writing
<1> QED
  BY <1>1, <1>2, <1>3, <1>4, <1>5, ClaimTakes, ReleaseGives DEF AgentStep

\* What the operator does begins no writing and ends it only by a kill.
LEMMA OperatorStepLease ==
  ASSUME AgentInv, OperatorStep
  PROVE  [Lease!Next]_(Lease!vars)
<1>1. CASE PreRegister \/ ListAgents \/ DropRow
  BY <1>1, LeaseStays DEF PreRegister, ListAgents, DropRow, WebOnly, Writing
<1>2. ASSUME NEW a \in Agent, Launch(a) PROVE UNCHANGED Lease!vars
  <2>1. \A b \in Agent : Writing(b)' <=> Writing(b)
    BY <1>2 DEF Launch, Enter, AgentInv, AgentTypes, Writing
  <2> QED
    BY <1>2, <2>1, LeaseStays DEF Launch
<1>3. ASSUME NEW a \in Agent, SignalAgent(a) PROVE UNCHANGED Lease!vars
  <2>1. \A b \in Agent : Writing(b)' <=> Writing(b)
    BY <1>3 DEF SignalAgent, AgentInv, AgentTypes, Writing
  <2> QED
    BY <1>3, <2>1, LeaseStays DEF SignalAgent
<1>4. ASSUME NEW a \in Agent, KillAgent(a) PROVE [Lease!Next]_(Lease!vars)
  <2>1. CASE Running(a)
    BY <1>4, <2>1, DiesInLease DEF KillAgent, WebOnly, Enter
  <2>2. CASE ~Running(a)
    BY <1>4, <2>2, LeaseStays DEF KillAgent, WebOnly, Writing
  <2> QED
    BY <2>1, <2>2
<1>5. ASSUME NEW a \in Agent, Unregister(a) PROVE UNCHANGED Lease!vars
  BY <1>5, LeaseStays DEF Unregister, WebOnly, Writing
<1> QED
  BY <1>1, <1>2, <1>3, <1>4, <1>5 DEF OperatorStep

LEMMA AgentNextLease ==
  ASSUME AgentInv, [AgentNext]_agentVars
  PROVE  [Lease!Next]_(Lease!vars)
<1>1. CASE OperatorStep
  BY <1>1, OperatorStepLease
<1>2. CASE AgeLease
  BY <1>2, LeaseStays DEF AgeLease, ProcessOnly, OwnOnly, Writing
<1>3. ASSUME NEW a \in Agent, AgentStep(a) PROVE [Lease!Next]_(Lease!vars)
  BY <1>3, AgentStepLease
<1>4. ASSUME NEW a \in Agent, Blocked(a) PROVE [Lease!Next]_(Lease!vars)
  BY <1>4, DiesInLease DEF Blocked, ProcessOnly, OwnOnly
<1>5. ASSUME NEW a \in Agent, Refresh(a) \/ BreakLoop(a) PROVE UNCHANGED Lease!vars
  BY <1>5, LeaseStays DEF Refresh, BreakLoop, ProcessOnly, OwnOnly, Writing
<1>6. ASSUME NEW a \in Agent, Kill(a) PROVE [Lease!Next]_(Lease!vars)
  BY <1>6, DiesInLease DEF Kill, WebOnly
<1>7. CASE UNCHANGED agentVars
  BY <1>7, LeaseStays DEF agentVars, Writing
<1> QED
  BY <1>1, <1>2, <1>3, <1>4, <1>5, <1>6, <1>7 DEF AgentNext

\* The single-writer row is a lease: starts, stops, signals, kills and deletes by scope
\* take it when it is free, give back one's own, or leave it behind (main.py,
\* execution_lock.py).
THEOREM AgentsKeepTheLease == AgentSpec => LeaseIsKept
<1>1. AgentInit => Lease!Init
  <2>1. AgentInit => leaseRow = NoAgent /\ {a \in Agent : Writing(a)} = {}
    BY DEF AgentInit, Writing
  <2> QED
    BY <2>1 DEF Lease!Init
<1>2. AgentInv /\ [AgentNext]_agentVars => [Lease!Next]_(Lease!vars)
  BY AgentNextLease
<1> QED
  BY <1>1, <1>2, AgentInvariant, PTL DEF AgentSpec, LeaseIsKept, Lease!Spec

-----------------------------------------------------------------------------
(* A stop is heeded *)

\* Only a live agent past its claim, or one that died there, is the owner of the row.
OwnerIsLive ==
    leaseRow # NoAgent => live[leaseRow] /\ phase[leaseRow] \notin {"idle", "boot", "check"}

\* An agent that was told to stop in its loop never loops again, and a row of its own that
\* is there when it has ended was left.
OnItsWayOut(a) ==
    /\ phase[a] \in {"loop", "unlist", "release", "gone"}
    /\ phase[a] = "loop" => ~looping[a]
    /\ phase[a] = "gone" /\ leaseRow = a => a \in left

StopInv ==
    /\ AgentInv
    /\ looping \in [Agent -> BOOLEAN] /\ heeded \subseteq Agent
    /\ OwnerIsLive
    /\ \A a \in heeded : OnItsWayOut(a)

\* One process moves between phases that the others, and a stop, do not see.
LEMMA StopMoves ==
  ASSUME StopInv, AgentInv', NEW a \in Agent, NEW p \in Phases, Enter(a, p), a \notin heeded,
         phase[a] \notin {"idle", "boot", "check"} => p \notin {"idle", "boot", "check"},
         UNCHANGED <<live, leaseRow, looping, left, heeded>>
  PROVE  StopInv'
BY DEF StopInv, AgentInv, AgentTypes, OwnerIsLive, OnItsWayOut, Enter

LEMMA AgentStepStop ==
  ASSUME StopInv, AgentInv', NEW a \in Agent, AgentStep(a)
  PROVE  StopInv'
<1> USE DEF ProcessOnly, OwnOnly
<1>1. CASE InstallHandlers(a)
  BY <1>1, StopMoves DEF InstallHandlers, Phases, StopInv, OnItsWayOut
<1>2. CASE ClaimLease(a)
  <2>1. a \notin heeded
    BY <1>2 DEF ClaimLease, StopInv, OnItsWayOut
  <2>2. /\ phase' = [phase EXCEPT ![a] = IF live[a] /\ ~LeaseFree(a) THEN "gone" ELSE "wire"]
        /\ leaseRow' = IF live[a] /\ LeaseFree(a) THEN a ELSE leaseRow
        /\ UNCHANGED <<live, looping, heeded, left>>
    BY <1>2 DEF ClaimLease, Enter
  <2>3. \A b \in heeded : OnItsWayOut(b)'
    <3> SUFFICES ASSUME NEW b \in heeded PROVE OnItsWayOut(b)'
      BY <2>2
    <3>1. OnItsWayOut(b) /\ b # a /\ phase'[b] = phase[b]
      BY <2>1, <2>2 DEF StopInv, AgentInv, AgentTypes
    <3> QED
      BY <2>2, <3>1 DEF OnItsWayOut
  <2>4. OwnerIsLive'
    BY <1>2, <2>2, AgentAssumption
       DEF ClaimLease, LeaseFree, StopInv, AgentInv, AgentTypes, OwnerIsLive
  <2> QED
    BY <2>2, <2>3, <2>4 DEF StopInv
<1>3. CASE ListItself(a)
  BY <1>3, StopMoves DEF ListItself, Phases, StopInv, OnItsWayOut
<1>4. CASE Run(a)
  <2>1. a \notin heeded
    BY <1>4 DEF Run, StopInv, OnItsWayOut
  <2> QED
    BY <1>4, <2>1 DEF Run, Enter, StopInv, AgentInv, AgentTypes, OwnerIsLive, OnItsWayOut
<1>5. CASE LeaveLoop(a)
  BY <1>5 DEF LeaveLoop, Enter, StopInv, AgentInv, AgentTypes, OwnerIsLive, OnItsWayOut
<1>6. CASE Unlist(a)
  BY <1>6 DEF Unlist, Enter, StopInv, AgentInv, AgentTypes, OwnerIsLive, OnItsWayOut
<1>7. CASE ReleaseLease(a)
  \* A live one empties the row or leaves it; one that is not live never owned it.
  <2>1. /\ phase' = [phase EXCEPT ![a] = "gone"]
        /\ leaseRow' \in {leaseRow, NoAgent} /\ UNCHANGED <<live, looping, heeded>>
        /\ left' \in {left, left \cup {a}}
    BY <1>7 DEF ReleaseLease, Enter, OwnOnly
  <2>2. leaseRow' # a \/ a \in left'
    BY <1>7, AgentAssumption DEF ReleaseLease, StopInv, OwnerIsLive
  <2>3. \A b \in heeded : OnItsWayOut(b)'
    <3> SUFFICES ASSUME NEW b \in heeded PROVE OnItsWayOut(b)'
      BY <2>1
    <3>1. OnItsWayOut(b) /\ (b # a => phase'[b] = phase[b])
      BY <2>1 DEF StopInv, AgentInv, AgentTypes
    <3>2. b # NoAgent
      BY AgentAssumption DEF StopInv
    <3>3. CASE b = a
      BY <2>1, <2>2, <3>3 DEF OnItsWayOut, StopInv, AgentInv, AgentTypes
    <3>4. CASE b # a
      BY <2>1, <3>1, <3>2, <3>4 DEF OnItsWayOut
    <3> QED
      BY <3>3, <3>4
  <2>4. OwnerIsLive'
    BY <2>1 DEF StopInv, AgentInv, AgentTypes, OwnerIsLive
  <2> QED
    BY <2>1, <2>3, <2>4 DEF StopInv
<1> QED
  BY <1>1, <1>2, <1>3, <1>4, <1>5, <1>6, <1>7 DEF AgentStep

LEMMA OperatorStepStop ==
  ASSUME StopInv, AgentInv', OperatorStep
  PROVE  StopInv'
<1> USE DEF StopInv, AgentInv, AgentTypes, OwnerIsLive, OnItsWayOut
<1>1. CASE PreRegister \/ ListAgents \/ DropRow
  BY <1>1 DEF PreRegister, ListAgents, DropRow, WebOnly
<1>2. ASSUME NEW a \in Agent, Launch(a) PROVE StopInv'
  BY <1>2 DEF Launch, Enter
<1>3. ASSUME NEW a \in Agent, SignalAgent(a) PROVE StopInv'
  BY <1>3 DEF SignalAgent
<1>4. ASSUME NEW a \in Agent, KillAgent(a) PROVE StopInv'
  BY <1>4 DEF KillAgent, WebOnly
<1>5. ASSUME NEW a \in Agent, Unregister(a) PROVE StopInv'
  BY <1>5 DEF Unregister, WebOnly
<1> QED
  BY <1>1, <1>2, <1>3, <1>4, <1>5 DEF OperatorStep

LEMMA AgentNextStop ==
  ASSUME StopInv, [AgentNext]_agentVars
  PROVE  StopInv'
<1>0. AgentInv'
  BY AgentNextInv DEF StopInv
<1> USE <1>0
<1>1. CASE OperatorStep
  BY <1>1, OperatorStepStop
<1>2. CASE AgeLease
  BY <1>2 DEF AgeLease, ProcessOnly, OwnOnly, StopInv, OwnerIsLive, OnItsWayOut
<1>3. ASSUME NEW a \in Agent, AgentStep(a) PROVE StopInv'
  BY <1>3, AgentStepStop
<1>4. ASSUME NEW a \in Agent, Blocked(a) PROVE StopInv'
  BY <1>4, StopMoves DEF Blocked, ProcessOnly, OwnOnly, Phases, StopInv, OnItsWayOut
<1>5. ASSUME NEW a \in Agent, Refresh(a) PROVE StopInv'
  BY <1>5 DEF Refresh, ProcessOnly, OwnOnly, StopInv, OwnerIsLive, OnItsWayOut
<1>6. ASSUME NEW a \in Agent, BreakLoop(a) PROVE StopInv'
  BY <1>6 DEF BreakLoop, ProcessOnly, OwnOnly, StopInv, OwnerIsLive, OnItsWayOut
<1>7. ASSUME NEW a \in Agent, Kill(a) PROVE StopInv'
  BY <1>7 DEF Kill, WebOnly, Enter, StopInv, AgentInv, AgentTypes, OwnerIsLive, OnItsWayOut
<1>8. CASE UNCHANGED agentVars
  BY <1>8 DEF agentVars, StopInv, OwnerIsLive, OnItsWayOut
<1> QED
  BY <1>1, <1>2, <1>3, <1>4, <1>5, <1>6, <1>7, <1>8 DEF AgentNext

LEMMA StopInvariant == AgentSpec => []StopInv
<1>1. AgentInit => StopInv
  BY AgentInitInv DEF AgentInit, StopInv, OwnerIsLive
<1>2. StopInv /\ [AgentNext]_agentVars => StopInv'
  BY AgentNextStop
<1> QED
  BY <1>1, <1>2, PTL DEF AgentSpec

\* When a process can get on, and weak fairness of its steps written with that condition
\* in the place of ENABLED, of which the prover knows nothing: a process that can get on
\* from some moment on does so again and again.
CanStep(a) == Running(a) /\ (phase[a] = "loop" => ~looping[a])
ProgressOf(a) == []<>~CanStep(a) \/ []<><<AgentStep(a)>>_agentVars
AgentProgress == \A a \in Agent : ProgressOf(a)

\* The stages of an agent that was told to stop.
ToldIn(a, p) == a \in heeded /\ phase[a] = p

\* No step of anybody leads back or forgets the stop; a step of its own leads on.
LEMMA StopAdvances ==
  ASSUME StopInv, NEW a \in Agent, [AgentNext]_agentVars
  PROVE  /\ ToldIn(a, "loop") => ToldIn(a, "loop")' \/ ToldIn(a, "unlist")' \/ ToldIn(a, "gone")'
         /\ ToldIn(a, "unlist") =>
               ToldIn(a, "unlist")' \/ ToldIn(a, "release")' \/ ToldIn(a, "gone")'
         /\ ToldIn(a, "release") => ToldIn(a, "release")' \/ ToldIn(a, "gone")'
<1> USE DEF ToldIn, StopInv, AgentInv, AgentTypes
<1>1. CASE OperatorStep
  BY <1>1 DEF OperatorStep, PreRegister, ListAgents, DropRow, WebOnly, Launch, Enter,
              SignalAgent, KillAgent, Unregister
<1>2. CASE AgeLease \/ UNCHANGED agentVars
  BY <1>2 DEF AgeLease, ProcessOnly, OwnOnly, agentVars
<1>3. ASSUME NEW b \in Agent, AgentStep(b)
      PROVE  heeded' = heeded /\ (phase[a] = "loop" => phase'[a] \in {"loop", "unlist", "gone"})
             /\ (phase[a] = "unlist" => phase'[a] \in {"unlist", "release"})
             /\ (phase[a] = "release" => phase'[a] \in {"release", "gone"})
  BY <1>3 DEF AgentStep, InstallHandlers, ClaimLease, ListItself, Run, LeaveLoop, Unlist,
              ReleaseLease, ProcessOnly, OwnOnly, Enter
<1>4. ASSUME NEW b \in Agent, Blocked(b) \/ Refresh(b) \/ BreakLoop(b) \/ Kill(b)
      PROVE  heeded' = heeded /\ phase'[a] \in {phase[a], "gone"}
  BY <1>4 DEF Blocked, Refresh, BreakLoop, Kill, ProcessOnly, OwnOnly, WebOnly, Enter
<1> QED
  BY <1>1, <1>2, <1>3, <1>4 DEF AgentNext

LEMMA StopStepsOn ==
  ASSUME StopInv, NEW a \in Agent, AgentStep(a)
  PROVE  /\ ToldIn(a, "loop") => ToldIn(a, "unlist")' \/ ToldIn(a, "gone")'
         /\ ToldIn(a, "unlist") => ToldIn(a, "release")'
         /\ ToldIn(a, "release") => ToldIn(a, "gone")'
BY DEF AgentStep, InstallHandlers, ClaimLease, ListItself, Run, LeaveLoop, Unlist,
       ReleaseLease, ProcessOnly, OwnOnly, Enter, ToldIn, StopInv, AgentInv, AgentTypes

\* An agent that is told to stop while its loop runs ends, and its row with it unless it was
\* killed, its shutdown broke off or its delete failed: for any agents, lease timeout and
\* kills, if each process that can get on does (loop.py, run; main.py, the finally clause).
THEOREM StopsAreHeeded == AgentSpec /\ AgentProgress => StopIsHeeded
<1> DEFINE Ended(a) == ~Running(a) /\ (leaseRow = a => a \in left)
<1>1. ASSUME NEW a \in Agent
      PROVE  []StopInv /\ [][AgentNext]_agentVars /\ ProgressOf(a) => (a \in heeded ~> Ended(a))
  <2>1. StopInv /\ [AgentNext]_agentVars =>
          /\ ToldIn(a, "loop") =>
                ToldIn(a, "loop")' \/ ToldIn(a, "unlist")' \/ ToldIn(a, "gone")'
          /\ ToldIn(a, "unlist") =>
                ToldIn(a, "unlist")' \/ ToldIn(a, "release")' \/ ToldIn(a, "gone")'
          /\ ToldIn(a, "release") => ToldIn(a, "release")' \/ ToldIn(a, "gone")'
    BY StopAdvances
  <2>2. StopInv /\ <<AgentStep(a)>>_agentVars =>
          /\ ToldIn(a, "loop") => ToldIn(a, "unlist")' \/ ToldIn(a, "gone")'
          /\ ToldIn(a, "unlist") => ToldIn(a, "release")'
          /\ ToldIn(a, "release") => ToldIn(a, "gone")'
    BY StopStepsOn
  <2>3. StopInv =>
          /\ a \in heeded =>
                ToldIn(a, "loop") \/ ToldIn(a, "unlist") \/ ToldIn(a, "release") \/ ToldIn(a, "gone")
          /\ ToldIn(a, "loop") \/ ToldIn(a, "unlist") \/ ToldIn(a, "release") => CanStep(a)
          /\ ToldIn(a, "gone") => Ended(a)
    BY DEF StopInv, OnItsWayOut, ToldIn, CanStep, Running
  <2> QED
    BY <2>1, <2>2, <2>3, PTL DEF ProgressOf
<1>2. AgentSpec => []StopInv /\ [][AgentNext]_agentVars
  BY StopInvariant, PTL DEF AgentSpec
<1>3. []StopInv /\ [][AgentNext]_agentVars /\ AgentProgress => StopIsHeeded
  BY <1>1 DEF AgentProgress, StopIsHeeded
<1> QED
  BY <1>2, <1>3, PTL

\* What is left to TLC: where a process can get on, its step is enabled.  With that, the
\* weak fairness of the specification is the progress assumed above.
StepIsEnabled == \A a \in Agent : CanStep(a) => ENABLED <<AgentStep(a)>>_agentVars
FairnessOf(a) == WF_agentVars(AgentStep(a))

LEMMA FairAgentsProgress == FairAgentSpec /\ []StepIsEnabled => AgentProgress
<1>1. ASSUME NEW a \in Agent
      PROVE  []StepIsEnabled /\ FairnessOf(a) => ProgressOf(a)
  <2>1. StepIsEnabled => (CanStep(a) => ENABLED <<AgentStep(a)>>_agentVars)
    BY DEF StepIsEnabled
  <2> QED
    BY <2>1, PTL DEF FairnessOf, ProgressOf
<1>2. []StepIsEnabled /\ (\A a \in Agent : FairnessOf(a)) => AgentProgress
  BY <1>1 DEF AgentProgress
<1> QED
  BY <1>2, PTL DEF FairAgentSpec, AgentFairness, FairnessOf

-----------------------------------------------------------------------------
(* The no-new-risk lock *)

Statuses == {"OPEN", "ACKNOWLEDGED", "RESOLVED"}
Incident == [type : OtherTypes \cup LockTypes, status : Statuses]

LockShape ==
    /\ incidents \in Seq(Incident)
    /\ recording \in [Trader -> Halting \cup {NoType}] /\ DOMAIN halted = Trader

\* An incident that derives the lock, wherever it is in the table.
LocksRisk(i) == RiskReason(incidents[i].type) /\ incidents[i].status # "RESOLVED"

\* A process that halted and has written its incident has one that is unresolved.
HaltIsRecorded ==
    \A t \in Trader :
        halted[t] # {} /\ recording[t] = NoType /\ t \notin hidden =>
            \E i \in DOMAIN incidents : LocksRisk(i)

LockInv == LockShape /\ HaltIsRecorded

\* A new incident leaves the earlier ones where they are.
LEMMA RecordedKeeps ==
  ASSUME incidents \in Seq(Incident), NEW type \in OtherTypes \cup LockTypes, Recorded(type)
  PROVE  /\ incidents' \in Seq(Incident)
         /\ \A i \in DOMAIN incidents : i \in DOMAIN incidents' /\ incidents'[i] = incidents[i]
         /\ Len(incidents) + 1 \in DOMAIN incidents'
         /\ incidents'[Len(incidents) + 1] = [type |-> type, status |-> "OPEN"]
<1> DEFINE new == [type |-> type, status |-> "OPEN"]
<1>1. new \in Incident
  BY DEF Incident, Statuses
<1>2. incidents' = Append(incidents, new)
  BY DEF Recorded
<1> HIDE DEF new
<1>3. /\ incidents' \in Seq(Incident)
      /\ \A i \in DOMAIN incidents : i \in DOMAIN incidents' /\ incidents'[i] = incidents[i]
      /\ Len(incidents) + 1 \in DOMAIN incidents'
      /\ incidents'[Len(incidents) + 1] = new
  BY <1>1, <1>2
<1> QED
  BY <1>3 DEF new

\* A change of status leaves the types; only "RESOLVED" takes an incident from the lock.
LEMMA SetStatusKeeps ==
  ASSUME incidents \in Seq(Incident), NEW ids, NEW status \in Statuses,
         incidents' = SetStatus(ids, status)
  PROVE  /\ incidents' \in Seq(Incident) /\ DOMAIN incidents' = DOMAIN incidents
         /\ \A i \in DOMAIN incidents :
               /\ incidents'[i].type = incidents[i].type
               /\ incidents'[i].status = IF i \in ids THEN status ELSE incidents[i].status
<1>1. DOMAIN incidents = 1 .. Len(incidents) /\ Len(incidents) \in Nat
  OBVIOUS
<1>2. \A i \in DOMAIN incidents : incidents[i] \in Incident
  OBVIOUS
<1>3. incidents' \in [1 .. Len(incidents) -> Incident]
  BY <1>1, <1>2 DEF SetStatus, Incident
<1>4. incidents' \in Seq(Incident)
  BY <1>1, <1>3
<1> QED
  BY <1>1, <1>2, <1>3, <1>4 DEF SetStatus, Incident

LEMMA LockNextInv ==
  ASSUME LockInv, [LockNext]_lockVars
  PROVE  LockInv'
<1> USE DEF LockInv, LockShape, HaltIsRecorded, LocksRisk
<1>1. ASSUME NEW t \in Trader, Trip(t) PROVE LockInv'
  BY <1>1 DEF Trip, Halting, NoType
<1>2. ASSUME NEW t \in Trader, RecordIncident(t) PROVE LockInv'
  <2>1. recording[t] \in Halting /\ recording' \in [Trader -> Halting \cup {NoType}]
    BY <1>2 DEF RecordIncident
  <2>2. CASE Recorded(recording[t]) /\ hidden' = hidden \ {t}
    <3>1. /\ incidents' \in Seq(Incident)
          /\ \A i \in DOMAIN incidents : i \in DOMAIN incidents' /\ incidents'[i] = incidents[i]
      BY <2>1, <2>2, RecordedKeeps DEF LockTypes
    <3>2. \E i \in DOMAIN incidents' : LocksRisk(i)'
      <4> DEFINE n == Len(incidents) + 1
      <4>1. n \in DOMAIN incidents' /\ incidents'[n] = [type |-> recording[t], status |-> "OPEN"]
        BY <2>1, <2>2, RecordedKeeps DEF LockTypes
      <4>2. recording[t] \in LockTypes
        BY <2>1 DEF LockTypes
      <4> HIDE DEF n
      <4>3. incidents'[n].type \in LockTypes /\ incidents'[n].status # "RESOLVED"
        BY <4>1, <4>2
      <4> QED
        BY <4>1, <4>3 DEF RiskReason
    <3> QED
      BY <1>2, <2>1, <3>1, <3>2 DEF RecordIncident
  <2>3. CASE UNCHANGED incidents /\ hidden' = hidden \cup {t}
    BY <1>2, <2>1, <2>3 DEF RecordIncident
  <2> QED
    BY <1>2, <2>2, <2>3 DEF RecordIncident
<1>3. ASSUME NEW t \in Trader, RestartTrader(t) PROVE LockInv'
  BY <1>3 DEF RestartTrader
<1>4. CASE Report
  <2>1. PICK type \in OtherTypes \cup {"order_recovery_block"} : Recorded(type)
    BY <1>4 DEF Report
  <2>2. type \in OtherTypes \cup LockTypes
    BY DEF LockTypes
  <2>3. /\ incidents' \in Seq(Incident)
        /\ \A i \in DOMAIN incidents : i \in DOMAIN incidents' /\ incidents'[i] = incidents[i]
    BY <2>1, <2>2, RecordedKeeps
  <2> QED
    BY <1>4, <2>3 DEF Report
<1>5. CASE ReadIncident \/ ReadLock
  BY <1>5 DEF ReadIncident, ReadLock
<1>6. CASE Acknowledge
  <2>1. /\ incidents' \in Seq(Incident) /\ DOMAIN incidents' = DOMAIN incidents
        /\ \A i \in DOMAIN incidents :
              /\ incidents'[i].type = incidents[i].type
              /\ incidents'[i].status \in {"ACKNOWLEDGED", incidents[i].status}
    <3>1. incidents' = SetStatus({acking}, "ACKNOWLEDGED") /\ "ACKNOWLEDGED" \in Statuses
      BY <1>6 DEF Acknowledge, Statuses
    <3>2. incidents \in Seq(Incident)
      OBVIOUS
    <3>3. /\ incidents' \in Seq(Incident) /\ DOMAIN incidents' = DOMAIN incidents
          /\ \A i \in DOMAIN incidents :
                /\ incidents'[i].type = incidents[i].type
                /\ incidents'[i].status = IF i \in {acking} THEN "ACKNOWLEDGED"
                                          ELSE incidents[i].status
      BY <3>1, <3>2, SetStatusKeeps, ZenonT(60)
    <3> QED
      BY <3>3
  <2> QED
    BY <1>6, <2>1 DEF Acknowledge
<1>7. CASE Clear
  \* Whoever is halted counts as hidden from here on.
  <2>1. incidents' \in Seq(Incident)
    BY <1>7, SetStatusKeeps DEF Clear, Statuses
  <2> QED
    BY <1>7, <2>1 DEF Clear
<1>8. CASE UNCHANGED lockVars
  BY <1>8 DEF lockVars
<1> QED
  BY <1>1, <1>2, <1>3, <1>4, <1>5, <1>6, <1>7, <1>8 DEF LockNext

\* The list leaves an unresolved incident out only when it is full of newer ones.
LEMMA ListOverflows ==
  ASSUME incidents \in Seq(Incident), NEW i \in Unresolved, i \notin Listed
  PROVE  Cardinality(Unresolved) > ListLimit
<1> DEFINE newer == {j \in Unresolved : j >= i}
<1>1. IsFiniteSet(Unresolved)
  <2>1. IsFiniteSet(1 .. Len(incidents))
    BY FS_Interval
  <2>2. Unresolved \subseteq 1 .. Len(incidents)
    BY DEF Unresolved
  <2> QED
    BY <2>1, <2>2, FS_Subset
<1>2. newer \subseteq Unresolved
  OBVIOUS
<1>3. Cardinality(newer) <= Cardinality(Unresolved)
      /\ Cardinality(newer) \in Nat /\ Cardinality(Unresolved) \in Nat
  BY <1>1, <1>2, FS_Subset, FS_CardinalityType
<1>4. ~(Cardinality(newer) <= ListLimit)
  BY DEF Listed
<1> HIDE DEF newer
<1> QED
  BY <1>3, <1>4, LockAssumption

\* A halted process shows as a lock, however incidents are acknowledged, reopened and
\* cleared (webui/routes/controls.py, _build_risk_lock_state).
THEOREM HaltsAreShown == LockSpec => []HaltIsShown
<1>1. LockInit => LockInv
  BY DEF LockInit, LockInv, LockShape, HaltIsRecorded, NoType
<1>2. LockInv /\ [LockNext]_lockVars => LockInv'
  BY LockNextInv
<1>3. LockInv => HaltIsShown
  <2> SUFFICES ASSUME LockInv, NEW t \in Trader, halted[t] # {}, ActiveReasons = {},
                      recording[t] = NoType, t \notin hidden
               PROVE  Cardinality(Unresolved) > ListLimit
    BY DEF HaltIsShown
  <2>1. PICK i \in DOMAIN incidents : LocksRisk(i)
    BY DEF LockInv, HaltIsRecorded
  <2>2. i \in Unresolved /\ i \notin Listed
    BY <2>1 DEF LocksRisk, Unresolved, ActiveReasons
  <2> QED
    BY <2>2, ListOverflows DEF LockInv, LockShape
<1> QED
  BY <1>1, <1>2, <1>3, PTL DEF LockSpec

-----------------------------------------------------------------------------
(* The dead-man's switch *)

\* A heartbeat that the switch has not looked at since it came.
Unnoticed == staleness = 0 \/ (staleness = 1 /\ "switch" \in due)

\* The switch has tried to record its incident since the last heartbeat.
Tried == "incident" \in told \/ "lost" \in told
TriedTwice == "incident" \in told /\ "lost" \in told

\* A switch at "ok" is armed; one that is triggered has tried once since the last heartbeat,
\* or is about to notice that heartbeat; one that has tried is triggered as long as the
\* silence lasts.
SwitchInv ==
    /\ staleness \in Nat
    /\ level = "ok" => ~triggered
    /\ triggered /\ readable /\ ~Tried => Unnoticed
    /\ Tried => triggered /\ staleness >= Emergency
    /\ ~TriedTwice

\* A triggered switch, which tries no further, has raised its alarm for this silence, once.
TriggeredHasTried ==
    triggered /\ readable /\ staleness >= Warning => Tried /\ ~TriedTwice

LEMMA SwitchNextInv ==
  ASSUME SwitchInv, [MonitorNext]_monitorVars
  PROVE  SwitchInv'
<1> USE MonitorAssumption DEF SwitchInv, Unnoticed, Tried, TriedTwice
<1>1. CASE Beat
  BY <1>1 DEF Beat
<1>2. CASE Environment
  BY <1>2 DEF Environment
<1>3. CASE Minute
  BY <1>3 DEF Minute, Capped
<1>4. CASE CheckHeartbeat
  <2>1. CASE ~readable
    BY <1>4, <2>1 DEF CheckHeartbeat, Switch
  <2>2. CASE readable /\ staleness < Warning
    <3>1. ~Tried
      BY <2>2
    <3>2. /\ staleness' = staleness /\ told' = told /\ level' = "ok" /\ readable'
          /\ triggered' => level = "ok" /\ triggered
      BY <1>4, <2>2 DEF CheckHeartbeat, Switch, Recovered
    <3> QED
      BY <3>1, <3>2
  <2>3. CASE readable /\ ~(staleness < Warning)
    <3>1. triggered => Tried
      BY <2>3
    <3>2. /\ staleness' = staleness /\ readable' = readable
          /\ \/ told' = told /\ (triggered' => triggered) /\ (Tried => triggered') /\ level' # "ok"
             \/ /\ ~triggered /\ triggered' /\ staleness >= Emergency /\ level' # "ok"
                /\ told' = told \cup {"incident"} \/ told' = told \cup {"lost"}
             \/ UNCHANGED triggered /\ told' = told \cup {"critical"} /\ level' # "ok"
             \/ UNCHANGED <<told, triggered, level>>
      BY <1>4, <2>3 DEF CheckHeartbeat, Switch
    <3> QED
      BY <3>1, <3>2
  <2> QED
    BY <2>1, <2>2, <2>3
<1>5. CASE Watch
  BY <1>5 DEF Watch, Alert
<1>6. CASE UNCHANGED monitorVars
  BY <1>6 DEF monitorVars
<1> QED
  BY <1>1, <1>2, <1>3, <1>4, <1>5, <1>6 DEF MonitorNext

\* What was reported, suppressed or recovered from before never keeps the switch quiet about
\* a new silence, and it tries once: an incident that was not written is lost
\* (monitoring/dead_man_switch.py, _check_heartbeat, _trigger_emergency_close).
THEOREM SilenceTriggersAgain == MonitorSpec => []TriggeredHasTried
<1>1. MonitorInit => SwitchInv
  BY MonitorAssumption DEF MonitorInit, SwitchInv, Tried, TriedTwice
<1>2. SwitchInv /\ [MonitorNext]_monitorVars => SwitchInv'
  BY SwitchNextInv
<1>3. SwitchInv => TriggeredHasTried
  BY MonitorAssumption DEF SwitchInv, Unnoticed, TriggeredHasTried
<1> QED
  BY <1>1, <1>2, <1>3, PTL DEF MonitorSpec
===============================================================================
