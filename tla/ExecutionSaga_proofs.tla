------------------------ MODULE ExecutionSaga_proofs ------------------------
(***************************************************************************)
(* Theorems about ExecutionSaga, for any number of instances, accounts,    *)
(* symbols, client order ids, faults and any TTL.                          *)
(***************************************************************************)
EXTENDS ExecutionSaga, TLAPS

----------------------------------------------------------------------------
\* The words the code writes are in the domains of the columns it writes.
LEMMA LabelDomain ==
  /\ {"down", "idle", "cycle", "manage", "reposition", "recover", "startQuery",
      "startCompare", "lease", "risk", "intent", "approve", "journal",
      "journalFailed", "send", "await", "markSent", "confirm", "markFilled",
      "rejectTrade", "rejectOrder", "release", "unwind"} \subseteq Label
  /\ {"none", "PENDING", "APPROVED", "SENT", "FILLED", "REJECTED", "FAILED"}
       \subseteq OrderStatus
  /\ {"none", "PENDING", "OPEN", "REJECTED", "FAILED", "CLOSED"}
       \subseteq TradeOutcome
BY DEF Label, StartUp, Critical, OrderStatus, NonTerminal, TradeOutcome

\* A process that goes away leaves well-typed process state behind.
LEMMA ExitType ==
  ASSUME NEW i \in Inst, ProcTypeOK, Exit(i) PROVE ProcTypeOK'
BY LabelDomain DEF ProcTypeOK, Exit, Goto

\* A step that moves only the main task keeps the process state well typed.
LEMMA GotoType ==
  ASSUME NEW i \in Inst, ProcTypeOK, OnlyPc, NEW l \in Label, Goto(i, l)
  PROVE  ProcTypeOK'
BY DEF ProcTypeOK, OnlyPc, Goto

\* The fault budget is never exceeded.
LEMMA FaultType ==
  ASSUME faults \in 0 .. MaxFaults, Healthy \/ Fault
  PROVE  faults' \in 0 .. MaxFaults
BY BoundAssumption DEF Healthy, Fault

\* One call of get_open_positions returns positions the broker has.
LEMMA ViewType ==
  ASSUME NEW i \in Inst, NEW view \in SUBSET positions, TypeOK,
         BrokerShows(i, view)
  PROVE  view \in SUBSET Ticket /\ faults' \in 0 .. MaxFaults
BY FaultType DEF BrokerShows, TypeOK, BrokerTypeOK

\* A write of the order row, or the exception it raises.
LEMMA WriteOrderType ==
  ASSUME NEW i \in Inst, TypeOK, NEW s \in OrderStatus, NEW l \in Label,
         WriteOrder(i, s, l)
  PROVE  TypeOK'
<1>1. ProcTypeOK'
  BY LabelDomain, GotoType DEF WriteOrder, TypeOK
<1>2. OrderTypeOK'
  BY DEF WriteOrder, TypeOK, OrderTypeOK, SetOrder
<1>3. faults' \in 0 .. MaxFaults
  BY FaultType DEF WriteOrder, TypeOK
<1> QED
  BY <1>1, <1>2, <1>3
  DEF WriteOrder, TypeOK, LockTypeOK, TradeTypeOK, BrokerTypeOK, lockVars,
      tradeVars, brokerVars

----------------------------------------------------------------------------
\* Inside the critical section a client order id is in flight.
CidHeld == \A i \in Inst : pc[i] \in Critical => cur[i] \in Cid

\* TypeOK is not inductive: what SendOrder hands to the broker is a ticket only
\* because the section was entered with a client order id.
TypeInv == TypeOK /\ CidHeld

\* A step of one task that stays out of, or comes from inside, the section.
LEMMA StayHeld ==
  ASSUME NEW i \in Inst, TypeInv, OnlyPc, NEW l \in Label, Goto(i, l),
         l \in Critical => pc[i] \in Critical
  PROVE  CidHeld'
BY DEF TypeInv, TypeOK, ProcTypeOK, CidHeld, OnlyPc, Goto

\* A process that is gone holds nothing.
LEMMA ExitHeld ==
  ASSUME NEW i \in Inst, TypeInv, Exit(i) PROVE CidHeld'
BY DEF TypeInv, TypeOK, ProcTypeOK, CidHeld, Exit, Goto, Critical

\* Start-up: what is read from the broker is well typed, and the section is not
\* entered.
LEMMA StartTyped ==
  ASSUME NEW i \in Inst, TypeInv, Start(i) \/ StartStep(i) PROVE TypeInv'
<1> USE LabelDomain
<1>s. OrderTypeOK' /\ TradeTypeOK'
  BY DEF Start, StartStep, Recover, StartQuery, StartCompare, ClaimLease,
         SameStore, orderVars, tradeVars, TypeInv, TypeOK, OrderTypeOK,
         TradeTypeOK
<1>l. LockTypeOK'
  BY DEF Start, StartStep, Recover, StartQuery, StartCompare, ClaimLease,
         lockVars, TypeInv, TypeOK, LockTypeOK
<1>b. BrokerTypeOK'
  BY DEF Start, StartStep, Recover, StartQuery, StartCompare, ClaimLease,
         brokerVars, TypeInv, TypeOK, BrokerTypeOK
<1>1. CASE Start(i)
  <2>1. ProcTypeOK'
    BY <1>1 DEF Start, Goto, TypeInv, TypeOK, ProcTypeOK
  <2>2. CidHeld'
    BY <1>1 DEF Start, Goto, TypeInv, TypeOK, ProcTypeOK, CidHeld, Critical
  <2> QED
    BY <1>1, <1>s, <1>l, <1>b, <2>1, <2>2 DEF Start, TypeInv, TypeOK
<1>2. CASE Recover(i)
  <2>1. ProcTypeOK'
    BY <1>2, ExitType, GotoType DEF Recover, TypeInv, TypeOK
  <2>2. CidHeld'
    BY <1>2, ExitHeld, StayHeld DEF Recover, Critical
  <2>3. faults' \in 0 .. MaxFaults
    BY <1>2, ViewType, FaultType DEF Recover, TypeInv, TypeOK
  <2> QED
    BY <1>2, <1>s, <1>l, <1>b, <2>1, <2>2, <2>3 DEF Recover, TypeInv, TypeOK
<1>3. CASE StartQuery(i)
  <2>1. PICK view \in SUBSET positions :
          BrokerShows(i, view) /\ snap' = [snap EXCEPT ![i] = view]
    BY <1>3 DEF StartQuery
  <2>2. view \in SUBSET Ticket /\ faults' \in 0 .. MaxFaults
    BY <2>1, ViewType DEF TypeInv
  <2>3. ProcTypeOK'
    BY <1>3, <2>1, <2>2 DEF StartQuery, Goto, TypeInv, TypeOK, ProcTypeOK
  <2>4. CidHeld'
    BY <1>3 DEF StartQuery, Goto, TypeInv, TypeOK, ProcTypeOK, CidHeld, Critical
  <2> QED
    BY <1>3, <1>s, <1>l, <1>b, <2>2, <2>3, <2>4 DEF StartQuery, TypeInv, TypeOK
<1>4. CASE StartCompare(i)
  <2>1. faults' \in 0 .. MaxFaults
    BY <1>4, FaultType DEF StartCompare, ReconcileCritical, TypeInv, TypeOK
  <2>2. CASE Exit(i)
    BY <1>4, <1>s, <1>l, <1>b, <2>1, <2>2, ExitType, ExitHeld
    DEF StartCompare, TypeInv, TypeOK
  <2>3. CASE ~Exit(i)
    <3>1. /\ Goto(i, "lease")
          /\ snap' = [snap EXCEPT ![i] = {}]
          /\ UNCHANGED <<cur, forced, halted, bg, book, dirty>>
      BY <1>4, <2>3 DEF StartCompare
    <3>2. ProcTypeOK'
      BY <3>1 DEF Goto, TypeInv, TypeOK, ProcTypeOK
    <3>3. CidHeld'
      BY <3>1 DEF Goto, TypeInv, TypeOK, ProcTypeOK, CidHeld, Critical
    <3> QED
      BY <1>4, <1>s, <1>l, <1>b, <2>1, <3>2, <3>3
      DEF StartCompare, TypeInv, TypeOK
  <2> QED
    BY <2>2, <2>3
<1>5. CASE ClaimLease(i)
  <2>1. faults' \in 0 .. MaxFaults
    BY <1>5, FaultType DEF ClaimLease, TypeInv, TypeOK
  <2>2. lease' \in [Account \X Symbol -> Inst \cup {NoInst}]
    BY <1>5 DEF ClaimLease, TypeInv, TypeOK
  <2>3. CASE Exit(i)
    BY <1>5, <1>s, <1>l, <1>b, <2>1, <2>2, <2>3, ExitType, ExitHeld
    DEF TypeInv, TypeOK
  <2>4. CASE ~Exit(i)
    <3>1. /\ Goto(i, "idle")
          /\ forced' = [forced EXCEPT ![i] = FALSE]
          /\ UNCHANGED <<cur, halted, bg, snap, book, dirty>>
      BY <1>5, <2>4 DEF ClaimLease
    <3>2. ProcTypeOK'
      BY <3>1 DEF Goto, TypeInv, TypeOK, ProcTypeOK
    <3>3. CidHeld'
      BY <3>1 DEF Goto, TypeInv, TypeOK, ProcTypeOK, CidHeld, Critical
    <3> QED
      BY <1>s, <1>l, <1>b, <2>1, <2>2, <3>2, <3>3 DEF TypeInv, TypeOK
  <2> QED
    BY <2>3, <2>4
<1> QED
  BY <1>1, <1>2, <1>3, <1>4, <1>5 DEF StartStep

\* Steps of the cycle that move the main task and write no table.
LEMMA QuietTyped ==
  ASSUME NEW i \in Inst, TypeInv, NEW l \in Label, Goto(i, l), OnlyPc,
         l \in Critical => pc[i] \in Critical,
         SameStore, UNCHANGED <<lease, lockVars, brokerVars>>,
         faults' \in 0 .. MaxFaults
  PROVE  TypeInv'
<1>1. ProcTypeOK' /\ CidHeld'
  BY GotoType, StayHeld DEF TypeInv, TypeOK
<1> QED
  BY <1>1 DEF TypeInv, TypeOK, LockTypeOK, OrderTypeOK, TradeTypeOK,
              BrokerTypeOK, SameStore, lockVars, orderVars, tradeVars, brokerVars

\* Entering the section brings a client order id along.
LEMMA AcquireTyped ==
  ASSUME NEW i \in Inst, NEW c \in Cid, TypeInv, AcquireLock(i, c)
  PROVE  TypeInv'
<1> USE LabelDomain, BoundAssumption
<1>1. ProcTypeOK'
  BY DEF AcquireLock, Goto, TypeInv, TypeOK, ProcTypeOK
<1>2. LockTypeOK'
  <2>1. 0 \in 0 .. TTL + 1
    OBVIOUS
  <2>2. lockOwner' \in [Symbol -> Inst \cup {NoInst}]
    BY DEF AcquireLock, TypeInv, TypeOK, LockTypeOK
  <2> QED
    BY <2>1, <2>2 DEF AcquireLock, TypeInv, TypeOK, LockTypeOK
<1>3. CidHeld'
  BY DEF AcquireLock, Goto, TypeInv, TypeOK, ProcTypeOK, CidHeld
<1> QED
  BY <1>1, <1>2, <1>3
  DEF AcquireLock, TypeInv, TypeOK, OrderTypeOK, TradeTypeOK, BrokerTypeOK,
      SameStore, orderVars, tradeVars, brokerVars

\* A write of the order row keeps the id in flight.
LEMMA WriteOrderTyped ==
  ASSUME NEW i \in Inst, TypeInv, NEW s \in OrderStatus, NEW l \in Label,
         WriteOrder(i, s, l), pc[i] \in Critical
  PROVE  TypeInv'
<1>1. PICK k \in Label : Goto(i, k) /\ OnlyPc
  BY LabelDomain DEF WriteOrder
<1>2. CidHeld'
  BY <1>1, StayHeld
<1>3. TypeOK'
  BY WriteOrderType DEF TypeInv
<1> QED
  BY <1>2, <1>3 DEF TypeInv

\* The pre-flight of an order.
LEMMA PreflightTyped ==
  ASSUME NEW i \in Inst, TypeInv, Preflight(i) PROVE TypeInv'
<1> USE LabelDomain
<1>1. CASE \E c \in Cid : AcquireLock(i, c)
  BY <1>1, AcquireTyped
<1>2. CASE LockBlocked(i)
  BY <1>2, QuietTyped, FaultType DEF LockBlocked, TypeInv, TypeOK, Critical
<1>3. CASE CrossRisk(i)
  <2>1. faults' \in 0 .. MaxFaults /\ pc[i] \in Critical
    BY <1>3, FaultType DEF CrossRisk, From, TypeInv, TypeOK, Critical
  <2>2. PICK l \in {"intent", "release"} : Goto(i, l)
    BY <1>3 DEF CrossRisk
  <2>3. /\ OnlyPc
        /\ SameStore
        /\ UNCHANGED <<lease, lockVars, brokerVars>>
    BY <1>3 DEF CrossRisk
  <2> QED
    BY <2>1, <2>2, <2>3, QuietTyped
<1>4. CASE PersistIntent(i)
  <2>1. faults' \in 0 .. MaxFaults /\ pc[i] \in Critical
    BY <1>4, FaultType DEF PersistIntent, From, TypeInv, TypeOK, Critical
  <2>2. PICK l \in {"approve", "release"} : Goto(i, l)
    BY <1>4 DEF PersistIntent
  <2>3. ProcTypeOK' /\ CidHeld'
    BY <1>4, <2>1, <2>2, GotoType, StayHeld DEF PersistIntent, TypeInv, TypeOK
  <2>4. OrderTypeOK'
    BY <1>4 DEF PersistIntent, SetOrder, TypeInv, TypeOK, OrderTypeOK
  <2> QED
    BY <1>4, <2>1, <2>3, <2>4
    DEF PersistIntent, TypeInv, TypeOK, LockTypeOK, TradeTypeOK, BrokerTypeOK,
        lockVars, tradeVars, brokerVars
<1> QED
  BY <1>1, <1>2, <1>3, <1>4 DEF Preflight

\* From the approved intent to the broker's answer.
LEMMA SubmitTyped ==
  ASSUME NEW i \in Inst, TypeInv, Submit(i) PROVE TypeInv'
<1> USE LabelDomain
<1>1. CASE Approve(i) \/ JournalFailed(i)
  <2>1. pc[i] \in Critical
    BY <1>1 DEF Approve, JournalFailed, From, Critical
  <2>2. CASE Approve(i)
    BY <2>1, <2>2, WriteOrderTyped DEF Approve
  <2>3. CASE JournalFailed(i)
    BY <2>1, <2>3, WriteOrderTyped DEF JournalFailed
  <2> QED
    BY <1>1, <2>2, <2>3
<1>2. CASE CreatePendingTrade(i)
  <2>1. faults' \in 0 .. MaxFaults /\ pc[i] \in Critical
    BY <1>2, FaultType DEF CreatePendingTrade, From, TypeInv, TypeOK, Critical
  <2>2. PICK l \in {"send", "journalFailed"} : Goto(i, l)
    BY <1>2 DEF CreatePendingTrade
  <2>3. ProcTypeOK' /\ CidHeld'
    BY <1>2, <2>1, <2>2, GotoType, StayHeld
    DEF CreatePendingTrade, TypeInv, TypeOK
  <2>4. TradeTypeOK'
    BY <1>2 DEF CreatePendingTrade, SetTrade, TypeInv, TypeOK, TradeTypeOK
  <2> QED
    BY <1>2, <2>1, <2>3, <2>4
    DEF CreatePendingTrade, TypeInv, TypeOK, LockTypeOK, OrderTypeOK,
        BrokerTypeOK, lockVars, orderVars, brokerVars
<1>3. CASE SendOrder(i)
  <2>1. pc[i] \in Critical /\ cur[i] \in Cid
    BY <1>3 DEF SendOrder, From, TypeInv, CidHeld, Critical
  <2>2. PICK l \in {"rejectTrade", "await"} : Goto(i, l)
    BY <1>3 DEF SendOrder
  <2>3. ProcTypeOK' /\ CidHeld'
    BY <1>3, <2>1, <2>2, GotoType, StayHeld DEF SendOrder, TypeInv, TypeOK
  <2>4. BrokerTypeOK'
    BY <1>3, <2>1 DEF SendOrder, TypeInv, TypeOK, BrokerTypeOK, Ticket
  <2> QED
    BY <1>3, <2>3, <2>4
    DEF SendOrder, TypeInv, TypeOK, LockTypeOK, OrderTypeOK, TradeTypeOK,
        SameStore, lockVars, orderVars, tradeVars
<1>4. CASE AwaitFilled(i) \/ AwaitRejected(i) \/ AwaitLost(i)
  <2>1. faults' \in 0 .. MaxFaults /\ pc[i] \in Critical
    BY <1>4, FaultType
    DEF AwaitFilled, AwaitRejected, AwaitLost, From, TypeInv, TypeOK, Critical
  <2>2. PICK l \in {"markSent", "rejectTrade"} : Reply(i, l)
    BY <1>4 DEF AwaitFilled, AwaitRejected, AwaitLost
  <2> QED
    BY <2>1, <2>2, QuietTyped DEF Reply
<1> QED
  BY <1>1, <1>2, <1>3, <1>4 DEF Submit

\* The confirmation writes and the release.
LEMMA FinalizeTyped ==
  ASSUME NEW i \in Inst, TypeInv, Finalize(i) PROVE TypeInv'
<1> USE LabelDomain
<1>1. CASE MarkFilled(i) \/ RejectOrder(i)
  <2>1. pc[i] \in Critical
    BY <1>1 DEF MarkFilled, RejectOrder, From, Critical
  <2>2. CASE MarkFilled(i)
    BY <2>1, <2>2, WriteOrderTyped DEF MarkFilled
  <2>3. CASE RejectOrder(i)
    BY <2>1, <2>3, WriteOrderTyped DEF RejectOrder
  <2> QED
    BY <1>1, <2>2, <2>3
<1>2. CASE MarkSent(i)
  <2>1. faults' \in 0 .. MaxFaults /\ pc[i] \in Critical /\ cur[i] \in Cid
    BY <1>2, FaultType
    DEF MarkSent, From, TypeInv, TypeOK, CidHeld, Critical
  <2>2. PICK l \in {"confirm", "unwind"} : Goto(i, l)
    BY <1>2 DEF MarkSent
  <2>3. ProcTypeOK' /\ CidHeld'
    BY <1>2, <2>1, <2>2, GotoType, StayHeld DEF MarkSent, TypeInv, TypeOK
  <2>4. OrderTypeOK'
    <3>1. <<i, cur[i]>> \in Ticket
      BY <2>1 DEF Ticket
    <3>2. orderTicket' \in [Cid -> Ticket \cup {NoTicket}]
      BY <1>2, <3>1 DEF MarkSent, TypeInv, TypeOK, OrderTypeOK
    <3>3. orderStatus' \in [Cid -> OrderStatus]
      BY <1>2 DEF MarkSent, SetOrder, TypeInv, TypeOK, OrderTypeOK
    <3> QED
      BY <1>2, <3>2, <3>3 DEF MarkSent, TypeInv, TypeOK, OrderTypeOK
  <2> QED
    BY <1>2, <2>1, <2>3, <2>4
    DEF MarkSent, TypeInv, TypeOK, LockTypeOK, TradeTypeOK, BrokerTypeOK,
        lockVars, tradeVars, brokerVars
<1>3. CASE ConfirmTrade(i)
  <2>1. faults' \in 0 .. MaxFaults /\ pc[i] \in Critical /\ cur[i] \in Cid
    BY <1>3, FaultType
    DEF ConfirmTrade, From, TypeInv, TypeOK, CidHeld, Critical
  <2>2. PICK l \in {"markFilled", "unwind"} : Goto(i, l)
    BY <1>3 DEF ConfirmTrade
  <2>3. ProcTypeOK' /\ CidHeld'
    BY <1>3, <2>1, <2>2, GotoType, StayHeld DEF ConfirmTrade, TypeInv, TypeOK
  <2>4. TradeTypeOK'
    <3>1. <<i, cur[i]>> \in Ticket
      BY <2>1 DEF Ticket
    <3>2. tradeTicket' \in [Cid -> Ticket \cup {NoTicket}]
      BY <1>3, <3>1 DEF ConfirmTrade, TypeInv, TypeOK, TradeTypeOK
    <3>3. tradeOutcome' \in [Cid -> TradeOutcome]
      BY <1>3 DEF ConfirmTrade, SetTrade, TypeInv, TypeOK, TradeTypeOK
    <3> QED
      BY <1>3, <3>2, <3>3 DEF ConfirmTrade, TypeInv, TypeOK, TradeTypeOK
  <2> QED
    BY <1>3, <2>1, <2>3, <2>4
    DEF ConfirmTrade, TypeInv, TypeOK, LockTypeOK, OrderTypeOK, BrokerTypeOK,
        lockVars, orderVars, brokerVars
<1>4. CASE RejectTrade(i)
  <2>1. faults' \in 0 .. MaxFaults /\ pc[i] \in Critical
    BY <1>4, FaultType DEF RejectTrade, From, TypeInv, TypeOK, Critical
  <2>2. ProcTypeOK' /\ CidHeld'
    BY <1>4, <2>1, GotoType, StayHeld DEF RejectTrade, TypeInv, TypeOK
  <2>3. TradeTypeOK'
    BY <1>4 DEF RejectTrade, SetTrade, TypeInv, TypeOK, TradeTypeOK
  <2> QED
    BY <1>4, <2>1, <2>2, <2>3
    DEF RejectTrade, TypeInv, TypeOK, LockTypeOK, OrderTypeOK, BrokerTypeOK,
        lockVars, orderVars, brokerVars
<1>5. CASE Release(i)
  <2>1. faults' \in 0 .. MaxFaults
    BY <1>5, FaultType DEF Release, TypeInv, TypeOK
  <2>2. PICK l \in {"manage", "idle"} : Goto(i, l)
    BY <1>5 DEF Release
  <2>3. ProcTypeOK'
    BY <1>5, <2>2 DEF Release, Goto, TypeInv, TypeOK, ProcTypeOK
  <2>4. CidHeld'
    BY <1>5, <2>2
    DEF Release, Goto, TypeInv, TypeOK, ProcTypeOK, CidHeld, Critical
  <2>5. LockTypeOK'
    BY <1>5, BoundAssumption DEF Release, TypeInv, TypeOK, LockTypeOK
  <2> QED
    BY <1>5, <2>1, <2>3, <2>4, <2>5
    DEF Release, TypeInv, TypeOK, OrderTypeOK, TradeTypeOK, BrokerTypeOK,
        SameStore, orderVars, tradeVars, brokerVars
<1> QED
  BY <1>1, <1>2, <1>3, <1>4, <1>5 DEF Finalize

\* The repositioning session, which touches the rows of its own snapshot.
LEMMA ManageTyped ==
  ASSUME NEW i \in Inst, TypeInv, Manage(i) PROVE TypeInv'
<1> USE LabelDomain
<1>1. CASE ReadOpenTrades(i)
  <2>1. ProcTypeOK'
    BY <1>1 DEF ReadOpenTrades, OpenTrades, Goto, TypeInv, TypeOK, ProcTypeOK
  <2>2. CidHeld'
    BY <1>1 DEF ReadOpenTrades, Goto, TypeInv, TypeOK, ProcTypeOK, CidHeld, Critical
  <2> QED
    BY <1>1, <2>1, <2>2
    DEF ReadOpenTrades, TypeInv, TypeOK, LockTypeOK, OrderTypeOK, TradeTypeOK,
        BrokerTypeOK, SameStore, lockVars, orderVars, tradeVars, brokerVars
<1>2. CASE \E c \in Cid : RepositionClose(i, c)
  <2>1. PICK c \in Cid : RepositionClose(i, c)
    BY <1>2
  <2>2. ProcTypeOK'
    BY <2>1 DEF RepositionClose, TypeInv, TypeOK, ProcTypeOK
  <2>3. CidHeld'
    BY <2>1 DEF RepositionClose, TypeInv, CidHeld
  <2>4. BrokerTypeOK'
    BY <2>1 DEF RepositionClose, TypeInv, TypeOK, BrokerTypeOK
  <2> QED
    BY <2>1, <2>2, <2>3, <2>4
    DEF RepositionClose, TypeInv, TypeOK, LockTypeOK, OrderTypeOK, TradeTypeOK,
        SameStore, lockVars, orderVars, tradeVars
<1>3. CASE EndCycle(i)
  <2>1. faults' \in 0 .. MaxFaults
    BY <1>3, FaultType DEF EndCycle, TypeInv, TypeOK
  <2>2. ProcTypeOK'
    BY <1>3 DEF EndCycle, Goto, TypeInv, TypeOK, ProcTypeOK
  <2>3. CidHeld'
    BY <1>3 DEF EndCycle, Goto, TypeInv, TypeOK, ProcTypeOK, CidHeld, Critical
  <2>4. TradeTypeOK'
    BY <1>3 DEF EndCycle, TypeInv, TypeOK, TradeTypeOK
  <2> QED
    BY <1>3, <2>1, <2>2, <2>3, <2>4
    DEF EndCycle, TypeInv, TypeOK, LockTypeOK, OrderTypeOK, BrokerTypeOK,
        lockVars, orderVars, brokerVars
<1> QED
  BY <1>1, <1>2, <1>3 DEF Manage

\* The background task.
LEMMA BackgroundTyped ==
  ASSUME NEW i \in Inst, TypeInv, BgQuery(i) \/ BgCompare(i) PROVE TypeInv'
<1>1. CASE BgQuery(i)
  <2>1. PICK view \in SUBSET positions :
          BrokerShows(i, view) /\ snap' = [snap EXCEPT ![i] = view]
    BY <1>1 DEF BgQuery
  <2>2. view \in SUBSET Ticket /\ faults' \in 0 .. MaxFaults
    BY <2>1, ViewType DEF TypeInv
  <2>3. ProcTypeOK' /\ CidHeld'
    BY <1>1, <2>1, <2>2 DEF BgQuery, TypeInv, TypeOK, ProcTypeOK, CidHeld
  <2> QED
    BY <1>1, <2>2, <2>3
    DEF BgQuery, TypeInv, TypeOK, LockTypeOK, OrderTypeOK, TradeTypeOK,
        BrokerTypeOK, SameStore, lockVars, orderVars, tradeVars, brokerVars
<1>2. CASE BgCompare(i)
  <2>1. PICK critical \in BOOLEAN :
          /\ ReconcileCritical(i, snap[i], critical)
          /\ halted' = [halted EXCEPT ![i] = @ \/ critical]
    BY <1>2 DEF BgCompare
  <2>2. faults' \in 0 .. MaxFaults
    BY <2>1, FaultType DEF ReconcileCritical, TypeInv, TypeOK
  <2>3. halted' \in [Inst -> BOOLEAN]
    BY <2>1, Zenon DEF TypeInv, TypeOK, ProcTypeOK
  <2>4. ProcTypeOK' /\ CidHeld'
    BY <1>2, <2>3 DEF BgCompare, TypeInv, TypeOK, ProcTypeOK, CidHeld
  <2> QED
    BY <1>2, <2>2, <2>4
    DEF BgCompare, TypeInv, TypeOK, LockTypeOK, OrderTypeOK, TradeTypeOK,
        BrokerTypeOK, SameStore, lockVars, orderVars, tradeVars, brokerVars
<1> QED
  BY <1>1, <1>2

\* Processes that stop, and the world around them.
LEMMA OutsideTyped ==
  ASSUME TypeInv,
         \/ \E i \in Inst : Crash(i) \/ Stop(i)
         \/ \E s \in Account \X Symbol : OperatorFreesLease(s)
         \/ \E c \in Cid : ManualClose(c) \/ PendingAges(c)
         \/ \E t \in Ticket : BrokerFill(t) \/ BrokerReject(t) \/ BrokerClose(t)
         \/ Tick
  PROVE  TypeInv'
<1> USE LabelDomain, BoundAssumption
<1>1. ASSUME NEW i \in Inst, Crash(i) \/ Stop(i) PROVE TypeInv'
  <2>1. faults' \in 0 .. MaxFaults
    BY <1>1, FaultType DEF Crash, Stop, TypeInv, TypeOK
  <2>2. ProcTypeOK' /\ CidHeld'
    BY <1>1, ExitType, ExitHeld DEF Crash, Stop, TypeInv, TypeOK
  <2>3. LockTypeOK'
    BY <1>1 DEF Crash, Stop, lockVars, TypeInv, TypeOK, LockTypeOK
  <2>4. lease' \in [Account \X Symbol -> Inst \cup {NoInst}]
    BY <1>1 DEF Crash, Stop, TypeInv, TypeOK
  <2> QED
    BY <1>1, <2>1, <2>2, <2>3, <2>4
    DEF Crash, Stop, TypeInv, TypeOK, OrderTypeOK, TradeTypeOK, BrokerTypeOK,
        SameStore, orderVars, tradeVars, brokerVars
<1>2. ASSUME UNCHANGED procVars PROVE ProcTypeOK' /\ CidHeld'
  BY <1>2 DEF procVars, TypeInv, TypeOK, ProcTypeOK, CidHeld
<1>3. ASSUME NEW s \in Account \X Symbol, OperatorFreesLease(s) PROVE TypeInv'
  BY <1>2, <1>3
  DEF OperatorFreesLease, TypeInv, TypeOK, LockTypeOK, OrderTypeOK, TradeTypeOK,
      BrokerTypeOK, SameStore, lockVars, orderVars, tradeVars, brokerVars
<1>4. ASSUME NEW c \in Cid, ManualClose(c) \/ PendingAges(c) PROVE TypeInv'
  <2>1. TradeTypeOK'
    BY <1>4
    DEF ManualClose, PendingAges, SetTrade, TypeInv, TypeOK, TradeTypeOK
  <2> QED
    BY <1>2, <1>4, <2>1
    DEF ManualClose, PendingAges, TypeInv, TypeOK, LockTypeOK, OrderTypeOK,
        BrokerTypeOK, lockVars, orderVars, brokerVars
<1>5. ASSUME NEW t \in Ticket, BrokerFill(t) \/ BrokerReject(t) \/ BrokerClose(t)
      PROVE  TypeInv'
  <2>1. BrokerTypeOK'
    BY <1>5 DEF BrokerFill, BrokerReject, BrokerClose, TypeInv, TypeOK, BrokerTypeOK
  <2> QED
    BY <1>2, <1>5, <2>1
    DEF BrokerFill, BrokerReject, BrokerClose, TypeInv, TypeOK, LockTypeOK,
        OrderTypeOK, TradeTypeOK, SameStore, lockVars, orderVars, tradeVars
<1>6. ASSUME Tick PROVE TypeInv'
  <2>1. \A age \in 0 .. TTL + 1 : Older(age) \in 0 .. TTL + 1
    BY DEF Older
  <2>2. LockTypeOK'
    BY <1>6, <2>1 DEF Tick, TypeInv, TypeOK, LockTypeOK
  <2> QED
    BY <1>2, <1>6, <2>2
    DEF Tick, TypeInv, TypeOK, OrderTypeOK, TradeTypeOK, BrokerTypeOK,
        SameStore, orderVars, tradeVars, brokerVars
<1> QED
  BY <1>1, <1>3, <1>4, <1>5, <1>6

\* TypeInv is inductive.
LEMMA TypeInvInit == Init => TypeInv
BY InstanceAssumption, BoundAssumption, LabelDomain
DEF Init, TypeInv, TypeOK, CidHeld, ProcTypeOK, LockTypeOK, OrderTypeOK,
    TradeTypeOK, BrokerTypeOK, Critical

LEMMA TypeInvStep == TypeInv /\ [Next]_vars => TypeInv'
<1> SUFFICES ASSUME TypeInv, [Next]_vars PROVE TypeInv'
  OBVIOUS
<1>1. ASSUME NEW i \in Inst, Gate(i) \/ NoSignal(i) PROVE TypeInv'
  <2>1. PICK l \in {"cycle", "manage", "idle"} : Goto(i, l)
    BY <1>1 DEF Gate, NoSignal
  <2>2. l \in Label /\ l \notin Critical /\ faults' \in 0 .. MaxFaults
    BY <1>1, LabelDomain DEF Gate, NoSignal, Critical, TypeInv, TypeOK
  <2> QED
    BY <1>1, <2>1, <2>2, QuietTyped DEF Gate, NoSignal
<1>2. CASE UNCHANGED vars
  BY <1>2 DEF vars, procVars, lockVars, orderVars, tradeVars, brokerVars,
              TypeInv, TypeOK, CidHeld, ProcTypeOK, LockTypeOK, OrderTypeOK,
              TradeTypeOK, BrokerTypeOK
<1>3. CASE Next
  BY <1>3, <1>1, StartTyped, PreflightTyped, SubmitTyped, FinalizeTyped,
     ManageTyped, BackgroundTyped, OutsideTyped DEF Next
<1> QED
  BY <1>2, <1>3

LEMMA TypeInvariant == Spec => []TypeInv
BY TypeInvInit, TypeInvStep, PTL DEF Spec

\* Every variable keeps its type: the code's labels, statuses and ages are the
\* only ones there are, whatever fails and however the instances interleave.
THEOREM TypeCorrect == Spec => []TypeOK
BY TypeInvariant, PTL DEF TypeInv

----------------------------------------------------------------------------
\* The inductive invariant behind the write-ahead rows.

\* From the committed intent to the release.
InFlight ==
  {"approve", "journal", "journalFailed", "send", "await", "markSent",
   "confirm", "markFilled", "rejectTrade", "rejectOrder"}
BeforeSend == {"approve", "journal", "journalFailed", "send"}
AfterJournal ==
  {"send", "await", "markSent", "confirm", "markFilled", "rejectTrade",
   "rejectOrder"}

\* An id in flight belongs to the one instance that wrote its intent.
Owns ==
  \A i \in Inst : pc[i] \in InFlight =>
    orderStatus[cur[i]] # "none" /\ orderInst[cur[i]] = i
Unsent == \A i \in Inst : pc[i] \in BeforeSend => sends[cur[i]] = 0
Journalled ==
  \A i \in Inst : pc[i] \in AfterJournal => tradeOutcome[cur[i]] # "none"
\* An id without an intent has left no trace.
NoTrace ==
  \A c \in Cid : orderStatus[c] = "none" => sends[c] = 0 /\ tradeOutcome[c] = "none"
\* What is at the broker was sent.
WasSent == \A t \in requests \cup fills : sends[t[2]] = 1

SagaInv ==
  /\ Owns
  /\ Unsent
  /\ Journalled
  /\ NoTrace
  /\ WasSent
  /\ AtMostOneSubmission
  /\ JournaledBeforeBroker

\* What the trade row of an id in flight says at each stage of the call.
RowStage ==
  \A i \in Inst :
    /\ pc[i] \in BeforeSend \ {"send"} => tradeOutcome[cur[i]] = "none"
    /\ pc[i] \in {"send", "await", "markSent", "confirm", "rejectTrade"} =>
         tradeOutcome[cur[i]] = "PENDING"
    /\ pc[i] = "rejectOrder" => tradeOutcome[cur[i]] \in {"PENDING", "REJECTED"}
    /\ pc[i] = "markFilled" => tradeOutcome[cur[i]] \in {"OPEN", "CLOSED"}
\* What the broker has done by each stage.
FillStage ==
  \A i \in Inst :
    /\ pc[i] \in {"markSent", "confirm", "markFilled"} => <<i, cur[i]>> \in fills
    /\ pc[i] \in {"confirm", "markFilled"} => orderTicket[cur[i]] = <<i, cur[i]>>
\* Repositioning only ever holds rows that were promoted.
BookPromoted ==
  \A i \in Inst : \A c \in book[i] \cup dirty[i] :
    tradeOutcome[c] \in {"OPEN", "CLOSED"}

RealInv ==
  /\ RowStage
  /\ FillStage
  /\ BookPromoted
  /\ ConfirmedIsReal

\* The lock row of an instance that entered the section no more than TTL ago is
\* its own and no older than its stay.
LockInv ==
  \A i \in Inst : pc[i] \in Critical /\ holdAge[i] <= TTL =>
    lockOwner[SymOf[i]] = i /\ lockAge[SymOf[i]] <= holdAge[i]

----------------------------------------------------------------------------
\* Steps that cannot disturb SagaInv.

\* No task moves forward into a stage of the call it was not in.
NoAdvance ==
  \A j \in Inst : pc'[j] \in InFlight =>
    /\ cur'[j] = cur[j]
    /\ pc[j] \in InFlight
    /\ pc'[j] \in BeforeSend => pc[j] \in BeforeSend
    /\ pc'[j] \in AfterJournal => pc[j] \in AfterJournal

\* No row appears, none changes hands, and nothing new reaches the broker.
NoNewRow ==
  /\ \A c \in Cid : orderStatus'[c] = "none" <=> orderStatus[c] = "none"
  /\ \A c \in Cid : tradeOutcome'[c] = "none" <=> tradeOutcome[c] = "none"
  /\ orderInst' = orderInst

NoNewRequest ==
  /\ sends' = sends
  /\ requests' \cup fills' \subseteq requests \cup fills

LEMMA InFlightCritical == InFlight \subseteq Critical /\ InFlight \subseteq Label
BY DEF InFlight, Critical, Label

LEMMA CurHeld ==
  ASSUME TypeInv, NEW i \in Inst, pc[i] \in InFlight PROVE cur[i] \in Cid
BY InFlightCritical DEF TypeInv, CidHeld

LEMMA TicketId ==
  ASSUME TypeInv, NEW t \in requests \cup fills
  PROVE  t \in Inst \X Cid /\ t[1] \in Inst /\ t[2] \in Cid /\ t = <<t[1], t[2]>>
BY DEF TypeInv, TypeOK, BrokerTypeOK, Ticket

LEMMA SagaFrame ==
  ASSUME TypeInv, SagaInv, NoAdvance, NoNewRow, NoNewRequest
  PROVE  SagaInv'
<1>1. Owns'
  BY CurHeld DEF SagaInv, Owns, NoAdvance, NoNewRow
<1>2. Unsent'
  <2> SUFFICES ASSUME NEW i \in Inst, pc'[i] \in BeforeSend
               PROVE  sends'[cur'[i]] = 0
    BY DEF Unsent
  <2>1. pc'[i] \in InFlight
    BY DEF BeforeSend, InFlight
  <2> QED
    BY <2>1 DEF SagaInv, Unsent, NoAdvance, NoNewRequest
<1>3. Journalled'
  <2> SUFFICES ASSUME NEW i \in Inst, pc'[i] \in AfterJournal
               PROVE  tradeOutcome'[cur'[i]] # "none"
    BY DEF Journalled
  <2>1. pc'[i] \in InFlight
    BY DEF AfterJournal, InFlight
  <2> QED
    BY <2>1, CurHeld DEF SagaInv, Journalled, NoAdvance, NoNewRow
<1>4. NoTrace'
  BY DEF SagaInv, NoTrace, NoNewRow, NoNewRequest
<1>5. WasSent'
  BY DEF SagaInv, WasSent, NoNewRequest
<1>6. AtMostOneSubmission'
  BY DEF SagaInv, AtMostOneSubmission, NoNewRequest
<1>7. JournaledBeforeBroker'
  BY TicketId DEF SagaInv, JournaledBeforeBroker, NoNewRow, NoNewRequest
<1> QED
  BY <1>1, <1>2, <1>3, <1>4, <1>5, <1>6, <1>7 DEF SagaInv

LEMMA GotoNoAdvance ==
  ASSUME NEW i \in Inst, TypeInv, NEW l \in Label, Goto(i, l), UNCHANGED cur,
         l \in InFlight => pc[i] \in InFlight,
         l \in BeforeSend => pc[i] \in BeforeSend,
         l \in AfterJournal => pc[i] \in AfterJournal
  PROVE  NoAdvance
BY DEF NoAdvance, Goto, TypeInv, TypeOK, ProcTypeOK

\* A task that leaves the call, whatever else it forgets.
LEMMA LeaveNoAdvance ==
  ASSUME NEW i \in Inst, TypeInv, NEW l \in Label \ InFlight, Goto(i, l),
         \A j \in Inst \ {i} : cur'[j] = cur[j]
  PROVE  NoAdvance
BY DEF NoAdvance, Goto, TypeInv, TypeOK, ProcTypeOK

LEMMA ExitNoAdvance ==
  ASSUME NEW i \in Inst, TypeInv, Exit(i) PROVE NoAdvance
<1>1. "down" \in Label \ InFlight
  BY LabelDomain DEF InFlight
<1>2. \A j \in Inst \ {i} : cur'[j] = cur[j]
  BY DEF Exit, TypeInv, TypeOK, ProcTypeOK
<1> QED
  BY <1>1, <1>2, LeaveNoAdvance DEF Exit

LEMMA SameNoAdvance ==
  ASSUME UNCHANGED <<pc, cur>> PROVE NoAdvance
BY DEF NoAdvance

LEMMA SameStoreNoNewRow ==
  ASSUME SameStore PROVE NoNewRow
BY DEF SameStore, NoNewRow, orderVars, tradeVars

LEMMA SameBrokerNoNewRequest ==
  ASSUME UNCHANGED brokerVars PROVE NoNewRequest
BY DEF NoNewRequest, brokerVars

\* Start-up writes no row, and enters no call.
LEMMA StartSaga ==
  ASSUME NEW i \in Inst, TypeInv, SagaInv, Start(i) \/ StartStep(i)
  PROVE  SagaInv'
<1>1. NoNewRow /\ NoNewRequest
  BY SameStoreNoNewRow, SameBrokerNoNewRequest
  DEF Start, StartStep, Recover, StartQuery, StartCompare, ClaimLease
<1>2. \/ Exit(i)
      \/ /\ UNCHANGED cur
         /\ \E l \in {"recover", "startQuery", "startCompare", "lease", "idle"} :
              Goto(i, l)
  BY DEF Start, StartStep, Recover, StartQuery, StartCompare, ClaimLease, OnlyPc
<1>3. \A l \in {"recover", "startQuery", "startCompare", "lease", "idle"} :
        l \in Label \ InFlight
  BY LabelDomain DEF InFlight
<1>4. NoAdvance
  BY <1>2, <1>3, ExitNoAdvance, LeaveNoAdvance
<1> QED
  BY <1>1, <1>4, SagaFrame

\* Pre-flight writes one row: an intent under an id that had none.
LEMMA PreflightSaga ==
  ASSUME NEW i \in Inst, TypeInv, SagaInv, Preflight(i) PROVE SagaInv'
<1>0. {"risk", "manage", "intent", "release"} \subseteq Label \ InFlight
  BY LabelDomain DEF InFlight
<1>1. ASSUME NEW c \in Cid, AcquireLock(i, c) PROVE SagaInv'
  <2>1. \A j \in Inst \ {i} : cur'[j] = cur[j]
    BY <1>1 DEF AcquireLock, TypeInv, TypeOK, ProcTypeOK
  <2>2. Goto(i, "risk")
    BY <1>1 DEF AcquireLock
  <2>3. NoAdvance
    BY <1>0, <2>1, <2>2, LeaveNoAdvance
  <2> QED
    BY <1>1, <2>3, SagaFrame, SameStoreNoNewRow, SameBrokerNoNewRequest
    DEF AcquireLock
<1>2. CASE LockBlocked(i) \/ CrossRisk(i)
  <2>1. PICK l \in {"manage", "intent", "release"} : Goto(i, l) /\ UNCHANGED cur
    BY <1>2 DEF LockBlocked, CrossRisk, OnlyPc
  <2>2. NoAdvance
    BY <1>0, <2>1, LeaveNoAdvance
  <2> QED
    BY <1>2, <2>2, SagaFrame, SameStoreNoNewRow, SameBrokerNoNewRequest
    DEF LockBlocked, CrossRisk
<1>3. CASE PersistIntent(i)
  <2>0. cur[i] \in Cid /\ cur' = cur
    BY <1>3 DEF PersistIntent, From, OnlyPc, Critical, TypeInv, CidHeld
  <2>1. NoNewRequest
    BY <1>3, SameBrokerNoNewRequest DEF PersistIntent
  <2>2. CASE Goto(i, "release")
    <3>1. NoAdvance
      BY <1>0, <2>0, <2>2, LeaveNoAdvance
    <3>2. "approve" # "release" /\ UNCHANGED <<orderStatus, orderInst>>
      BY <1>3, <2>2 DEF PersistIntent, Goto, TypeInv, TypeOK, ProcTypeOK
    <3>3. NoNewRow
      BY <1>3, <3>2 DEF PersistIntent, NoNewRow, tradeVars
    <3> QED
      BY <2>1, <3>1, <3>3, SagaFrame
  <2>3. CASE ~Goto(i, "release")
    <3>1. /\ Goto(i, "approve")
          /\ orderStatus[cur[i]] = "none"
          /\ orderStatus' = [orderStatus EXCEPT ![cur[i]] = "PENDING"]
          /\ orderInst' = [orderInst EXCEPT ![cur[i]] = i]
          /\ tradeOutcome' = tradeOutcome
          /\ sends' = sends /\ requests' = requests /\ fills' = fills
      BY <1>3, <2>3 DEF PersistIntent, SetOrder, tradeVars, brokerVars
    <3>2. sends[cur[i]] = 0 /\ tradeOutcome[cur[i]] = "none"
      BY <2>0, <3>1 DEF SagaInv, NoTrace
    <3>3. \A j \in Inst : pc[j] \in InFlight => cur[j] # cur[i] /\ cur[j] \in Cid
      BY <3>1, CurHeld DEF SagaInv, Owns
    <3>4. /\ pc'[i] = "approve"
          /\ \A j \in Inst \ {i} : pc'[j] = pc[j]
      BY <3>1 DEF Goto, TypeInv, TypeOK, ProcTypeOK
    <3>5. /\ orderStatus'[cur[i]] # "none" /\ orderInst'[cur[i]] = i
          /\ \A c \in Cid \ {cur[i]} :
               orderStatus'[c] = orderStatus[c] /\ orderInst'[c] = orderInst[c]
      BY <2>0, <3>1 DEF TypeInv, TypeOK, OrderTypeOK
    <3>6. Owns'
      BY <2>0, <3>3, <3>4, <3>5 DEF SagaInv, Owns
    <3>7. Unsent'
      BY <2>0, <3>1, <3>2, <3>4 DEF SagaInv, Unsent
    <3>8. Journalled'
      BY <2>0, <3>1, <3>4 DEF SagaInv, Journalled, AfterJournal
    <3>9. NoTrace'
      BY <3>1, <3>5 DEF SagaInv, NoTrace
    <3>10. WasSent' /\ AtMostOneSubmission'
      BY <3>1 DEF SagaInv, WasSent, AtMostOneSubmission
    <3>11. JournaledBeforeBroker'
      <4> SUFFICES ASSUME NEW t \in requests \cup fills
                   PROVE  /\ orderStatus'[t[2]] # "none"
                          /\ orderInst'[t[2]] = t[1]
                          /\ tradeOutcome'[t[2]] # "none"
        BY <3>1 DEF JournaledBeforeBroker
      <4>1. t[2] \in Cid /\ t[2] # cur[i]
        BY <3>1, TicketId DEF SagaInv, JournaledBeforeBroker
      <4> QED
        BY <3>1, <3>5, <4>1 DEF SagaInv, JournaledBeforeBroker
    <3> QED
      BY <3>6, <3>7, <3>8, <3>9, <3>10, <3>11 DEF SagaInv
  <2> QED
    BY <2>2, <2>3
<1> QED
  BY <1>1, <1>2, <1>3 DEF Preflight

\* A write of an order row that exists.
LEMMA WriteOrderSaga ==
  ASSUME NEW i \in Inst, TypeInv, SagaInv, pc[i] \in InFlight,
         NEW s \in OrderStatus \ {"none"}, NEW l \in Label,
         l \in BeforeSend => pc[i] \in BeforeSend,
         l \in AfterJournal => pc[i] \in AfterJournal,
         WriteOrder(i, s, l)
  PROVE  SagaInv'
<1>1. cur[i] \in Cid /\ orderStatus[cur[i]] # "none"
  BY CurHeld DEF SagaInv, Owns
<1>2. NoNewRow
  BY <1>1 DEF WriteOrder, SetOrder, NoNewRow, TypeInv, TypeOK, OrderTypeOK, tradeVars
<1>3. "unwind" \in Label \ InFlight
  BY LabelDomain DEF InFlight
<1>4. NoAdvance
  BY <1>3, LeaveNoAdvance, GotoNoAdvance DEF WriteOrder, OnlyPc
<1> QED
  BY <1>2, <1>4, SagaFrame, SameBrokerNoNewRequest DEF WriteOrder

\* From the approved intent to the answer: the journal row comes before the
\* request, and the request only once.
LEMMA SubmitSaga ==
  ASSUME NEW i \in Inst, TypeInv, SagaInv, Submit(i) PROVE SagaInv'
<1> USE LabelDomain
<1>1. CASE Approve(i) \/ JournalFailed(i)
  <2>1. CASE Approve(i)
    <3>1. pc[i] \in InFlight /\ pc[i] \in BeforeSend /\ "journal" \notin AfterJournal
      BY <2>1 DEF Approve, From, InFlight, BeforeSend, AfterJournal
    <3> QED
      BY <2>1, <3>1, WriteOrderSaga DEF Approve
  <2>2. CASE JournalFailed(i)
    <3>1. /\ pc[i] \in InFlight
          /\ "release" \notin BeforeSend
          /\ "release" \notin AfterJournal
      BY <2>2 DEF JournalFailed, From, InFlight, BeforeSend, AfterJournal
    <3> QED
      BY <2>2, <3>1, WriteOrderSaga DEF JournalFailed
  <2> QED
    BY <1>1, <2>1, <2>2
<1>2. CASE CreatePendingTrade(i)
  <2>1. /\ pc[i] \in InFlight /\ pc[i] \in BeforeSend /\ cur[i] \in Cid
        /\ cur' = cur /\ orderStatus' = orderStatus /\ orderInst' = orderInst
        /\ sends' = sends /\ requests' = requests /\ fills' = fills
    BY <1>2, CurHeld
    DEF CreatePendingTrade, From, OnlyPc, InFlight, BeforeSend, orderVars, brokerVars
  <2>2. CASE Goto(i, "journalFailed")
    <3>1. NoAdvance
      BY <2>1, <2>2, GotoNoAdvance DEF InFlight, BeforeSend, AfterJournal
    <3>2. tradeOutcome' = tradeOutcome
      BY <1>2, <2>2 DEF CreatePendingTrade, Goto, TypeInv, TypeOK, ProcTypeOK
    <3> QED
      BY <2>1, <3>1, <3>2, SagaFrame DEF NoNewRow, NoNewRequest
  <2>3. CASE ~Goto(i, "journalFailed")
    <3>1. Goto(i, "send") /\ tradeOutcome' = [tradeOutcome EXCEPT ![cur[i]] = "PENDING"]
      BY <1>2, <2>3 DEF CreatePendingTrade, SetTrade
    <3>2. /\ pc'[i] = "send"
          /\ \A j \in Inst \ {i} : pc'[j] = pc[j]
      BY <3>1 DEF Goto, TypeInv, TypeOK, ProcTypeOK
    <3>3. \A c \in Cid : tradeOutcome[c] # "none" => tradeOutcome'[c] # "none"
      BY <3>1 DEF TypeInv, TypeOK, TradeTypeOK
    <3>4. tradeOutcome'[cur[i]] # "none"
      BY <2>1, <3>1 DEF TypeInv, TypeOK, TradeTypeOK
    <3>5. Owns' /\ Unsent'
      BY <2>1, <3>2 DEF SagaInv, Owns, Unsent, InFlight, BeforeSend
    <3>6. Journalled'
      <4> SUFFICES ASSUME NEW j \in Inst, pc'[j] \in AfterJournal
                   PROVE  tradeOutcome'[cur[j]] # "none"
        BY <2>1 DEF Journalled
      <4>1. CASE j = i
        BY <3>4, <4>1
      <4>2. CASE j # i
        <5>1. pc[j] \in AfterJournal /\ pc[j] \in InFlight
          BY <3>2, <4>2 DEF AfterJournal, InFlight
        <5> QED
          BY <3>3, <5>1, CurHeld DEF SagaInv, Journalled
      <4> QED
        BY <4>1, <4>2
    <3>7. NoTrace'
      BY <2>1, <3>1 DEF SagaInv, NoTrace, Owns, TypeInv, TypeOK, TradeTypeOK
    <3>8. WasSent' /\ AtMostOneSubmission' /\ JournaledBeforeBroker'
      BY <2>1, <3>3, TicketId
      DEF SagaInv, WasSent, AtMostOneSubmission, JournaledBeforeBroker
    <3> QED
      BY <3>5, <3>6, <3>7, <3>8 DEF SagaInv
  <2> QED
    BY <2>2, <2>3
<1>3. CASE SendOrder(i)
  <2>1. /\ pc[i] = "send" /\ pc[i] \in InFlight /\ pc[i] \in BeforeSend
        /\ pc[i] \in AfterJournal /\ cur[i] \in Cid
        /\ cur' = cur /\ orderStatus' = orderStatus /\ orderInst' = orderInst
        /\ tradeOutcome' = tradeOutcome /\ fills' = fills
    BY <1>3, CurHeld
    DEF SendOrder, From, OnlyPc, SameStore, InFlight, BeforeSend, AfterJournal,
        orderVars, tradeVars
  <2>2. CASE Goto(i, "rejectTrade")
    <3>1. NoAdvance
      BY <2>1, <2>2, GotoNoAdvance DEF InFlight, BeforeSend, AfterJournal
    <3>2. sends' = sends /\ requests' = requests
      BY <1>3, <2>2 DEF SendOrder, Goto, TypeInv, TypeOK, ProcTypeOK
    <3> QED
      BY <2>1, <3>1, <3>2, SagaFrame DEF NoNewRow, NoNewRequest
  <2>3. CASE ~Goto(i, "rejectTrade")
    <3>1. /\ Goto(i, "await")
          /\ requests' = requests \cup {<<i, cur[i]>>}
          /\ sends' = [sends EXCEPT ![cur[i]] = @ + 1]
      BY <1>3, <2>3 DEF SendOrder
    <3>2. sends[cur[i]] = 0
      BY <2>1 DEF SagaInv, Unsent
    <3>3. sends'[cur[i]] = 1 /\ \A c \in Cid \ {cur[i]} : sends'[c] = sends[c]
      BY <2>1, <3>1, <3>2 DEF TypeInv, TypeOK, BrokerTypeOK
    <3>4. pc'[i] = "await" /\ \A j \in Inst \ {i} : pc'[j] = pc[j]
      BY <3>1 DEF Goto, TypeInv, TypeOK, ProcTypeOK
    <3>5. \A j \in Inst \ {i} :
            pc[j] \in InFlight => cur[j] # cur[i] /\ cur[j] \in Cid
      BY <2>1, CurHeld DEF SagaInv, Owns
    <3>6. Owns' /\ Journalled'
      BY <2>1, <3>4 DEF SagaInv, Owns, Journalled, InFlight, AfterJournal
    <3>7. Unsent'
      BY <2>1, <3>3, <3>4, <3>5 DEF SagaInv, Unsent, BeforeSend, InFlight
    <3>8. NoTrace'
      BY <2>1, <3>3 DEF SagaInv, NoTrace, Owns
    <3>9. WasSent'
      BY <2>1, <3>1, <3>2, <3>3, TicketId DEF SagaInv, WasSent
    <3>10. AtMostOneSubmission'
      BY <3>3 DEF SagaInv, AtMostOneSubmission
    <3>11. JournaledBeforeBroker'
      BY <2>1, <3>1 DEF SagaInv, JournaledBeforeBroker, Owns, Journalled
    <3> QED
      BY <3>6, <3>7, <3>8, <3>9, <3>10, <3>11 DEF SagaInv
  <2> QED
    BY <2>2, <2>3
<1>4. CASE AwaitFilled(i) \/ AwaitRejected(i) \/ AwaitLost(i)
  <2>1. PICK l \in {"markSent", "rejectTrade"} : Reply(i, l)
    BY <1>4 DEF AwaitFilled, AwaitRejected, AwaitLost
  <2>2. pc[i] \in InFlight /\ pc[i] \in AfterJournal
    BY <1>4
    DEF AwaitFilled, AwaitRejected, AwaitLost, From, InFlight, AfterJournal
  <2>3. NoAdvance
    BY <2>1, <2>2, GotoNoAdvance DEF Reply, OnlyPc, BeforeSend
  <2> QED
    BY <2>1, <2>3, SagaFrame, SameStoreNoNewRow, SameBrokerNoNewRequest DEF Reply
<1> QED
  BY <1>1, <1>2, <1>3, <1>4 DEF Submit

\* The confirmation writes only touch rows that exist.
LEMMA FinalizeSaga ==
  ASSUME NEW i \in Inst, TypeInv, SagaInv, Finalize(i) PROVE SagaInv'
<1> USE LabelDomain
<1>1. CASE MarkFilled(i) \/ RejectOrder(i)
  <2>1. /\ pc[i] \in InFlight
        /\ "release" \notin BeforeSend
        /\ "release" \notin AfterJournal
    BY <1>1 DEF MarkFilled, RejectOrder, From, InFlight, BeforeSend, AfterJournal
  <2>2. CASE MarkFilled(i)
    BY <2>1, <2>2, WriteOrderSaga DEF MarkFilled
  <2>3. CASE RejectOrder(i)
    BY <2>1, <2>3, WriteOrderSaga DEF RejectOrder
  <2> QED
    BY <1>1, <2>2, <2>3
<1>2. CASE MarkSent(i)
  <2>1. /\ pc[i] \in InFlight /\ pc[i] \in AfterJournal
        /\ cur[i] \in Cid /\ cur' = cur
    BY <1>2, CurHeld DEF MarkSent, From, OnlyPc, InFlight, AfterJournal
  <2>2. orderStatus[cur[i]] # "none"
    BY <2>1 DEF SagaInv, Owns
  <2>3. PICK l \in {"confirm", "unwind"} : Goto(i, l)
    BY <1>2 DEF MarkSent
  <2>4. NoAdvance
    BY <2>1, <2>3, GotoNoAdvance DEF BeforeSend
  <2>5. NoNewRow
    BY <1>2, <2>2
    DEF MarkSent, SetOrder, NoNewRow, TypeInv, TypeOK, OrderTypeOK, tradeVars
  <2> QED
    BY <1>2, <2>4, <2>5, SagaFrame, SameBrokerNoNewRequest DEF MarkSent
<1>3. CASE ConfirmTrade(i) \/ RejectTrade(i)
  <2>1. /\ pc[i] \in InFlight /\ pc[i] \in AfterJournal
        /\ cur[i] \in Cid /\ cur' = cur
    BY <1>3, CurHeld
    DEF ConfirmTrade, RejectTrade, From, OnlyPc, InFlight, AfterJournal
  <2>2. tradeOutcome[cur[i]] # "none"
    BY <2>1 DEF SagaInv, Journalled
  <2>3. PICK l \in {"markFilled", "unwind", "rejectOrder"} : Goto(i, l)
    BY <1>3 DEF ConfirmTrade, RejectTrade
  <2>4. NoAdvance
    BY <2>1, <2>3, GotoNoAdvance DEF BeforeSend
  <2>5. NoNewRow
    BY <1>3, <2>2
    DEF ConfirmTrade, RejectTrade, SetTrade, NoNewRow, TypeInv, TypeOK,
        TradeTypeOK, orderVars
  <2> QED
    BY <1>3, <2>4, <2>5, SagaFrame, SameBrokerNoNewRequest
    DEF ConfirmTrade, RejectTrade
<1>4. CASE Release(i)
  <2>1. PICK l \in {"manage", "idle"} : Goto(i, l)
    BY <1>4 DEF Release
  <2>2. l \in Label \ InFlight
    BY <2>1 DEF InFlight
  <2>3. \A j \in Inst \ {i} : cur'[j] = cur[j]
    BY <1>4 DEF Release, TypeInv, TypeOK, ProcTypeOK
  <2>4. NoAdvance
    BY <2>1, <2>2, <2>3, LeaveNoAdvance
  <2> QED
    BY <1>4, <2>4, SagaFrame, SameStoreNoNewRow, SameBrokerNoNewRequest
    DEF Release
<1> QED
  BY <1>1, <1>2, <1>3, <1>4 DEF Finalize

\* A row that repositioning or an operator closes was there.
LEMMA RestSaga ==
  ASSUME TypeInv, SagaInv, BookPromoted,
         \/ \E i \in Inst : \/ Gate(i) \/ NoSignal(i) \/ Manage(i)
                            \/ BgQuery(i) \/ BgCompare(i) \/ Crash(i) \/ Stop(i)
         \/ \E s \in Account \X Symbol : OperatorFreesLease(s)
         \/ \E c \in Cid : ManualClose(c) \/ PendingAges(c)
         \/ \E t \in Ticket : BrokerFill(t) \/ BrokerReject(t) \/ BrokerClose(t)
         \/ Tick
  PROVE  SagaInv'
<1>0. \A l \in {"cycle", "manage", "idle", "reposition"} : l \in Label \ InFlight
  BY LabelDomain DEF InFlight
<1>1. ASSUME NEW i \in Inst, Gate(i) \/ NoSignal(i) \/ ReadOpenTrades(i)
      PROVE  SagaInv'
  <2>1. PICK l \in {"cycle", "manage", "idle", "reposition"} :
          Goto(i, l) /\ UNCHANGED cur
    BY <1>1 DEF Gate, NoSignal, ReadOpenTrades, OnlyPc
  <2>2. NoAdvance
    BY <1>0, <2>1, LeaveNoAdvance
  <2> QED
    BY <1>1, <2>2, SagaFrame, SameStoreNoNewRow, SameBrokerNoNewRequest
    DEF Gate, NoSignal, ReadOpenTrades
<1>2. ASSUME NEW i \in Inst, NEW c \in Cid, RepositionClose(i, c) PROVE SagaInv'
  <2>1. NoAdvance /\ NoNewRow
    BY <1>2, SameNoAdvance, SameStoreNoNewRow DEF RepositionClose
  <2>2. NoNewRequest
    BY <1>2 DEF RepositionClose, NoNewRequest
  <2> QED
    BY <2>1, <2>2, SagaFrame
<1>3. ASSUME NEW i \in Inst, EndCycle(i) PROVE SagaInv'
  <2>1. NoAdvance
    BY <1>0, <1>3, LeaveNoAdvance DEF EndCycle
  <2>2. \A c \in dirty[i] : tradeOutcome[c] # "none"
    BY DEF BookPromoted
  <2>3. NoNewRow
    BY <1>3, <2>2 DEF EndCycle, NoNewRow, orderVars
  <2> QED
    BY <1>3, <2>1, <2>3, SagaFrame, SameBrokerNoNewRequest DEF EndCycle
<1>4. ASSUME NEW i \in Inst, BgQuery(i) \/ BgCompare(i) PROVE SagaInv'
  BY <1>4, SagaFrame, SameNoAdvance, SameStoreNoNewRow, SameBrokerNoNewRequest
  DEF BgQuery, BgCompare
<1>5. ASSUME NEW i \in Inst, Crash(i) \/ Stop(i) PROVE SagaInv'
  BY <1>5, SagaFrame, ExitNoAdvance, SameStoreNoNewRow, SameBrokerNoNewRequest
  DEF Crash, Stop
<1>6. ASSUME NEW s \in Account \X Symbol, OperatorFreesLease(s) PROVE SagaInv'
  BY <1>6, SagaFrame, SameNoAdvance, SameStoreNoNewRow, SameBrokerNoNewRequest
  DEF OperatorFreesLease, procVars
<1>7. ASSUME NEW c \in Cid, ManualClose(c) \/ PendingAges(c) PROVE SagaInv'
  <2>1. NoNewRow
    BY <1>7
    DEF ManualClose, PendingAges, SetTrade, NoNewRow, orderVars, TypeInv,
        TypeOK, TradeTypeOK
  <2> QED
    BY <1>7, <2>1, SagaFrame, SameNoAdvance, SameBrokerNoNewRequest
    DEF ManualClose, PendingAges, procVars
<1>8. ASSUME NEW t \in Ticket, BrokerFill(t) \/ BrokerReject(t) \/ BrokerClose(t)
      PROVE  SagaInv'
  <2>1. NoAdvance /\ NoNewRow
    BY <1>8, SameNoAdvance, SameStoreNoNewRow
    DEF BrokerFill, BrokerReject, BrokerClose, procVars
  <2>2. NoNewRequest
    BY <1>8 DEF BrokerFill, BrokerReject, BrokerClose, NoNewRequest
  <2> QED
    BY <2>1, <2>2, SagaFrame
<1>9. ASSUME Tick PROVE SagaInv'
  BY <1>9, SagaFrame, SameNoAdvance, SameStoreNoNewRow, SameBrokerNoNewRequest
  DEF Tick, procVars
<1> QED
  BY <1>1, <1>2, <1>3, <1>4, <1>5, <1>6, <1>7, <1>8, <1>9 DEF Manage

----------------------------------------------------------------------------
\* Confirmations are real.

Promoted == {"OPEN", "CLOSED"}

\* Nothing an id in flight, a snapshot or a confirmation relies on changes.
LEMMA RealFrame ==
  ASSUME TypeInv, RealInv,
         UNCHANGED <<orderStatus, orderTicket, tradeOutcome, tradeTicket>>,
         fills \subseteq fills',
         \A j \in Inst : pc'[j] \in InFlight => pc'[j] = pc[j] /\ cur'[j] = cur[j],
         \A j \in Inst : book'[j] \cup dirty'[j] \subseteq book[j] \cup dirty[j]
  PROVE  RealInv'
<1>1. RowStage'
  BY DEF RealInv, RowStage, InFlight, BeforeSend
<1>2. FillStage'
  BY DEF RealInv, FillStage, InFlight
<1>3. BookPromoted'
  BY DEF RealInv, BookPromoted
<1>4. ConfirmedIsReal'
  BY DEF RealInv, ConfirmedIsReal
<1> QED
  BY <1>1, <1>2, <1>3, <1>4 DEF RealInv

\* The stage conditions of one task, read in the state after its step.
RowStageOf(i) ==
  /\ pc[i] \in BeforeSend \ {"send"} => tradeOutcome[cur[i]] = "none"
  /\ pc[i] \in {"send", "await", "markSent", "confirm", "rejectTrade"} =>
       tradeOutcome[cur[i]] = "PENDING"
  /\ pc[i] = "rejectOrder" => tradeOutcome[cur[i]] \in {"PENDING", "REJECTED"}
  /\ pc[i] = "markFilled" => tradeOutcome[cur[i]] \in {"OPEN", "CLOSED"}
FillStageOf(i) ==
  /\ pc[i] \in {"markSent", "confirm", "markFilled"} => <<i, cur[i]>> \in fills
  /\ pc[i] \in {"confirm", "markFilled"} => orderTicket[cur[i]] = <<i, cur[i]>>
ConfirmedOf(c) ==
  /\ tradeOutcome[c] \in {"OPEN", "CLOSED"} =>
       tradeTicket[c] \in fills /\ tradeTicket[c] = orderTicket[c]
  /\ orderStatus[c] = "FILLED" => tradeOutcome[c] \in {"OPEN", "CLOSED"}

\* A step of one task on the rows of the id it has in flight.
LEMMA RealStep ==
  ASSUME TypeInv, RealInv, NEW i \in Inst, cur[i] \in Cid,
         \A j \in Inst \ {i} :
           pc[j] \in InFlight => cur[j] \in Cid /\ cur[j] # cur[i],
         \A j \in Inst \ {i} : pc'[j] = pc[j],
         UNCHANGED <<cur, book, dirty, fills>>,
         \A c \in Cid \ {cur[i]} :
           /\ tradeOutcome'[c] = tradeOutcome[c] /\ tradeTicket'[c] = tradeTicket[c]
           /\ orderStatus'[c] = orderStatus[c] /\ orderTicket'[c] = orderTicket[c],
         RowStageOf(i)', FillStageOf(i)', ConfirmedOf(cur[i])',
         tradeOutcome[cur[i]] \in Promoted => tradeOutcome'[cur[i]] \in Promoted
  PROVE  RealInv'
<1>1. RowStage'
  <2> SUFFICES ASSUME NEW j \in Inst PROVE RowStageOf(j)'
    BY DEF RowStage, RowStageOf
  <2>1. CASE j = i
    BY <2>1
  <2>2. CASE j # i
    BY <2>2 DEF RealInv, RowStage, RowStageOf, InFlight, BeforeSend
  <2> QED
    BY <2>1, <2>2
<1>2. FillStage'
  <2> SUFFICES ASSUME NEW j \in Inst PROVE FillStageOf(j)'
    BY DEF FillStage, FillStageOf
  <2>1. CASE j = i
    BY <2>1
  <2>2. CASE j # i
    BY <2>2 DEF RealInv, FillStage, FillStageOf, InFlight
  <2> QED
    BY <2>1, <2>2
<1>3. BookPromoted'
  <2> SUFFICES ASSUME NEW j \in Inst, NEW c \in book[j] \cup dirty[j]
               PROVE  tradeOutcome'[c] \in {"OPEN", "CLOSED"}
    BY DEF BookPromoted
  <2>1. c \in Cid /\ tradeOutcome[c] \in {"OPEN", "CLOSED"}
    BY DEF RealInv, BookPromoted, TypeInv, TypeOK, ProcTypeOK
  <2> QED
    BY <2>1 DEF Promoted
<1>4. ConfirmedIsReal'
  <2> SUFFICES ASSUME NEW c \in Cid PROVE ConfirmedOf(c)'
    BY DEF ConfirmedIsReal, ConfirmedOf
  <2>1. CASE c = cur[i]
    BY <2>1
  <2>2. CASE c # cur[i]
    BY <2>2 DEF RealInv, ConfirmedIsReal, ConfirmedOf
  <2> QED
    BY <2>1, <2>2
<1> QED
  BY <1>1, <1>2, <1>3, <1>4 DEF RealInv

\* No two tasks have the same id in flight.
LEMMA Exclusive ==
  ASSUME TypeInv, SagaInv, NEW i \in Inst, pc[i] \in InFlight
  PROVE  /\ cur[i] \in Cid
         /\ \A j \in Inst \ {i} :
              pc[j] \in InFlight => cur[j] \in Cid /\ cur[j] # cur[i]
BY CurHeld DEF SagaInv, Owns

\* Where the main task is after it has moved.
LEMMA GotoPc ==
  ASSUME TypeInv, NEW i \in Inst, NEW l \in Label, Goto(i, l)
  PROVE  pc'[i] = l /\ \A j \in Inst \ {i} : pc'[j] = pc[j]
BY DEF Goto, TypeInv, TypeOK, ProcTypeOK

\* Leaving the call with an exception or a refusal and no write.
LEMMA LeaveReal ==
  ASSUME TypeInv, RealInv, NEW i \in Inst, NEW l \in Label \ InFlight, Goto(i, l),
         UNCHANGED <<book, dirty>>, \A j \in Inst \ {i} : cur'[j] = cur[j],
         UNCHANGED <<orderStatus, orderTicket, tradeOutcome, tradeTicket, fills>>
  PROVE  RealInv'
<1>1. \A j \in Inst : pc'[j] \in InFlight => pc'[j] = pc[j] /\ cur'[j] = cur[j]
  BY GotoPc
<1> QED
  BY <1>1, RealFrame

\* A write of the order row that keeps the row's ticket.
LEMMA WriteOrderReal ==
  ASSUME TypeInv, SagaInv, RealInv, NEW i \in Inst, pc[i] \in InFlight,
         NEW s \in OrderStatus, NEW l \in Label, WriteOrder(i, s, l),
         l \notin InFlight \/ (l = "journal" /\ pc[i] = "approve"),
         s = "FILLED" => tradeOutcome[cur[i]] \in Promoted
  PROVE  RealInv'
<1>0. /\ cur' = cur /\ book' = book /\ dirty' = dirty /\ fills' = fills
      /\ orderTicket' = orderTicket
      /\ tradeOutcome' = tradeOutcome /\ tradeTicket' = tradeTicket
  BY DEF WriteOrder, OnlyPc, tradeVars, brokerVars
<1>1. CASE orderStatus' = orderStatus /\ Goto(i, "unwind")
  <2>1. "unwind" \in Label \ InFlight
    BY LabelDomain DEF InFlight
  <2> QED
    BY <1>0, <1>1, <2>1, LeaveReal
<1>2. CASE Goto(i, l) /\ SetOrder(cur[i], s)
  <2>0. /\ pc'[i] = l
        /\ \A j \in Inst \ {i} : pc'[j] = pc[j]
    BY <1>2, GotoPc
  <2>1. /\ orderStatus'[cur[i]] = s
        /\ \A c \in Cid \ {cur[i]} : orderStatus'[c] = orderStatus[c]
    BY <1>2, CurHeld DEF SetOrder, TypeInv, TypeOK, OrderTypeOK
  <2>2. RowStageOf(i)'
    BY <1>0, <2>0 DEF RowStageOf, RealInv, RowStage, BeforeSend, InFlight
  <2>3. FillStageOf(i)'
    BY <2>0 DEF FillStageOf, InFlight
  <2>4. ConfirmedOf(cur[i])'
    BY <1>0, <2>1, CurHeld DEF ConfirmedOf, RealInv, ConfirmedIsReal, Promoted
  <2> QED
    BY <1>0, <2>0, <2>1, <2>2, <2>3, <2>4, Exclusive, RealStep
<1> QED
  BY <1>1, <1>2 DEF WriteOrder

LEMMA PreflightReal ==
  ASSUME NEW i \in Inst, TypeInv, SagaInv, RealInv, Preflight(i)
  PROVE  RealInv'
<1>0. {"risk", "manage", "intent", "release"} \subseteq Label \ InFlight
  BY LabelDomain DEF InFlight
<1>1. ASSUME NEW c \in Cid, AcquireLock(i, c) PROVE RealInv'
  <2>1. \A j \in Inst \ {i} : cur'[j] = cur[j]
    BY <1>1 DEF AcquireLock, TypeInv, TypeOK, ProcTypeOK
  <2>2. Goto(i, "risk")
    BY <1>1 DEF AcquireLock
  <2> QED
    BY <1>0, <1>1, <2>1, <2>2, LeaveReal
    DEF AcquireLock, SameStore, orderVars, tradeVars, brokerVars
<1>2. CASE LockBlocked(i) \/ CrossRisk(i)
  <2>1. PICK l \in {"manage", "intent", "release"} : Goto(i, l)
    BY <1>2 DEF LockBlocked, CrossRisk
  <2> QED
    BY <1>0, <1>2, <2>1, LeaveReal
    DEF LockBlocked, CrossRisk, OnlyPc, SameStore, orderVars, tradeVars, brokerVars
<1>3. CASE PersistIntent(i)
  <2>0. /\ cur[i] \in Cid /\ cur' = cur /\ book' = book /\ dirty' = dirty
        /\ fills' = fills /\ orderTicket' = orderTicket
        /\ tradeOutcome' = tradeOutcome /\ tradeTicket' = tradeTicket
    BY <1>3
    DEF PersistIntent, From, OnlyPc, tradeVars, brokerVars, Critical, TypeInv, CidHeld
  <2>1. CASE Goto(i, "release")
    <3>1. orderStatus' = orderStatus
      BY <1>3, <2>1 DEF PersistIntent, Goto, TypeInv, TypeOK, ProcTypeOK
    <3> QED
      BY <1>0, <2>0, <2>1, <3>1, LeaveReal
  <2>2. CASE ~Goto(i, "release")
    <3>1. /\ Goto(i, "approve")
          /\ orderStatus[cur[i]] = "none"
          /\ orderStatus' = [orderStatus EXCEPT ![cur[i]] = "PENDING"]
      BY <1>3, <2>2 DEF PersistIntent, SetOrder
    <3>2. tradeOutcome[cur[i]] = "none"
      BY <2>0, <3>1 DEF SagaInv, NoTrace
    <3>3. \A j \in Inst \ {i} :
            pc[j] \in InFlight => cur[j] \in Cid /\ cur[j] # cur[i]
      BY <3>1, CurHeld DEF SagaInv, Owns
    <3>4. pc'[i] = "approve" /\ \A j \in Inst \ {i} : pc'[j] = pc[j]
      BY <3>1, LabelDomain, GotoPc
    <3>5. /\ orderStatus'[cur[i]] = "PENDING"
          /\ \A c \in Cid \ {cur[i]} : orderStatus'[c] = orderStatus[c]
      BY <2>0, <3>1 DEF TypeInv, TypeOK, OrderTypeOK
    <3>6. RowStageOf(i)' /\ FillStageOf(i)' /\ ConfirmedOf(cur[i])'
      BY <2>0, <3>2, <3>4, <3>5 DEF RowStageOf, FillStageOf, ConfirmedOf, BeforeSend
    <3> QED
      BY <2>0, <3>2, <3>3, <3>4, <3>5, <3>6, RealStep DEF Promoted
  <2> QED
    BY <2>1, <2>2
<1> QED
  BY <1>1, <1>2, <1>3 DEF Preflight

LEMMA SubmitReal ==
  ASSUME NEW i \in Inst, TypeInv, SagaInv, RealInv, Submit(i)
  PROVE  RealInv'
<1> USE LabelDomain
<1>1. CASE Approve(i)
  <2>1. pc[i] = "approve" /\ pc[i] \in InFlight
    BY <1>1 DEF Approve, From, InFlight
  <2> QED
    BY <1>1, <2>1, WriteOrderReal DEF Approve
<1>2. CASE JournalFailed(i)
  <2>1. pc[i] \in InFlight /\ "release" \notin InFlight
    BY <1>2 DEF JournalFailed, From, InFlight
  <2> QED
    BY <1>2, <2>1, WriteOrderReal DEF JournalFailed
<1>3. CASE CreatePendingTrade(i)
  <2>1. /\ pc[i] = "journal" /\ pc[i] \in InFlight
        /\ cur' = cur /\ book' = book /\ dirty' = dirty /\ fills' = fills
        /\ orderStatus' = orderStatus /\ orderTicket' = orderTicket
        /\ tradeTicket' = tradeTicket
    BY <1>3
    DEF CreatePendingTrade, From, OnlyPc, InFlight, orderVars, brokerVars
  <2>2. cur[i] \in Cid /\ tradeOutcome[cur[i]] = "none"
    BY <2>1, CurHeld DEF RealInv, RowStage, BeforeSend
  <2>3. PICK l \in {"send", "journalFailed"} :
          /\ Goto(i, l)
          /\ l = "send" => SetTrade(cur[i], "PENDING")
          /\ l = "journalFailed" => tradeOutcome' = tradeOutcome
    BY <1>3 DEF CreatePendingTrade
  <2>4. pc'[i] = l /\ \A j \in Inst \ {i} : pc'[j] = pc[j]
    BY <2>3, GotoPc
  <2>5. /\ l = "send" => tradeOutcome'[cur[i]] = "PENDING"
        /\ l = "journalFailed" => tradeOutcome'[cur[i]] = "none"
        /\ \A c \in Cid \ {cur[i]} : tradeOutcome'[c] = tradeOutcome[c]
    BY <2>2, <2>3 DEF SetTrade, TypeInv, TypeOK, TradeTypeOK
  <2>6. RowStageOf(i)' /\ FillStageOf(i)'
    BY <2>1, <2>4, <2>5 DEF RowStageOf, FillStageOf, BeforeSend
  <2>7. ConfirmedOf(cur[i])'
    BY <2>1, <2>2, <2>3, <2>5 DEF ConfirmedOf, RealInv, ConfirmedIsReal
  <2> QED
    BY <2>1, <2>2, <2>4, <2>5, <2>6, <2>7, Exclusive, RealStep DEF Promoted
<1>4. CASE \/ SendOrder(i) \/ AwaitFilled(i) \/ AwaitRejected(i) \/ AwaitLost(i)
  <2>1. /\ pc[i] \in {"send", "await"} /\ pc[i] \in InFlight
        /\ cur' = cur /\ book' = book /\ dirty' = dirty /\ fills' = fills
        /\ orderStatus' = orderStatus /\ orderTicket' = orderTicket
        /\ tradeTicket' = tradeTicket /\ tradeOutcome' = tradeOutcome
    BY <1>4
    DEF SendOrder, AwaitFilled, AwaitRejected, AwaitLost, Reply, From, OnlyPc,
        InFlight, SameStore, orderVars, tradeVars, brokerVars
  <2>2. PICK l \in {"rejectTrade", "await", "markSent"} :
          Goto(i, l) /\ (l = "markSent" => <<i, cur[i]>> \in fills)
    BY <1>4 DEF SendOrder, AwaitFilled, AwaitRejected, AwaitLost, Reply
  <2>3. pc'[i] = l /\ \A j \in Inst \ {i} : pc'[j] = pc[j]
    BY <2>2, GotoPc
  <2>4. RowStageOf(i)'
    BY <2>1, <2>3 DEF RowStageOf, RealInv, RowStage, BeforeSend
  <2>5. FillStageOf(i)'
    BY <2>1, <2>2, <2>3 DEF FillStageOf
  <2>6. ConfirmedOf(cur[i])'
    BY <2>1, CurHeld DEF ConfirmedOf, RealInv, ConfirmedIsReal
  <2> QED
    BY <2>1, <2>3, <2>4, <2>5, <2>6, Exclusive, RealStep
<1> QED
  BY <1>1, <1>2, <1>3, <1>4 DEF Submit

LEMMA FinalizeReal ==
  ASSUME NEW i \in Inst, TypeInv, SagaInv, RealInv, Finalize(i)
  PROVE  RealInv'
<1> USE LabelDomain
<1>0. "release" \notin InFlight /\ "unwind" \in Label \ InFlight
  BY DEF InFlight
<1>1. CASE MarkFilled(i)
  <2>1. pc[i] \in InFlight /\ tradeOutcome[cur[i]] \in Promoted
    BY <1>1 DEF MarkFilled, From, InFlight, RealInv, RowStage, Promoted
  <2> QED
    BY <1>0, <1>1, <2>1, WriteOrderReal DEF MarkFilled
<1>2. CASE RejectOrder(i)
  <2>1. pc[i] \in InFlight
    BY <1>2 DEF RejectOrder, From, InFlight
  <2> QED
    BY <1>0, <1>2, <2>1, WriteOrderReal DEF RejectOrder
<1>3. CASE MarkSent(i)
  <2>1. /\ pc[i] = "markSent" /\ pc[i] \in InFlight
        /\ cur' = cur /\ book' = book /\ dirty' = dirty /\ fills' = fills
        /\ tradeTicket' = tradeTicket /\ tradeOutcome' = tradeOutcome
    BY <1>3 DEF MarkSent, From, OnlyPc, InFlight, tradeVars, brokerVars
  <2>2. /\ cur[i] \in Cid /\ tradeOutcome[cur[i]] = "PENDING"
        /\ <<i, cur[i]>> \in fills
    BY <2>1, CurHeld DEF RealInv, RowStage, FillStage
  <2>3. CASE Goto(i, "unwind")
    <3>1. UNCHANGED <<orderStatus, orderTicket>>
      BY <1>3, <2>3 DEF MarkSent, Goto, TypeInv, TypeOK, ProcTypeOK
    <3> QED
      BY <1>0, <2>1, <2>3, <3>1, LeaveReal
  <2>4. CASE ~Goto(i, "unwind")
    <3>1. /\ Goto(i, "confirm")
          /\ orderStatus' = [orderStatus EXCEPT ![cur[i]] = "SENT"]
          /\ orderTicket' = [orderTicket EXCEPT ![cur[i]] = <<i, cur[i]>>]
      BY <1>3, <2>4 DEF MarkSent, SetOrder
    <3>2. pc'[i] = "confirm" /\ \A j \in Inst \ {i} : pc'[j] = pc[j]
      BY <3>1, GotoPc
    <3>3. /\ orderStatus'[cur[i]] = "SENT" /\ orderTicket'[cur[i]] = <<i, cur[i]>>
          /\ \A c \in Cid \ {cur[i]} :
               orderStatus'[c] = orderStatus[c] /\ orderTicket'[c] = orderTicket[c]
      BY <2>2, <3>1 DEF TypeInv, TypeOK, OrderTypeOK
    <3>4. RowStageOf(i)' /\ FillStageOf(i)' /\ ConfirmedOf(cur[i])'
      BY <2>1, <2>2, <3>2, <3>3 DEF RowStageOf, FillStageOf, ConfirmedOf, BeforeSend
    <3> QED
      BY <2>1, <2>2, <3>2, <3>3, <3>4, Exclusive, RealStep
  <2> QED
    BY <2>3, <2>4
<1>4. CASE ConfirmTrade(i)
  <2>1. /\ pc[i] = "confirm" /\ pc[i] \in InFlight
        /\ cur' = cur /\ book' = book /\ dirty' = dirty /\ fills' = fills
        /\ orderStatus' = orderStatus /\ orderTicket' = orderTicket
    BY <1>4 DEF ConfirmTrade, From, OnlyPc, InFlight, orderVars, brokerVars
  <2>2. /\ cur[i] \in Cid
        /\ <<i, cur[i]>> \in fills
        /\ orderTicket[cur[i]] = <<i, cur[i]>>
    BY <2>1, CurHeld DEF RealInv, FillStage
  <2>3. CASE Goto(i, "unwind")
    <3>1. UNCHANGED <<tradeOutcome, tradeTicket>>
      BY <1>4, <2>3 DEF ConfirmTrade, Goto, TypeInv, TypeOK, ProcTypeOK
    <3> QED
      BY <1>0, <2>1, <2>3, <3>1, LeaveReal
  <2>4. CASE ~Goto(i, "unwind")
    <3>1. /\ Goto(i, "markFilled")
          /\ tradeOutcome' = [tradeOutcome EXCEPT ![cur[i]] = "OPEN"]
          /\ tradeTicket' = [tradeTicket EXCEPT ![cur[i]] = <<i, cur[i]>>]
      BY <1>4, <2>4 DEF ConfirmTrade, SetTrade
    <3>2. pc'[i] = "markFilled" /\ \A j \in Inst \ {i} : pc'[j] = pc[j]
      BY <3>1, GotoPc
    <3>3. /\ tradeOutcome'[cur[i]] = "OPEN" /\ tradeTicket'[cur[i]] = <<i, cur[i]>>
          /\ \A c \in Cid \ {cur[i]} :
               tradeOutcome'[c] = tradeOutcome[c] /\ tradeTicket'[c] = tradeTicket[c]
      BY <2>2, <3>1 DEF TypeInv, TypeOK, TradeTypeOK
    <3>4. RowStageOf(i)' /\ FillStageOf(i)' /\ ConfirmedOf(cur[i])'
      BY <2>1, <2>2, <3>2, <3>3 DEF RowStageOf, FillStageOf, ConfirmedOf, BeforeSend
    <3> QED
      BY <2>1, <2>2, <3>2, <3>3, <3>4, Exclusive, RealStep DEF Promoted
  <2> QED
    BY <2>3, <2>4
<1>5. CASE RejectTrade(i)
  <2>1. /\ pc[i] = "rejectTrade" /\ pc[i] \in InFlight
        /\ cur' = cur /\ book' = book /\ dirty' = dirty /\ fills' = fills
        /\ orderStatus' = orderStatus /\ orderTicket' = orderTicket
        /\ tradeTicket' = tradeTicket
    BY <1>5 DEF RejectTrade, From, OnlyPc, InFlight, orderVars, brokerVars
  <2>2. cur[i] \in Cid /\ tradeOutcome[cur[i]] = "PENDING"
    BY <2>1, CurHeld DEF RealInv, RowStage
  <2>3. /\ tradeOutcome'[cur[i]] \in {"PENDING", "REJECTED"}
        /\ \A c \in Cid \ {cur[i]} : tradeOutcome'[c] = tradeOutcome[c]
    BY <1>5, <2>2 DEF RejectTrade, SetTrade, TypeInv, TypeOK, TradeTypeOK
  <2>4. pc'[i] = "rejectOrder" /\ \A j \in Inst \ {i} : pc'[j] = pc[j]
    BY <1>5, GotoPc DEF RejectTrade
  <2>5. RowStageOf(i)' /\ FillStageOf(i)'
    BY <2>1, <2>3, <2>4 DEF RowStageOf, FillStageOf, BeforeSend
  <2>6. ConfirmedOf(cur[i])'
    BY <2>1, <2>2, <2>3 DEF ConfirmedOf, RealInv, ConfirmedIsReal
  <2> QED
    BY <2>1, <2>2, <2>3, <2>4, <2>5, <2>6, Exclusive, RealStep DEF Promoted
<1>6. CASE Release(i)
  <2>1. PICK l \in {"manage", "idle"} : Goto(i, l)
    BY <1>6 DEF Release
  <2>2. l \in Label \ InFlight
    BY <2>1 DEF InFlight
  <2>3. \A j \in Inst \ {i} : cur'[j] = cur[j]
    BY <1>6 DEF Release, TypeInv, TypeOK, ProcTypeOK
  <2> QED
    BY <1>6, <2>1, <2>2, <2>3, LeaveReal
    DEF Release, SameStore, orderVars, tradeVars, brokerVars
<1> QED
  BY <1>1, <1>2, <1>3, <1>4, <1>5, <1>6 DEF Finalize

\* The rows of a snapshot were OPEN when it was taken, and an OPEN row only ever
\* becomes CLOSED.
LEMMA ManageReal ==
  ASSUME NEW i \in Inst, TypeInv, SagaInv, RealInv, Manage(i)
  PROVE  RealInv'
<1>0. \A l \in {"idle", "reposition"} : l \in Label \ InFlight
  BY LabelDomain DEF InFlight
<1>1. CASE ReadOpenTrades(i)
  <2>1. /\ pc'[i] = "reposition" /\ \A j \in Inst \ {i} : pc'[j] = pc[j]
        /\ UNCHANGED <<cur, dirty, orderStatus, orderTicket, tradeOutcome, tradeTicket, fills>>
    BY <1>1, <1>0, GotoPc
    DEF ReadOpenTrades, SameStore, orderVars, tradeVars, brokerVars
  <2>2. RowStage'
    BY <2>1 DEF RealInv, RowStage, BeforeSend
  <2>3. FillStage' /\ ConfirmedIsReal'
    BY <2>1 DEF RealInv, FillStage, ConfirmedIsReal
  <2>4. \A j \in Inst : \A c \in book'[j] : c \in book[j] \/ tradeOutcome[c] = "OPEN"
    BY <1>1 DEF ReadOpenTrades, OpenTrades, TypeInv, TypeOK, ProcTypeOK
  <2>5. BookPromoted'
    BY <2>1, <2>4 DEF RealInv, BookPromoted
  <2> QED
    BY <2>2, <2>3, <2>5 DEF RealInv
<1>2. ASSUME NEW c \in Cid, RepositionClose(i, c) PROVE RealInv'
  <2>1. \A j \in Inst : book'[j] \cup dirty'[j] \subseteq book[j] \cup dirty[j]
    BY <1>2 DEF RepositionClose, TypeInv, TypeOK, ProcTypeOK
  <2> QED
    BY <1>2, <2>1, RealFrame DEF RepositionClose, SameStore, orderVars, tradeVars
<1>3. CASE EndCycle(i)
  <2>1. /\ pc'[i] = "idle" /\ \A j \in Inst \ {i} : pc'[j] = pc[j]
        /\ UNCHANGED <<cur, orderStatus, orderTicket, tradeTicket, fills>>
    BY <1>3, <1>0, GotoPc DEF EndCycle, orderVars, brokerVars
  <2>2. \A c \in Cid : \/ tradeOutcome'[c] = tradeOutcome[c]
                       \/ /\ tradeOutcome[c] \in {"OPEN", "CLOSED"}
                          /\ tradeOutcome'[c] = "CLOSED"
    BY <1>3 DEF EndCycle, RealInv, BookPromoted
  <2>3. \A j \in Inst : pc[j] \in InFlight => cur[j] \in Cid
    BY CurHeld
  <2>4. RowStage'
    BY <2>1, <2>2, <2>3 DEF RealInv, RowStage, BeforeSend, InFlight
  <2>5. FillStage' /\ ConfirmedIsReal'
    BY <2>1, <2>2 DEF RealInv, FillStage, ConfirmedIsReal
  <2>6. \A j \in Inst : book'[j] \cup dirty'[j] \subseteq book[j] \cup dirty[j]
    BY <1>3 DEF EndCycle, TypeInv, TypeOK, ProcTypeOK
  <2>7. BookPromoted'
    BY <2>2, <2>6 DEF RealInv, BookPromoted, TypeInv, TypeOK, ProcTypeOK
  <2> QED
    BY <2>4, <2>5, <2>7 DEF RealInv
<1> QED
  BY <1>1, <1>2, <1>3 DEF Manage

LEMMA StartReal ==
  ASSUME NEW i \in Inst, TypeInv, SagaInv, RealInv, Start(i) \/ StartStep(i)
  PROVE  RealInv'
<1>0. \A l \in {"down", "recover", "startQuery", "startCompare", "lease", "idle"} :
        l \in Label \ InFlight
  BY LabelDomain DEF InFlight
<1>1. UNCHANGED <<orderStatus, orderTicket, tradeOutcome, tradeTicket, fills>>
  BY DEF Start, StartStep, Recover, StartQuery, StartCompare, ClaimLease,
         SameStore, orderVars, tradeVars, brokerVars
<1>2. CASE Exit(i)
  <2>1. \A j \in Inst : pc'[j] \in InFlight => pc'[j] = pc[j] /\ cur'[j] = cur[j]
    BY <1>0, <1>2, GotoPc DEF Exit, TypeInv, TypeOK, ProcTypeOK
  <2>2. \A j \in Inst : book'[j] \cup dirty'[j] \subseteq book[j] \cup dirty[j]
    BY <1>2 DEF Exit, TypeInv, TypeOK, ProcTypeOK
  <2> QED
    BY <1>1, <2>1, <2>2, RealFrame
<1>3. CASE ~Exit(i)
  <2>1. /\ UNCHANGED <<cur, book, dirty>>
        /\ \E l \in {"recover", "startQuery", "startCompare", "lease", "idle"} :
             Goto(i, l)
    BY <1>3
    DEF Start, StartStep, Recover, StartQuery, StartCompare, ClaimLease, OnlyPc
  <2> QED
    BY <1>0, <1>1, <2>1, LeaveReal
<1> QED
  BY <1>2, <1>3

LEMMA RestReal ==
  ASSUME TypeInv, SagaInv, RealInv,
         \/ \E i \in Inst : \/ Gate(i) \/ NoSignal(i)
                            \/ BgQuery(i) \/ BgCompare(i) \/ Crash(i) \/ Stop(i)
         \/ \E s \in Account \X Symbol : OperatorFreesLease(s)
         \/ \E c \in Cid : ManualClose(c) \/ PendingAges(c)
         \/ \E t \in Ticket : BrokerFill(t) \/ BrokerReject(t) \/ BrokerClose(t)
         \/ Tick
  PROVE  RealInv'
<1>0. \A l \in {"down", "cycle", "manage", "idle"} : l \in Label \ InFlight
  BY LabelDomain DEF InFlight
<1>1. ASSUME NEW i \in Inst, Gate(i) \/ NoSignal(i) PROVE RealInv'
  <2>1. PICK l \in {"cycle", "manage", "idle"} : Goto(i, l)
    BY <1>1 DEF Gate, NoSignal
  <2> QED
    BY <1>0, <1>1, <2>1, LeaveReal
    DEF Gate, NoSignal, OnlyPc, SameStore, orderVars, tradeVars, brokerVars
<1>2. ASSUME NEW i \in Inst, Crash(i) \/ Stop(i) PROVE RealInv'
  <2>1. \A j \in Inst : pc'[j] \in InFlight => pc'[j] = pc[j] /\ cur'[j] = cur[j]
    BY <1>0, <1>2, GotoPc DEF Crash, Stop, Exit, TypeInv, TypeOK, ProcTypeOK
  <2>2. \A j \in Inst : book'[j] \cup dirty'[j] \subseteq book[j] \cup dirty[j]
    BY <1>2 DEF Crash, Stop, Exit, TypeInv, TypeOK, ProcTypeOK
  <2> QED
    BY <1>2, <2>1, <2>2, RealFrame
    DEF Crash, Stop, SameStore, orderVars, tradeVars, brokerVars
<1>3. ASSUME NEW c \in Cid, ManualClose(c) PROVE RealInv'
  <2>1. /\ UNCHANGED <<pc, cur, book, dirty, orderStatus, orderTicket, tradeTicket, fills>>
        /\ tradeOutcome[c] = "OPEN"
        /\ tradeOutcome' = [tradeOutcome EXCEPT ![c] = "CLOSED"]
    BY <1>3 DEF ManualClose, SetTrade, procVars, orderVars, brokerVars
  <2>2. \A d \in Cid : \/ tradeOutcome'[d] = tradeOutcome[d]
                       \/ /\ tradeOutcome[d] \in {"OPEN", "CLOSED"}
                          /\ tradeOutcome'[d] = "CLOSED"
    BY <2>1 DEF TypeInv, TypeOK, TradeTypeOK
  <2>3. \A j \in Inst : pc[j] \in InFlight => cur[j] \in Cid
    BY CurHeld
  <2>4. RowStage'
    BY <2>1, <2>2, <2>3 DEF RealInv, RowStage, BeforeSend, InFlight
  <2>5. FillStage' /\ ConfirmedIsReal'
    BY <2>1, <2>2 DEF RealInv, FillStage, ConfirmedIsReal
  <2>6. BookPromoted'
    BY <2>1, <2>2 DEF RealInv, BookPromoted, TypeInv, TypeOK, ProcTypeOK
  <2> QED
    BY <2>4, <2>5, <2>6 DEF RealInv
<1>4. ASSUME UNCHANGED <<pc, cur, book, dirty, orderStatus, orderTicket,
                         tradeOutcome, tradeTicket>>, fills \subseteq fills'
      PROVE  RealInv'
  BY <1>4, RealFrame
<1>5. ASSUME NEW i \in Inst, BgQuery(i) \/ BgCompare(i) PROVE RealInv'
  BY <1>4, <1>5
  DEF BgQuery, BgCompare, SameStore, orderVars, tradeVars, brokerVars
<1>6. ASSUME NEW s \in Account \X Symbol, OperatorFreesLease(s) PROVE RealInv'
  BY <1>4, <1>6
  DEF OperatorFreesLease, SameStore, procVars, orderVars, tradeVars, brokerVars
<1>7. ASSUME NEW c \in Cid, PendingAges(c) PROVE RealInv'
  BY <1>4, <1>7 DEF PendingAges, procVars, orderVars, brokerVars
<1>8. ASSUME NEW t \in Ticket, BrokerFill(t) \/ BrokerReject(t) \/ BrokerClose(t)
      PROVE  RealInv'
  BY <1>4, <1>8
  DEF BrokerFill, BrokerReject, BrokerClose, SameStore, procVars, orderVars, tradeVars
<1>9. ASSUME Tick PROVE RealInv'
  BY <1>4, <1>9 DEF Tick, SameStore, procVars, orderVars, tradeVars, brokerVars
<1> QED
  BY <1>1, <1>2, <1>3, <1>5, <1>6, <1>7, <1>8, <1>9

\* The strengthening of the saga's invariants that every step preserves.
IInv == TypeInv /\ SagaInv /\ RealInv

LEMMA IInvInit == Init => IInv
<1> SUFFICES ASSUME Init PROVE IInv
  OBVIOUS
<1>1. TypeInv
  BY TypeInvInit
<1>2. SagaInv
  BY DEF Init, SagaInv, Owns, Unsent, Journalled, NoTrace, WasSent,
         AtMostOneSubmission, JournaledBeforeBroker, InFlight, BeforeSend,
         AfterJournal
<1>3. RealInv
  BY DEF Init, RealInv, RowStage, FillStage, BookPromoted, ConfirmedIsReal,
         BeforeSend
<1> QED
  BY <1>1, <1>2, <1>3 DEF IInv

LEMMA IInvStep == IInv /\ [Next]_vars => IInv'
<1> SUFFICES ASSUME IInv, [Next]_vars PROVE IInv'
  OBVIOUS
<1>0. TypeInv /\ SagaInv /\ RealInv /\ BookPromoted
  BY DEF IInv, RealInv
<1>1. CASE UNCHANGED vars
  <2>1. SagaInv'
    BY <1>0, <1>1, SagaFrame
    DEF vars, procVars, orderVars, tradeVars, brokerVars, NoAdvance, NoNewRow,
        NoNewRequest
  <2>2. RealInv'
    BY <1>0, <1>1, RealFrame DEF vars, procVars, orderVars, tradeVars, brokerVars
  <2> QED
    BY <1>0, <2>1, <2>2, TypeInvStep DEF IInv
<1>2. CASE Next
  <2>1. SagaInv'
    BY <1>0, <1>2, StartSaga, PreflightSaga, SubmitSaga, FinalizeSaga, RestSaga
    DEF Next
  <2>2. RealInv'
    BY <1>0, <1>2, StartReal, PreflightReal, SubmitReal, FinalizeReal, ManageReal,
       RestReal DEF Next
  <2> QED
    BY <1>0, <2>1, <2>2, TypeInvStep DEF IInv
<1> QED
  BY <1>1, <1>2

LEMMA IInvariant == Spec => []IInv
BY IInvInit, IInvStep, PTL DEF Spec

\* Whatever the broker holds or works on has its order row, under the instance
\* that sent it, and its trade row.
THEOREM JournaledFirst == Spec => []JournaledBeforeBroker
BY IInvariant, PTL DEF IInv, SagaInv

\* No client order id is submitted twice.
THEOREM SubmittedOnce == Spec => []AtMostOneSubmission
BY IInvariant, PTL DEF IInv, SagaInv

\* Trades and orders are confirmed only for tickets the broker filled.
THEOREM Confirmed == Spec => []ConfirmedIsReal
BY IInvariant, PTL DEF IInv, RealInv

----------------------------------------------------------------------------
\* The execution lock.

\* Everything but acquiring, releasing and time leaves the lock table alone and
\* enters no section.
LEMMA LockFrame ==
  ASSUME TypeInv, LockInv, UNCHANGED <<lockOwner, lockAge>>,
         \A j \in Inst : pc'[j] \in Critical =>
           pc[j] \in Critical /\ holdAge'[j] = holdAge[j]
  PROVE  LockInv'
BY DEF LockInv

\* The main task goes where the section is not, or was in it already.
LEMMA GotoCritical ==
  ASSUME TypeInv, LockInv, NEW i \in Inst, NEW l \in Label, Goto(i, l),
         l \in Critical => pc[i] \in Critical, UNCHANGED lockVars
  PROVE  LockInv'
<1>1. \A j \in Inst : pc'[j] \in Critical => pc[j] \in Critical
  BY GotoPc
<1> QED
  BY <1>1, LockFrame DEF lockVars

LEMMA LockInvStep ==
  ASSUME TypeInv, LockInv, [Next]_vars PROVE LockInv'
<1> USE LabelDomain
<1>1. ASSUME NEW i \in Inst, Start(i) \/ StartStep(i) PROVE LockInv'
  <2>1. PICK l \in {"down", "recover", "startQuery", "startCompare", "lease", "idle"} :
          Goto(i, l)
    BY <1>1 DEF Start, StartStep, Recover, StartQuery, StartCompare, ClaimLease, Exit
  <2>2. l \in Label /\ l \notin Critical
    BY <2>1 DEF Critical
  <2>3. UNCHANGED lockVars
    BY <1>1 DEF Start, StartStep, Recover, StartQuery, StartCompare, ClaimLease
  <2> QED
    BY <2>1, <2>2, <2>3, GotoCritical
<1>2. ASSUME NEW i \in Inst,
             \/ Gate(i) \/ NoSignal(i) \/ LockBlocked(i) \/ Stop(i)
             \/ ReadOpenTrades(i) \/ EndCycle(i)
      PROVE  LockInv'
  <2>1. PICK l \in {"down", "cycle", "manage", "idle", "reposition"} : Goto(i, l)
    BY <1>2
    DEF Gate, NoSignal, LockBlocked, Stop, ReadOpenTrades, EndCycle, Exit
  <2>2. l \in Label /\ l \notin Critical
    BY <2>1 DEF Critical
  <2>3. UNCHANGED lockVars
    BY <1>2 DEF Gate, NoSignal, LockBlocked, Stop, ReadOpenTrades, EndCycle
  <2> QED
    BY <2>1, <2>2, <2>3, GotoCritical
<1>3. ASSUME NEW i \in Inst, CrossRisk(i) \/ PersistIntent(i) \/ Submit(i) PROVE LockInv'
  <2>1. pc[i] \in Critical /\ UNCHANGED lockVars
    BY <1>3
    DEF CrossRisk, PersistIntent, Submit, Approve, JournalFailed, WriteOrder,
        CreatePendingTrade, SendOrder, AwaitFilled, AwaitRejected, AwaitLost,
        Reply, From, Critical
  <2>2. PICK l \in {"intent", "release", "approve", "journal", "journalFailed",
                    "unwind", "send", "await", "markSent", "rejectTrade"} : Goto(i, l)
    BY <1>3
    DEF CrossRisk, PersistIntent, Submit, Approve, JournalFailed, WriteOrder,
        CreatePendingTrade, SendOrder, AwaitFilled, AwaitRejected, AwaitLost, Reply
  <2> QED
    BY <2>1, <2>2, GotoCritical
<1>4. ASSUME NEW i \in Inst,
             \/ MarkSent(i) \/ ConfirmTrade(i) \/ MarkFilled(i)
             \/ RejectTrade(i) \/ RejectOrder(i)
      PROVE  LockInv'
  <2>1. pc[i] \in Critical /\ UNCHANGED lockVars
    BY <1>4
    DEF MarkSent, ConfirmTrade, MarkFilled, RejectTrade, RejectOrder, WriteOrder,
        From, Critical
  <2>2. PICK l \in {"confirm", "unwind", "markFilled", "release", "rejectOrder"} :
          Goto(i, l)
    BY <1>4
    DEF MarkSent, ConfirmTrade, MarkFilled, RejectTrade, RejectOrder, WriteOrder
  <2> QED
    BY <2>1, <2>2, GotoCritical
<1>5. ASSUME NEW i \in Inst, NEW c \in Cid, AcquireLock(i, c) PROVE LockInv'
  <2>1. pc'[i] = "risk" /\ \A j \in Inst \ {i} : pc'[j] = pc[j]
    BY <1>5, GotoPc DEF AcquireLock
  <2>2. /\ SymOf[i] \in Symbol
        /\ lockOwner'[SymOf[i]] = i /\ lockAge'[SymOf[i]] = 0 /\ holdAge'[i] = 0
        /\ \A s \in Symbol \ {SymOf[i]} :
             lockOwner'[s] = lockOwner[s] /\ lockAge'[s] = lockAge[s]
        /\ \A j \in Inst \ {i} : holdAge'[j] = holdAge[j]
    BY <1>5, InstanceAssumption DEF AcquireLock, TypeInv, TypeOK, LockTypeOK
  <2>3. ASSUME NEW j \in Inst, j # i, pc'[j] \in Critical, holdAge'[j] <= TTL
        PROVE  SymOf[j] \in Symbol /\ SymOf[j] # SymOf[i]
    <3>1. /\ lockOwner[SymOf[j]] = j
          /\ lockAge[SymOf[j]] <= holdAge[j] /\ holdAge[j] <= TTL
      BY <2>1, <2>2, <2>3 DEF LockInv
    <3>2. lockOwner[SymOf[i]] = NoInst \/ lockAge[SymOf[i]] > TTL
      BY <1>5 DEF AcquireLock, LockFree
    <3>3. SymOf[j] \in Symbol /\ j # NoInst
      BY InstanceAssumption
    <3>4. lockAge[SymOf[j]] \in Nat /\ holdAge[j] \in Nat
      BY <3>3, BoundAssumption DEF TypeInv, TypeOK, LockTypeOK
    <3> QED
      BY <3>1, <3>2, <3>3, <3>4, BoundAssumption
  <2> QED
    BY <2>1, <2>2, <2>3, BoundAssumption DEF LockInv
<1>6. ASSUME NEW i \in Inst, Release(i) PROVE LockInv'
  <2>1. PICK l \in {"manage", "idle"} : Goto(i, l)
    BY <1>6 DEF Release
  <2>2. pc'[i] \notin Critical /\ \A j \in Inst \ {i} : pc'[j] = pc[j]
    BY <2>1, GotoPc DEF Critical
  <2>3. \A j \in Inst \ {i} : holdAge'[j] = holdAge[j]
    BY <1>6 DEF Release, TypeInv, TypeOK, LockTypeOK
  <2>4. \A s \in Symbol : lockOwner[s] # i =>
          lockOwner'[s] = lockOwner[s] /\ lockAge'[s] = lockAge[s]
    BY <1>6 DEF Release
  <2> QED
    BY <2>2, <2>3, <2>4, InstanceAssumption DEF LockInv
<1>7. ASSUME NEW i \in Inst, Crash(i) PROVE LockInv'
  <2>1. pc'[i] = "down" /\ \A j \in Inst \ {i} : pc'[j] = pc[j]
    BY <1>7, GotoPc DEF Crash, Exit
  <2>2. \A j \in Inst \ {i} : holdAge'[j] = holdAge[j]
    BY <1>7 DEF Crash, TypeInv, TypeOK, LockTypeOK
  <2>3. UNCHANGED <<lockOwner, lockAge>>
    BY <1>7 DEF Crash
  <2> QED
    BY <2>1, <2>2, <2>3, LockFrame DEF Critical
<1>8. ASSUME Tick PROVE LockInv'
  <2> SUFFICES ASSUME NEW j \in Inst, pc[j] \in Critical, holdAge'[j] <= TTL
               PROVE  /\ lockOwner[SymOf[j]] = j
                      /\ lockAge'[SymOf[j]] <= holdAge'[j]
    BY <1>8 DEF Tick, procVars, LockInv
  <2>1. SymOf[j] \in Symbol /\ j # NoInst
    BY InstanceAssumption
  <2>2. lockAge[SymOf[j]] \in Nat /\ holdAge[j] \in Nat /\ TTL \in Nat
    BY <2>1, BoundAssumption DEF TypeInv, TypeOK, LockTypeOK
  <2>3. holdAge'[j] = Older(holdAge[j])
    BY <1>8 DEF Tick
  <2>4. holdAge[j] <= TTL /\ holdAge'[j] = holdAge[j] + 1
    BY <2>2, <2>3 DEF Older
  <2>5. lockOwner[SymOf[j]] = j /\ lockAge[SymOf[j]] <= holdAge[j]
    BY <2>4 DEF LockInv
  <2>6. lockAge'[SymOf[j]] = Older(lockAge[SymOf[j]])
    BY <1>8, <2>1, <2>5 DEF Tick
  <2> QED
    BY <2>2, <2>4, <2>5, <2>6 DEF Older
<1>9. ASSUME UNCHANGED pc, UNCHANGED lockVars PROVE LockInv'
  BY <1>9, LockFrame DEF lockVars
<1>10. ASSUME NEW i \in Inst,
              BgQuery(i) \/ BgCompare(i) \/ \E c \in Cid : RepositionClose(i, c)
       PROVE  LockInv'
  BY <1>9, <1>10 DEF BgQuery, BgCompare, RepositionClose
<1>11. CASE \/ \E s \in Account \X Symbol : OperatorFreesLease(s)
            \/ \E c \in Cid : ManualClose(c) \/ PendingAges(c)
            \/ \E t \in Ticket : BrokerFill(t) \/ BrokerReject(t) \/ BrokerClose(t)
            \/ UNCHANGED vars
  BY <1>9, <1>11
  DEF OperatorFreesLease, ManualClose, PendingAges, BrokerFill, BrokerReject,
      BrokerClose, vars, procVars
<1> QED
  BY <1>1, <1>2, <1>3, <1>4, <1>5, <1>6, <1>7, <1>8, <1>10, <1>11
  DEF Next, Preflight, Finalize, Manage

LEMMA LockInvInit == Init => LockInv
BY DEF Init, LockInv, Critical

LEMMA LockInvariant == Spec => []LockInv
<1>1. TypeInv /\ LockInv /\ [Next]_vars => LockInv'
  BY LockInvStep
<1> QED
  BY <1>1, LockInvInit, TypeInvariant, PTL DEF Spec

\* The execution lock is its holder's for a whole TTL.
THEOREM LockHeld == Spec => []LockWithinTTL
<1>1. LockInv => LockWithinTTL
  BY DEF LockInv, LockWithinTTL
<1> QED
  BY <1>1, LockInvariant, PTL

----------------------------------------------------------------------------
\* The execution path implements the abstract order journal.

Intents == {c \in Cid : orderStatus[c] # "none"}
Journaled == {c \in Cid : tradeOutcome[c] # "none"}
Filled == {c \in Cid : \E t \in fills : t[2] = c}
PromotedIds == {c \in Cid : tradeOutcome[c] \in {"OPEN", "CLOSED"}}

\* A step that moves no row to another class is a stutter of the journal.
LEMMA Stutter ==
  ASSUME NoNewRow, sends' = sends, fills' = fills,
         \A c \in Cid : tradeOutcome'[c] \in Promoted <=> tradeOutcome[c] \in Promoted
  PROVE  UNCHANGED Journal!vars
<1>1. Intents' = Intents
  BY DEF Intents, NoNewRow
<1>2. Journaled' = Journaled
  BY DEF Journaled, NoNewRow
<1>3. PromotedIds' = PromotedIds
  BY DEF PromotedIds, Promoted
<1> QED
  BY <1>1, <1>2, <1>3 DEF Journal!vars, Intents, Journaled, PromotedIds

LEMMA StutterStore ==
  ASSUME SameStore, sends' = sends, fills' = fills
  PROVE  UNCHANGED Journal!vars
BY Stutter, SameStoreNoNewRow DEF SameStore, tradeVars

\* A write of an order row that exists.
LEMMA StutterOrder ==
  ASSUME IInv, NEW i \in Inst, pc[i] \in InFlight,
         NEW s \in OrderStatus \ {"none"},
         orderStatus' = orderStatus \/ SetOrder(cur[i], s),
         UNCHANGED <<orderInst, tradeVars, brokerVars>>
  PROVE  UNCHANGED Journal!vars
<1>1. cur[i] \in Cid /\ orderStatus[cur[i]] # "none"
  BY CurHeld DEF IInv, SagaInv, Owns
<1>2. NoNewRow
  BY <1>1 DEF SetOrder, NoNewRow, IInv, TypeInv, TypeOK, OrderTypeOK, tradeVars
<1> QED
  BY <1>2, Stutter DEF tradeVars, brokerVars

LEMMA JournalInit == Init => Journal!Init
BY DEF Init, Journal!Init

LEMMA JournalStep == IInv /\ [Next]_vars => [Journal!Next]_(Journal!vars)
<1> SUFFICES ASSUME IInv, [Next]_vars PROVE Journal!Next \/ UNCHANGED Journal!vars
  BY DEF Journal!vars
<1>0. TypeInv /\ SagaInv /\ RealInv
  BY DEF IInv
<1>1. ASSUME NEW i \in Inst,
             \/ Start(i) \/ StartStep(i) \/ Gate(i) \/ NoSignal(i)
             \/ LockBlocked(i) \/ CrossRisk(i) \/ \E c \in Cid : AcquireLock(i, c)
             \/ AwaitFilled(i) \/ AwaitRejected(i) \/ AwaitLost(i) \/ Release(i)
             \/ ReadOpenTrades(i) \/ \E c \in Cid : RepositionClose(i, c)
             \/ BgQuery(i) \/ BgCompare(i) \/ Crash(i) \/ Stop(i)
      PROVE  UNCHANGED Journal!vars
  <2>1. SameStore /\ sends' = sends /\ fills' = fills
    BY <1>1
    DEF Start, StartStep, Recover, StartQuery, StartCompare, ClaimLease, Gate,
        NoSignal, LockBlocked, CrossRisk, AcquireLock, AwaitFilled,
        AwaitRejected, AwaitLost, Reply, Release, ReadOpenTrades,
        RepositionClose, BgQuery, BgCompare, Crash, Stop, brokerVars
  <2> QED
    BY <2>1, StutterStore
<1>2. ASSUME NEW i \in Inst, PersistIntent(i)
      PROVE  Journal!Next \/ UNCHANGED Journal!vars
  <2>0. /\ cur[i] \in Cid /\ tradeOutcome' = tradeOutcome
        /\ sends' = sends /\ fills' = fills
    BY <1>0, <1>2
    DEF PersistIntent, From, Critical, TypeInv, CidHeld, tradeVars, brokerVars
  <2>1. CASE UNCHANGED <<orderStatus, orderInst>>
    BY <2>0, <2>1, Stutter DEF NoNewRow
  <2>2. CASE ~UNCHANGED <<orderStatus, orderInst>>
    <3>1. /\ orderStatus[cur[i]] = "none"
          /\ orderStatus' = [orderStatus EXCEPT ![cur[i]] = "PENDING"]
      BY <1>2, <2>2 DEF PersistIntent, SetOrder
    <3>2. Intents' = Intents \cup {cur[i]} /\ cur[i] \notin Intents
      BY <1>0, <2>0, <3>1 DEF Intents, TypeInv, TypeOK, OrderTypeOK
    <3>3. UNCHANGED <<Journaled, sends, Filled, PromotedIds>>
      BY <2>0 DEF Journaled, Filled, PromotedIds
    <3>4. PICK c \in Cid : c = cur[i]
      BY <2>0
    <3>5. Journal!Intend(c)
      BY <3>2, <3>3, <3>4
      DEF Journal!Intend, Intents, Journaled, Filled, PromotedIds
    <3> QED
      BY <3>5 DEF Journal!Next
  <2> QED
    BY <2>1, <2>2
<1>3. ASSUME NEW i \in Inst,
             Approve(i) \/ JournalFailed(i) \/ MarkFilled(i) \/ RejectOrder(i) \/ MarkSent(i)
      PROVE  UNCHANGED Journal!vars
  <2>1. pc[i] \in InFlight
    BY <1>3
    DEF Approve, JournalFailed, MarkFilled, RejectOrder, MarkSent, From, InFlight
  <2>2. PICK s \in {"APPROVED", "FAILED", "FILLED", "REJECTED", "SENT"} :
          orderStatus' = orderStatus \/ SetOrder(cur[i], s)
    BY <1>3
    DEF Approve, JournalFailed, MarkFilled, RejectOrder, MarkSent, WriteOrder
  <2>3. UNCHANGED <<orderInst, tradeVars, brokerVars>>
    BY <1>3
    DEF Approve, JournalFailed, MarkFilled, RejectOrder, MarkSent, WriteOrder
  <2> QED
    BY <2>1, <2>2, <2>3, LabelDomain, StutterOrder
<1>4. ASSUME NEW i \in Inst, CreatePendingTrade(i)
      PROVE  Journal!Next \/ UNCHANGED Journal!vars
  <2>0. /\ pc[i] = "journal" /\ pc[i] \in InFlight /\ pc[i] \in BeforeSend \ {"send"}
        /\ orderStatus' = orderStatus /\ orderInst' = orderInst
        /\ sends' = sends /\ fills' = fills
    BY <1>4
    DEF CreatePendingTrade, From, InFlight, BeforeSend, orderVars, brokerVars
  <2>1. /\ cur[i] \in Cid /\ orderStatus[cur[i]] # "none"
        /\ tradeOutcome[cur[i]] = "none"
    BY <1>0, <2>0, CurHeld DEF SagaInv, Owns, RealInv, RowStage
  <2>2. CASE tradeOutcome' = tradeOutcome
    BY <2>0, <2>2, Stutter DEF NoNewRow
  <2>3. CASE tradeOutcome' # tradeOutcome
    <3>1. tradeOutcome' = [tradeOutcome EXCEPT ![cur[i]] = "PENDING"]
      BY <1>4, <2>3 DEF CreatePendingTrade, SetTrade
    <3>2. /\ Journaled' = Journaled \cup {cur[i]}
          /\ cur[i] \in Intents \ Journaled /\ PromotedIds' = PromotedIds
      BY <1>0, <2>1, <3>1
      DEF Journaled, Intents, PromotedIds, TypeInv, TypeOK, TradeTypeOK
    <3>3. UNCHANGED <<Intents, sends, Filled>>
      BY <2>0 DEF Intents, Filled
    <3>4. PICK c \in Cid : c = cur[i]
      BY <2>1
    <3>5. Journal!Journal(c)
      BY <3>2, <3>3, <3>4
      DEF Journal!Journal, Intents, Journaled, Filled, PromotedIds
    <3> QED
      BY <3>5 DEF Journal!Next
  <2> QED
    BY <2>2, <2>3
<1>5. ASSUME NEW i \in Inst, SendOrder(i)
      PROVE  Journal!Next \/ UNCHANGED Journal!vars
  <2>0. /\ pc[i] = "send" /\ pc[i] \in InFlight /\ pc[i] \in BeforeSend
        /\ pc[i] \in AfterJournal
        /\ orderStatus' = orderStatus /\ tradeOutcome' = tradeOutcome
        /\ fills' = fills /\ SameStore
    BY <1>5
    DEF SendOrder, From, InFlight, BeforeSend, AfterJournal, SameStore, orderVars,
        tradeVars
  <2>1. cur[i] \in Cid /\ tradeOutcome[cur[i]] # "none" /\ sends[cur[i]] = 0
    BY <1>0, <2>0, CurHeld DEF SagaInv, Journalled, Unsent
  <2>2. CASE sends' = sends
    BY <2>0, <2>2, StutterStore
  <2>3. CASE sends' # sends
    <3>1. sends' = [sends EXCEPT ![cur[i]] = 1]
      BY <1>5, <2>1, <2>3 DEF SendOrder
    <3>2. Journal!Submit(cur[i])
      BY <2>0, <2>1, <3>1 DEF Journal!Submit
    <3> QED
      BY <2>1, <3>2 DEF Journal!Next
  <2> QED
    BY <2>2, <2>3
<1>6. ASSUME NEW i \in Inst, ConfirmTrade(i)
      PROVE  Journal!Next \/ UNCHANGED Journal!vars
  <2>0. /\ pc[i] = "confirm" /\ pc[i] \in InFlight
        /\ orderStatus' = orderStatus /\ orderInst' = orderInst
        /\ sends' = sends /\ fills' = fills
    BY <1>6 DEF ConfirmTrade, From, InFlight, orderVars, brokerVars
  <2>1. /\ cur[i] \in Cid /\ <<i, cur[i]>> \in fills
        /\ tradeOutcome[cur[i]] = "PENDING"
    BY <1>0, <2>0, CurHeld DEF RealInv, RowStage, FillStage
  <2>2. CASE tradeOutcome' = tradeOutcome
    BY <2>0, <2>2, Stutter DEF NoNewRow
  <2>3. CASE tradeOutcome' # tradeOutcome
    <3>1. tradeOutcome' = [tradeOutcome EXCEPT ![cur[i]] = "OPEN"]
      BY <1>6, <2>3 DEF ConfirmTrade, SetTrade
    <3>2. /\ PromotedIds' = PromotedIds \cup {cur[i]}
          /\ Journaled' = Journaled
      BY <1>0, <2>1, <3>1
      DEF Journaled, PromotedIds, TypeInv, TypeOK, TradeTypeOK
    <3>3. cur[i] \in Filled
      BY <2>1 DEF Filled
    <3>4. UNCHANGED <<Intents, sends, Filled>>
      BY <2>0 DEF Intents, Filled
    <3>5. PICK c \in Cid : c = cur[i]
      BY <2>1
    <3>6. Journal!Promote(c)
      BY <3>2, <3>3, <3>4, <3>5
      DEF Journal!Promote, Intents, Journaled, Filled, PromotedIds
    <3> QED
      BY <3>6 DEF Journal!Next
  <2> QED
    BY <2>2, <2>3
<1>7. ASSUME NEW i \in Inst, RejectTrade(i) PROVE UNCHANGED Journal!vars
  <2>1. pc[i] = "rejectTrade" /\ pc[i] \in InFlight
    BY <1>7 DEF RejectTrade, From, InFlight
  <2>2. cur[i] \in Cid /\ tradeOutcome[cur[i]] = "PENDING"
    BY <1>0, <2>1, CurHeld DEF RealInv, RowStage
  <2>3. \A c \in Cid : \/ tradeOutcome'[c] = tradeOutcome[c]
                       \/ tradeOutcome[c] = "PENDING" /\ tradeOutcome'[c] = "REJECTED"
    BY <1>0, <1>7, <2>2 DEF RejectTrade, SetTrade, TypeInv, TypeOK, TradeTypeOK
  <2> QED
    BY <1>7, <2>3, Stutter
    DEF RejectTrade, NoNewRow, Promoted, orderVars, brokerVars
<1>8. ASSUME (\E i \in Inst : EndCycle(i)) \/ (\E c \in Cid : ManualClose(c) \/ PendingAges(c))
      PROVE  UNCHANGED Journal!vars
  <2>1. \A c \in Cid : \/ tradeOutcome'[c] = tradeOutcome[c]
                       \/ tradeOutcome[c] \in Promoted /\ tradeOutcome'[c] = "CLOSED"
    BY <1>0, <1>8
    DEF EndCycle, ManualClose, PendingAges, SetTrade, RealInv, BookPromoted,
        Promoted, TypeInv, TypeOK, TradeTypeOK
  <2>2. orderStatus' = orderStatus /\ orderInst' = orderInst
        /\ sends' = sends /\ fills' = fills
    BY <1>8 DEF EndCycle, ManualClose, PendingAges, orderVars, brokerVars
  <2> QED
    BY <2>1, <2>2, Stutter DEF NoNewRow, Promoted
<1>9. ASSUME NEW t \in Ticket, BrokerFill(t)
      PROVE  Journal!Next \/ UNCHANGED Journal!vars
  <2>1. /\ t \in requests /\ fills' = fills \cup {t} /\ sends' = sends
        /\ orderStatus' = orderStatus /\ tradeOutcome' = tradeOutcome
    BY <1>9 DEF BrokerFill, SameStore, orderVars, tradeVars
  <2>2. t[2] \in Cid /\ sends[t[2]] = 1
    BY <1>0, <2>1, TicketId DEF SagaInv, WasSent
  <2>3. Filled' = Filled \cup {t[2]}
    BY <2>1, <2>2 DEF Filled
  <2>4. Journal!Fill(t[2])
    BY <2>1, <2>2, <2>3 DEF Journal!Fill, Filled
  <2> QED
    BY <2>2, <2>4 DEF Journal!Next
<1>10. CASE \/ \E s \in Account \X Symbol : OperatorFreesLease(s)
            \/ \E t \in Ticket : BrokerReject(t) \/ BrokerClose(t)
            \/ Tick
  <2>1. SameStore /\ sends' = sends /\ fills' = fills
    BY <1>10 DEF OperatorFreesLease, BrokerReject, BrokerClose, Tick, brokerVars
  <2> QED
    BY <2>1, StutterStore
<1>11. CASE UNCHANGED vars
  BY <1>11, StutterStore DEF vars, SameStore, brokerVars
<1> QED
  BY <1>1, <1>2, <1>3, <1>4, <1>5, <1>6, <1>7, <1>8, <1>9, <1>10, <1>11
  DEF Next, Preflight, Submit, Finalize, Manage

\* Every behaviour of the execution path, seen through its tables and the
\* broker, is a behaviour of the abstract order journal.
THEOREM ImplementsJournal == Spec => JournalSpec
<1>1. IInv /\ [Next]_vars => [Journal!Next]_(Journal!vars)
  BY JournalStep
<1> QED
  BY <1>1, JournalInit, IInvariant, PTL DEF Spec, JournalSpec, Journal!Spec

----------------------------------------------------------------------------
\* No fill is forgotten, as long as order_send reports what the broker did.

\* An order row is non-terminal until the call has written its last word.
StatusStage == \A i \in Inst : pc[i] \in InFlight => orderStatus[cur[i]] \in NonTerminal
\* A call that reports a rejection has nothing left at the broker.
RejectedIsGone ==
  \A i \in Inst : pc[i] \in {"rejectTrade", "rejectOrder"} =>
    <<i, cur[i]>> \notin requests \cup fills
\* A request or a fill is on a promoted trade or on an order recovery looks at.
Remembered ==
  \A t \in requests \cup fills :
    tradeOutcome[t[2]] \in Promoted \/ orderStatus[t[2]] \in NonTerminal

ForgetInv == StatusStage /\ RejectedIsGone /\ Remembered

LEMMA ForgetFrame ==
  ASSUME TypeInv, ForgetInv, orderStatus' = orderStatus,
         requests' \cup fills' \subseteq requests \cup fills,
         \A c \in Cid : tradeOutcome[c] \in Promoted => tradeOutcome'[c] \in Promoted,
         \A j \in Inst : pc'[j] \in InFlight =>
           /\ pc[j] \in InFlight
           /\ cur'[j] = cur[j]
           /\ pc'[j] \in {"rejectTrade", "rejectOrder"} =>
                \/ pc[j] \in {"rejectTrade", "rejectOrder"}
                \/ <<j, cur[j]>> \notin requests \cup fills
  PROVE  ForgetInv'
<1>1. StatusStage'
  BY DEF ForgetInv, StatusStage
<1>2. RejectedIsGone'
  <2> SUFFICES ASSUME NEW j \in Inst, pc'[j] \in {"rejectTrade", "rejectOrder"}
               PROVE  <<j, cur'[j]>> \notin requests' \cup fills'
    BY DEF RejectedIsGone
  <2>1. pc'[j] \in InFlight
    BY DEF InFlight
  <2> QED
    BY <2>1 DEF ForgetInv, RejectedIsGone
<1>3. Remembered'
  BY TicketId DEF ForgetInv, Remembered
<1> QED
  BY <1>1, <1>2, <1>3 DEF ForgetInv

\* A write of the order row of the id in flight.
LEMMA ForgetWrite ==
  ASSUME IInv, ForgetInv, NEW i \in Inst, pc[i] \in InFlight,
         NEW s \in OrderStatus, NEW l \in Label, Goto(i, l), UNCHANGED cur,
         SetOrder(cur[i], s),
         UNCHANGED <<tradeOutcome, requests, fills>>,
         l \notin {"rejectTrade", "rejectOrder"},
         l \in InFlight => s \in NonTerminal,
         \/ s \in NonTerminal
         \/ tradeOutcome[cur[i]] \in Promoted
         \/ <<i, cur[i]>> \notin requests \cup fills
  PROVE  ForgetInv'
<1>0. TypeInv /\ SagaInv
  BY DEF IInv
<1>1. pc'[i] = l /\ \A j \in Inst \ {i} : pc'[j] = pc[j]
  BY <1>0, GotoPc
<1>2. /\ orderStatus'[cur[i]] = s
      /\ \A c \in Cid \ {cur[i]} : orderStatus'[c] = orderStatus[c]
  BY <1>0, CurHeld DEF SetOrder, TypeInv, TypeOK, OrderTypeOK
<1>3. StatusStage'
  BY <1>0, <1>1, <1>2, Exclusive DEF ForgetInv, StatusStage
<1>4. RejectedIsGone'
  BY <1>1 DEF ForgetInv, RejectedIsGone
<1>5. Remembered'
  <2> SUFFICES ASSUME NEW t \in requests \cup fills
               PROVE  tradeOutcome[t[2]] \in Promoted \/ orderStatus'[t[2]] \in NonTerminal
    BY DEF Remembered
  <2>1. t[1] \in Inst /\ t[2] \in Cid /\ t = <<t[1], t[2]>>
    BY <1>0, TicketId
  <2>2. CASE t[2] = cur[i]
    <3>1. t[1] = i
      BY <1>0, <2>1, <2>2 DEF SagaInv, JournaledBeforeBroker, Owns
    <3> QED
      BY <1>2, <2>1, <2>2, <3>1
  <2>3. CASE t[2] # cur[i]
    BY <1>2, <2>1, <2>3 DEF ForgetInv, Remembered
  <2> QED
    BY <2>2, <2>3
<1> QED
  BY <1>3, <1>4, <1>5 DEF ForgetInv

\* A task that leaves the call, or was not in one.
LEMMA ForgetLeave ==
  ASSUME TypeInv, ForgetInv, NEW i \in Inst, NEW l \in Label \ InFlight, Goto(i, l),
         \A j \in Inst \ {i} : cur'[j] = cur[j],
         UNCHANGED <<orderStatus, requests, fills>>,
         \A c \in Cid : tradeOutcome[c] \in Promoted => tradeOutcome'[c] \in Promoted
  PROVE  ForgetInv'
<1>1. pc'[i] = l /\ \A j \in Inst \ {i} : pc'[j] = pc[j]
  BY GotoPc
<1> QED
  BY <1>1, ForgetFrame

LEMMA ForgetCall ==
  ASSUME ~ReplyLost, IInv, ForgetInv, NEW i \in Inst,
         Preflight(i) \/ Submit(i) \/ Finalize(i)
  PROVE  ForgetInv'
<1> USE LabelDomain
<1>0. TypeInv /\ SagaInv /\ RealInv
  BY DEF IInv
<1>a. /\ {"risk", "manage", "intent", "release", "unwind", "idle"} \subseteq Label \ InFlight
      /\ {"PENDING", "APPROVED", "SENT"} \subseteq NonTerminal
  BY DEF InFlight, NonTerminal
<1>1. ASSUME NEW c \in Cid, AcquireLock(i, c) PROVE ForgetInv'
  <2>1. Goto(i, "risk") /\ \A j \in Inst \ {i} : cur'[j] = cur[j]
    BY <1>0, <1>1 DEF AcquireLock, TypeInv, TypeOK, ProcTypeOK
  <2> QED
    BY <1>0, <1>a, <1>1, <2>1, ForgetLeave
    DEF AcquireLock, SameStore, orderVars, tradeVars, brokerVars
<1>2. CASE LockBlocked(i) \/ CrossRisk(i)
  <2>1. PICK l \in {"manage", "intent", "release"} : Goto(i, l)
    BY <1>2 DEF LockBlocked, CrossRisk
  <2> QED
    BY <1>0, <1>a, <1>2, <2>1, ForgetLeave
    DEF LockBlocked, CrossRisk, OnlyPc, SameStore, orderVars, tradeVars, brokerVars
<1>3. CASE PersistIntent(i)
  <2>0. /\ cur[i] \in Cid /\ cur' = cur /\ tradeOutcome' = tradeOutcome
        /\ requests' = requests /\ fills' = fills
    BY <1>0, <1>3
    DEF PersistIntent, From, OnlyPc, tradeVars, brokerVars, Critical, TypeInv, CidHeld
  <2>1. CASE Goto(i, "release")
    <3>1. orderStatus' = orderStatus
      BY <1>0, <1>3, <2>1 DEF PersistIntent, Goto, TypeInv, TypeOK, ProcTypeOK
    <3> QED
      BY <1>0, <1>a, <2>0, <2>1, <3>1, ForgetLeave
  <2>2. CASE ~Goto(i, "release")
    <3>1. /\ Goto(i, "approve")
          /\ orderStatus[cur[i]] = "none"
          /\ orderStatus' = [orderStatus EXCEPT ![cur[i]] = "PENDING"]
      BY <1>3, <2>2 DEF PersistIntent, SetOrder
    <3>2. pc'[i] = "approve" /\ \A j \in Inst \ {i} : pc'[j] = pc[j]
      BY <1>0, <3>1, GotoPc
    <3>3. /\ orderStatus'[cur[i]] \in NonTerminal
          /\ \A c \in Cid \ {cur[i]} : orderStatus'[c] = orderStatus[c]
      BY <1>0, <1>a, <2>0, <3>1 DEF TypeInv, TypeOK, OrderTypeOK
    <3>4. \A j \in Inst : pc[j] \in InFlight => cur[j] \in Cid
      BY <1>0, CurHeld
    <3>5. StatusStage'
      BY <2>0, <3>2, <3>3, <3>4 DEF ForgetInv, StatusStage
    <3>6. RejectedIsGone'
      BY <2>0, <3>2 DEF ForgetInv, RejectedIsGone
    <3>7. Remembered'
      BY <1>0, <2>0, <3>3, TicketId DEF ForgetInv, Remembered
    <3> QED
      BY <3>5, <3>6, <3>7 DEF ForgetInv
  <2> QED
    BY <2>1, <2>2
<1>4. ASSUME NEW s \in OrderStatus, NEW l \in Label, WriteOrder(i, s, l),
             pc[i] \in InFlight, l \notin {"rejectTrade", "rejectOrder"},
             l \in InFlight => s \in NonTerminal,
             \/ s \in NonTerminal
             \/ tradeOutcome[cur[i]] \in Promoted
             \/ <<i, cur[i]>> \notin requests \cup fills
      PROVE  ForgetInv'
  <2>1. /\ cur' = cur /\ tradeOutcome' = tradeOutcome
        /\ requests' = requests /\ fills' = fills
    BY <1>4 DEF WriteOrder, OnlyPc, tradeVars, brokerVars
  <2>2. CASE Goto(i, "unwind") /\ UNCHANGED orderStatus
    BY <1>0, <1>a, <2>1, <2>2, ForgetLeave
  <2>3. CASE Goto(i, l) /\ SetOrder(cur[i], s)
    BY <1>4, <2>1, <2>3, ForgetWrite
  <2> QED
    BY <1>4, <2>2, <2>3 DEF WriteOrder
<1>5. CASE Approve(i)
  <2>1. pc[i] \in InFlight
    BY <1>5 DEF Approve, From, InFlight
  <2> QED
    BY <1>a, <1>4, <1>5, <2>1 DEF Approve
<1>6. CASE JournalFailed(i)
  <2>1. pc[i] \in InFlight /\ pc[i] \in BeforeSend
    BY <1>6 DEF JournalFailed, From, InFlight, BeforeSend
  <2>2. <<i, cur[i]>> \notin requests \cup fills
    BY <1>0, <2>1 DEF SagaInv, Unsent, WasSent
  <2> QED
    BY <1>a, <1>4, <1>6, <2>1, <2>2 DEF JournalFailed
<1>7. CASE MarkFilled(i)
  <2>1. pc[i] \in InFlight /\ tradeOutcome[cur[i]] \in Promoted
    BY <1>0, <1>7 DEF MarkFilled, From, InFlight, RealInv, RowStage, Promoted
  <2> QED
    BY <1>a, <1>4, <1>7, <2>1 DEF MarkFilled
<1>8. CASE RejectOrder(i)
  <2>1. pc[i] \in InFlight /\ <<i, cur[i]>> \notin requests \cup fills
    BY <1>8 DEF RejectOrder, From, InFlight, ForgetInv, RejectedIsGone
  <2> QED
    BY <1>a, <1>4, <1>8, <2>1 DEF RejectOrder
<1>9. CASE MarkSent(i)
  <2>1. /\ pc[i] \in InFlight /\ cur' = cur /\ tradeOutcome' = tradeOutcome
        /\ requests' = requests /\ fills' = fills
    BY <1>9 DEF MarkSent, From, InFlight, OnlyPc, tradeVars, brokerVars
  <2>2. CASE Goto(i, "unwind") /\ UNCHANGED orderStatus
    BY <1>0, <1>a, <2>1, <2>2, ForgetLeave
  <2>3. CASE Goto(i, "confirm") /\ SetOrder(cur[i], "SENT")
    BY <1>a, <2>1, <2>3, ForgetWrite
  <2> QED
    BY <1>9, <2>2, <2>3 DEF MarkSent
<1>10. CASE \/ CreatePendingTrade(i) \/ ConfirmTrade(i) \/ RejectTrade(i)
            \/ AwaitFilled(i) \/ AwaitRejected(i)
  <2>1. /\ pc[i] \in InFlight /\ cur' = cur /\ orderStatus' = orderStatus
        /\ requests' = requests /\ fills' = fills
    BY <1>10
    DEF CreatePendingTrade, ConfirmTrade, RejectTrade, AwaitFilled, AwaitRejected,
        Reply, From, InFlight, OnlyPc, SameStore, orderVars, brokerVars
  <2>2. PICK l \in {"send", "journalFailed", "markFilled", "unwind", "rejectOrder",
                    "markSent", "rejectTrade"} :
          /\ Goto(i, l)
          /\ l \in {"rejectTrade", "rejectOrder"} =>
               \/ pc[i] = "rejectTrade"
               \/ <<i, cur[i]>> \notin requests \cup fills
    BY <1>10
    DEF CreatePendingTrade, ConfirmTrade, RejectTrade, AwaitFilled, AwaitRejected,
        Reply, From
  <2>3. pc'[i] = l /\ \A j \in Inst \ {i} : pc'[j] = pc[j]
    BY <1>0, <2>2, GotoPc
  <2>4. cur[i] \in Cid /\ (~ConfirmTrade(i) => tradeOutcome[cur[i]] \notin Promoted
                           \/ tradeOutcome' = tradeOutcome)
    BY <1>0, <1>10, <2>1, CurHeld
    DEF CreatePendingTrade, RejectTrade, AwaitFilled, AwaitRejected, Reply, From,
        SameStore, tradeVars, RealInv, RowStage, BeforeSend, Promoted
  <2>5. \A c \in Cid : tradeOutcome[c] \in Promoted => tradeOutcome'[c] \in Promoted
    BY <1>0, <1>10, <2>4
    DEF CreatePendingTrade, ConfirmTrade, RejectTrade, AwaitFilled, AwaitRejected,
        Reply, SameStore, tradeVars, SetTrade, Promoted, TypeInv, TypeOK, TradeTypeOK
  <2> QED
    BY <1>0, <2>1, <2>2, <2>3, <2>5, ForgetFrame
<1>11. CASE SendOrder(i)
  <2>1. /\ pc[i] = "send" /\ pc[i] \in InFlight /\ pc[i] \in BeforeSend
        /\ cur' = cur /\ fills' = fills
        /\ orderStatus' = orderStatus /\ tradeOutcome' = tradeOutcome
    BY <1>11
    DEF SendOrder, From, InFlight, BeforeSend, OnlyPc, SameStore, orderVars, tradeVars
  <2>2. /\ cur[i] \in Cid /\ orderStatus[cur[i]] \in NonTerminal
        /\ <<i, cur[i]>> \notin requests \cup fills
    BY <1>0, <2>1, CurHeld DEF ForgetInv, StatusStage, SagaInv, Unsent, WasSent
  <2>3. PICK l \in {"rejectTrade", "await"} : Goto(i, l)
    BY <1>11 DEF SendOrder
  <2>4. pc'[i] = l /\ \A j \in Inst \ {i} : pc'[j] = pc[j]
    BY <1>0, <2>3, GotoPc
  <2>5. CASE requests' = requests
    BY <1>0, <2>1, <2>2, <2>4, <2>5, ForgetFrame
  <2>6. CASE requests' = requests \cup {<<i, cur[i]>>} /\ l = "await"
    <3>1. StatusStage'
      BY <2>1, <2>2, <2>4, <2>6 DEF ForgetInv, StatusStage, InFlight
    <3>2. \A j \in Inst \ {i} : <<j, cur[j]>> # <<i, cur[i]>>
      OBVIOUS
    <3>3. RejectedIsGone'
      BY <2>1, <2>4, <2>6, <3>2 DEF ForgetInv, RejectedIsGone
    <3>4. Remembered'
      BY <2>1, <2>2, <2>6 DEF ForgetInv, Remembered
    <3> QED
      BY <3>1, <3>3, <3>4 DEF ForgetInv
  <2>7. Goto(i, "await") => l = "await"
    BY <1>0, <2>4, GotoPc
  <2> QED
    BY <1>11, <2>3, <2>4, <2>5, <2>6, <2>7 DEF SendOrder
<1>12. CASE Release(i)
  <2>1. PICK l \in {"manage", "idle"} : Goto(i, l)
    BY <1>12 DEF Release
  <2>2. \A j \in Inst \ {i} : cur'[j] = cur[j]
    BY <1>0, <1>12 DEF Release, TypeInv, TypeOK, ProcTypeOK
  <2> QED
    BY <1>0, <1>a, <1>12, <2>1, <2>2, ForgetLeave
    DEF Release, SameStore, orderVars, tradeVars, brokerVars
<1>13. ~AwaitLost(i)
  BY DEF AwaitLost
<1> QED
  BY <1>1, <1>2, <1>3, <1>5, <1>6, <1>7, <1>8, <1>9, <1>10, <1>11, <1>12, <1>13
  DEF Preflight, Submit, Finalize

LEMMA ForgetStep ==
  ASSUME ~ReplyLost, IInv, ForgetInv, [Next]_vars PROVE ForgetInv'
<1> USE LabelDomain
<1>0. TypeInv /\ SagaInv /\ RealInv
  BY DEF IInv
<1>a. \A l \in {"down", "recover", "startQuery", "startCompare", "lease", "idle",
                "cycle", "manage", "reposition"} : l \in Label \ InFlight
  BY DEF InFlight
<1>1. ASSUME NEW i \in Inst,
             \/ Start(i) \/ StartStep(i) \/ Gate(i) \/ NoSignal(i)
             \/ ReadOpenTrades(i) \/ EndCycle(i) \/ Crash(i) \/ Stop(i)
      PROVE  ForgetInv'
  <2>1. PICK l \in {"down", "recover", "startQuery", "startCompare", "lease", "idle",
                    "cycle", "manage", "reposition"} : Goto(i, l)
    BY <1>1
    DEF Start, StartStep, Recover, StartQuery, StartCompare, ClaimLease, Gate,
        NoSignal, ReadOpenTrades, EndCycle, Crash, Stop, Exit
  <2>2. \A j \in Inst \ {i} : cur'[j] = cur[j]
    BY <1>0, <1>1
    DEF Start, StartStep, Recover, StartQuery, StartCompare, ClaimLease, Gate,
        NoSignal, ReadOpenTrades, EndCycle, Crash, Stop, Exit, OnlyPc, TypeInv,
        TypeOK, ProcTypeOK
  <2>3. UNCHANGED <<orderStatus, requests, fills>>
    BY <1>1
    DEF Start, StartStep, Recover, StartQuery, StartCompare, ClaimLease, Gate,
        NoSignal, ReadOpenTrades, EndCycle, Crash, Stop, SameStore, orderVars,
        brokerVars
  <2>4. \A c \in Cid : tradeOutcome[c] \in Promoted => tradeOutcome'[c] \in Promoted
    BY <1>1
    DEF Start, StartStep, Recover, StartQuery, StartCompare, ClaimLease, Gate,
        NoSignal, ReadOpenTrades, EndCycle, Crash, Stop, SameStore, tradeVars,
        Promoted
  <2> QED
    BY <1>0, <1>a, <2>1, <2>2, <2>3, <2>4, ForgetLeave
<1>2. ASSUME UNCHANGED <<pc, cur, orderStatus>>,
             requests' \cup fills' \subseteq requests \cup fills,
             \A c \in Cid : tradeOutcome[c] \in Promoted => tradeOutcome'[c] \in Promoted
      PROVE  ForgetInv'
  BY <1>0, <1>2, ForgetFrame
<1>3. ASSUME NEW i \in Inst,
             BgQuery(i) \/ BgCompare(i) \/ \E c \in Cid : RepositionClose(i, c)
      PROVE  ForgetInv'
  BY <1>2, <1>3
  DEF BgQuery, BgCompare, RepositionClose, SameStore, orderVars, tradeVars, brokerVars
<1>4. ASSUME NEW c \in Cid, ManualClose(c) \/ PendingAges(c) PROVE ForgetInv'
  <2>1. \A d \in Cid : tradeOutcome[d] \in Promoted => tradeOutcome'[d] \in Promoted
    BY <1>0, <1>4
    DEF ManualClose, PendingAges, SetTrade, Promoted, TypeInv, TypeOK, TradeTypeOK
  <2> QED
    BY <1>2, <1>4, <2>1 DEF ManualClose, PendingAges, procVars, orderVars, brokerVars
<1>5. ASSUME NEW t \in Ticket, BrokerFill(t) \/ BrokerReject(t) \/ BrokerClose(t)
      PROVE  ForgetInv'
  BY <1>2, <1>5
  DEF BrokerFill, BrokerReject, BrokerClose, SameStore, procVars, orderVars, tradeVars
<1>6. CASE (\E s \in Account \X Symbol : OperatorFreesLease(s)) \/ Tick \/ UNCHANGED vars
  BY <1>2, <1>6
  DEF OperatorFreesLease, Tick, SameStore, vars, procVars, orderVars, tradeVars,
      brokerVars
<1> QED
  BY <1>1, <1>3, <1>4, <1>5, <1>6, ForgetCall DEF Next, Manage

LEMMA ForgetInit == Init => ForgetInv
BY DEF Init, ForgetInv, StatusStage, RejectedIsGone, Remembered, InFlight

\* As long as order_send reports what the broker did, no combination of failed
\* writes, crashes and restarts ends with a fill and a closed book.
THEOREM FillRemembered ==
  ASSUME ~ReplyLost PROVE Spec => []NoFillForgotten
<1>1. ForgetInv => NoFillForgotten
  BY DEF ForgetInv, Remembered, NoFillForgotten, Promoted
<1>2. IInv /\ ForgetInv /\ [Next]_vars => ForgetInv'
  BY ForgetStep
<1> QED
  BY <1>1, <1>2, ForgetInit, IInvariant, PTL DEF Spec

----------------------------------------------------------------------------
\* A start that nobody forced accounts for the positions, as long as the broker is
\* truthful and no other instance trades its symbol on its account.

\* What the broker holds was filled, and a ticket names a fill of its order.
PositionsFilled == positions \subseteq fills
TicketsFilled ==
  \A c \in Cid : orderTicket[c] = NoTicket \/ orderTicket[c] \in {t \in fills : t[2] = c}
\* A request without an answer is on an order that recovery looks at.
Pending == \A t \in requests : t \notin fills /\ orderStatus[t[2]] \in NonTerminal
BrokerInv == PositionsFilled /\ TicketsFilled /\ Pending

\* The background task has not begun; past recovery nothing of the instance is on its
\* way to the broker, so that no position appears between the two reads.
QuietAt(i) ==
  /\ pc[i] \in StartUp \cup {"down"} => bg[i] = "sleep"
  /\ pc[i] \in {"startQuery", "startCompare"} /\ ~forced[i] =>
       \A t \in requests : Scope(t[1]) # Scope(i)
  /\ pc[i] = "startCompare" /\ ~forced[i] => Visible(i) \subseteq snap[i]
StartQuiet == \A i \in Inst : QuietAt(i)

\* One instance per account and symbol.
Alone == \A i, j \in Inst : Scope(i) = Scope(j) => i = j

LEMMA BrokerFrame ==
  ASSUME BrokerInv, UNCHANGED <<orderStatus, orderTicket, fills>>,
         requests' \subseteq requests, positions' \subseteq positions
  PROVE  BrokerInv'
BY DEF BrokerInv, PositionsFilled, TicketsFilled, Pending

\* The order row of an id in flight is written; it is terminal only when the broker
\* has no request of it.
LEMMA BrokerWrite ==
  ASSUME IInv, BrokerInv, NEW i \in Inst, cur[i] \in Cid, NEW s \in OrderStatus,
         SetOrder(cur[i], s), UNCHANGED <<orderTicket, requests, fills, positions>>,
         s \in NonTerminal \/ \A t \in requests : t[2] # cur[i]
  PROVE  BrokerInv'
<1>1. \A c \in Cid : orderStatus'[c] = IF c = cur[i] THEN s ELSE orderStatus[c]
  BY DEF SetOrder, IInv, TypeInv, TypeOK, OrderTypeOK
<1>2. \A t \in requests : t[2] \in Cid
  BY TicketId DEF IInv
<1> QED
  BY <1>1, <1>2 DEF BrokerInv, PositionsFilled, TicketsFilled, Pending

\* Whatever the broker has of an id in flight was sent by its owner.
LEMMA OwnRequest ==
  ASSUME IInv, NEW i \in Inst, pc[i] \in InFlight, NEW t \in requests \cup fills,
         t[2] = cur[i]
  PROVE  t = <<i, cur[i]>>
<1>1. t[1] \in Inst /\ t = <<t[1], t[2]>>
  BY TicketId DEF IInv
<1>2. orderInst[t[2]] = t[1] /\ orderInst[cur[i]] = i
  BY DEF IInv, SagaInv, Owns, JournaledBeforeBroker
<1> QED
  BY <1>1, <1>2

LEMMA BrokerCall ==
  ASSUME ~ReplyLost, IInv, ForgetInv, BrokerInv, NEW i \in Inst,
         Preflight(i) \/ Submit(i) \/ Finalize(i)
  PROVE  BrokerInv'
<1> USE LabelDomain
<1>0. TypeInv /\ SagaInv /\ RealInv
  BY DEF IInv
<1>1. CASE \/ LockBlocked(i) \/ CrossRisk(i) \/ CreatePendingTrade(i) \/ AwaitFilled(i)
           \/ AwaitRejected(i) \/ ConfirmTrade(i) \/ RejectTrade(i) \/ Release(i)
           \/ \E c \in Cid : AcquireLock(i, c)
  BY <1>1, BrokerFrame
  DEF LockBlocked, CrossRisk, CreatePendingTrade, AwaitFilled, AwaitRejected, Reply,
      ConfirmTrade, RejectTrade, Release, AcquireLock, SameStore, orderVars, brokerVars
<1>2. CASE PersistIntent(i)
  <2>1. cur[i] \in Cid
    BY <1>0, <1>2 DEF PersistIntent, From, Critical, TypeInv, CidHeld
  <2>2. CASE SetOrder(cur[i], "PENDING")
    BY <1>2, <2>1, <2>2, BrokerWrite DEF PersistIntent, brokerVars, NonTerminal
  <2>3. CASE UNCHANGED orderStatus
    BY <1>2, <2>3, BrokerFrame DEF PersistIntent, brokerVars
  <2> QED
    BY <1>2, <2>2, <2>3 DEF PersistIntent
<1>3. ASSUME NEW s \in OrderStatus, NEW l \in Label, WriteOrder(i, s, l),
             pc[i] \in InFlight, s \in NonTerminal \/ <<i, cur[i]>> \notin requests
      PROVE  BrokerInv'
  <2>1. cur[i] \in Cid
    BY <1>0, <1>3, CurHeld
  <2>2. CASE SetOrder(cur[i], s)
    <3>1. s \in NonTerminal \/ \A t \in requests : t[2] # cur[i]
      BY <1>3, OwnRequest
    <3> QED
      BY <1>3, <2>1, <2>2, <3>1, BrokerWrite DEF WriteOrder, brokerVars
  <2>3. CASE UNCHANGED orderStatus
    BY <1>3, <2>3, BrokerFrame DEF WriteOrder, brokerVars
  <2> QED
    BY <1>3, <2>2, <2>3 DEF WriteOrder
<1>4. CASE Approve(i)
  BY <1>3, <1>4 DEF Approve, From, InFlight, NonTerminal
<1>5. CASE JournalFailed(i)
  <2>1. pc[i] \in BeforeSend /\ pc[i] \in InFlight
    BY <1>5 DEF JournalFailed, From, BeforeSend, InFlight
  <2>2. sends[cur[i]] = 0
    BY <1>0, <2>1 DEF SagaInv, Unsent
  <2>3. <<i, cur[i]>> \notin requests
    BY <1>0, <2>2 DEF SagaInv, WasSent
  <2> QED
    BY <1>3, <1>5, <2>1, <2>3 DEF JournalFailed
<1>6. CASE MarkFilled(i)
  <2>1. pc[i] \in InFlight /\ <<i, cur[i]>> \in fills
    BY <1>0, <1>6 DEF MarkFilled, From, InFlight, RealInv, FillStage
  <2> QED
    BY <1>3, <1>6, <2>1 DEF MarkFilled, BrokerInv, Pending
<1>7. CASE RejectOrder(i)
  <2>1. pc[i] \in InFlight /\ <<i, cur[i]>> \notin requests
    BY <1>7 DEF RejectOrder, From, InFlight, ForgetInv, RejectedIsGone
  <2> QED
    BY <1>3, <1>7, <2>1 DEF RejectOrder
<1>8. CASE MarkSent(i)
  <2>1. pc[i] \in InFlight /\ <<i, cur[i]>> \in fills /\ cur[i] \in Cid
    BY <1>0, <1>8, CurHeld DEF MarkSent, From, InFlight, RealInv, FillStage
  <2>2. CASE UNCHANGED <<orderStatus, orderTicket>>
    BY <1>8, <2>2, BrokerFrame DEF MarkSent, brokerVars
  <2>3. CASE ~UNCHANGED <<orderStatus, orderTicket>>
    <3>1. /\ SetOrder(cur[i], "SENT")
          /\ orderTicket' = [orderTicket EXCEPT ![cur[i]] = <<i, cur[i]>>]
          /\ UNCHANGED <<requests, fills, positions>>
      BY <1>8, <2>3 DEF MarkSent, brokerVars
    <3>2. \A c \in Cid :
            /\ orderStatus'[c] = IF c = cur[i] THEN "SENT" ELSE orderStatus[c]
            /\ orderTicket'[c] = IF c = cur[i] THEN <<i, cur[i]>> ELSE orderTicket[c]
      BY <1>0, <3>1 DEF SetOrder, TypeInv, TypeOK, OrderTypeOK
    <3>3. \A t \in requests : t[2] \in Cid
      BY <1>0, TicketId
    <3>4. PositionsFilled' /\ Pending'
      BY <3>1, <3>2, <3>3 DEF BrokerInv, PositionsFilled, Pending, NonTerminal
    <3>5. TicketsFilled'
      BY <2>1, <3>1, <3>2 DEF BrokerInv, TicketsFilled
    <3> QED
      BY <3>4, <3>5 DEF BrokerInv
  <2> QED
    BY <2>2, <2>3
<1>9. CASE SendOrder(i)
  <2>1. UNCHANGED <<orderStatus, orderTicket, fills, positions>>
    BY <1>9 DEF SendOrder, SameStore, orderVars
  <2>2. pc[i] \in InFlight /\ pc[i] \in BeforeSend
    BY <1>9 DEF SendOrder, From, InFlight, BeforeSend
  <2>3. <<i, cur[i]>> \notin fills
    BY <1>0, <2>2 DEF SagaInv, Unsent, WasSent
  <2>4. orderStatus[cur[i]] \in NonTerminal
    BY <2>2 DEF ForgetInv, StatusStage
  <2>5. requests' \subseteq requests \cup {<<i, cur[i]>>}
    BY <1>9 DEF SendOrder
  <2> QED
    BY <2>1, <2>3, <2>4, <2>5 DEF BrokerInv, PositionsFilled, TicketsFilled, Pending
<1>10. ~AwaitLost(i)
  BY DEF AwaitLost
<1> QED
  BY <1>1, <1>2, <1>4, <1>5, <1>6, <1>7, <1>8, <1>9, <1>10 DEF Preflight, Submit, Finalize

LEMMA BrokerStep ==
  ASSUME ~ReplyLost, IInv, ForgetInv, BrokerInv, [Next]_vars PROVE BrokerInv'
<1>1. CASE \E i \in Inst : Preflight(i) \/ Submit(i) \/ Finalize(i)
  BY <1>1, BrokerCall
<1>2. ASSUME NEW i \in Inst,
             \/ Start(i) \/ StartStep(i) \/ Gate(i) \/ NoSignal(i) \/ Manage(i)
             \/ BgQuery(i) \/ BgCompare(i) \/ Crash(i) \/ Stop(i)
      PROVE  BrokerInv'
  <2>1. UNCHANGED <<orderStatus, orderTicket, fills>>
    BY <1>2
    DEF Start, StartStep, Recover, StartQuery, StartCompare, ClaimLease, Gate, NoSignal,
        Manage, ReadOpenTrades, EndCycle, RepositionClose, BgQuery, BgCompare, Crash,
        Stop, SameStore, orderVars, brokerVars
  <2>2. requests' \subseteq requests /\ positions' \subseteq positions
    BY <1>2
    DEF Start, StartStep, Recover, StartQuery, StartCompare, ClaimLease, Gate, NoSignal,
        Manage, ReadOpenTrades, EndCycle, RepositionClose, BgQuery, BgCompare, Crash,
        Stop, SameStore, orderVars, brokerVars
  <2> QED
    BY <2>1, <2>2, BrokerFrame
<1>3. ASSUME NEW t \in Ticket, BrokerFill(t) PROVE BrokerInv'
  BY <1>3
  DEF BrokerFill, SameStore, orderVars, BrokerInv, PositionsFilled, TicketsFilled, Pending
<1>4. ASSUME NEW t \in Ticket, BrokerReject(t) \/ BrokerClose(t) PROVE BrokerInv'
  BY <1>4, BrokerFrame DEF BrokerReject, BrokerClose, SameStore, orderVars
<1>5. CASE \/ \E s \in Account \X Symbol : OperatorFreesLease(s)
           \/ \E c \in Cid : ManualClose(c) \/ PendingAges(c)
           \/ Tick \/ UNCHANGED vars
  BY <1>5, BrokerFrame
  DEF OperatorFreesLease, ManualClose, PendingAges, Tick, SameStore, vars, orderVars,
      brokerVars
<1> QED
  BY <1>1, <1>2, <1>3, <1>4, <1>5 DEF Next

\* Recovery lets an unforced start pass only when the instance has nothing at the broker
\* without an answer: such an order has no ticket that a position could match.
LEMMA RecoveredIsQuiet ==
  ASSUME IInv, BrokerInv, Alone, NEW i \in Inst, Unresolved(i, Visible(i)) = {},
         NEW t \in requests
  PROVE  Scope(t[1]) # Scope(i)
<1> SUFFICES ASSUME Scope(t[1]) = Scope(i) PROVE FALSE
  OBVIOUS
<1>1. t[1] \in Inst /\ t[2] \in Cid /\ t = <<t[1], t[2]>>
  BY TicketId DEF IInv
<1>2. t[1] = i
  BY <1>1 DEF Alone
<1>3. orderStatus[t[2]] \in NonTerminal /\ orderInst[t[2]] = i
  BY <1>2 DEF BrokerInv, Pending, IInv, SagaInv, JournaledBeforeBroker
<1>4. orderTicket[t[2]] \in Visible(i)
  BY <1>1, <1>3 DEF Unresolved
<1>5. orderTicket[t[2]] \in fills /\ orderTicket[t[2]] \in Ticket
  BY <1>4 DEF Visible, BrokerInv, PositionsFilled, IInv, TypeInv, TypeOK, BrokerTypeOK
<1>6. orderTicket[t[2]][2] = t[2]
  BY <1>1, <1>5, InstanceAssumption DEF BrokerInv, TicketsFilled, Ticket
<1>7. orderTicket[t[2]][1] = i
  BY <1>3, <1>5, <1>6 DEF IInv, SagaInv, JournaledBeforeBroker
<1>8. orderTicket[t[2]] = t
  BY <1>1, <1>2, <1>5, <1>6, <1>7 DEF Ticket
<1> QED
  BY <1>5, <1>8 DEF BrokerInv, Pending

\* An instance is quiet as before while it does not move and nothing new of its account
\* and symbol is at the broker.
LEMMA QuietFrame ==
  ASSUME NEW j \in Inst, QuietAt(j), pc'[j] = pc[j], bg'[j] = bg[j],
         forced'[j] = forced[j], snap'[j] = snap[j],
         \A t \in (requests' \ requests) \cup (positions' \ positions) : Scope(t[1]) # Scope(j)
  PROVE  QuietAt(j)'
<1>1. Visible(j)' \subseteq Visible(j)
  BY DEF Visible
<1>2. \A t \in requests' : t \in requests \/ Scope(t[1]) # Scope(j)
  OBVIOUS
<1> QED
  BY <1>1, <1>2 DEF QuietAt

\* A process that is down, or past its start, has nothing to keep.
LEMMA QuietElsewhere ==
  ASSUME NEW j \in Inst, pc'[j] \notin StartUp,
         pc'[j] = "down" => bg'[j] = "sleep"
  PROVE  QuietAt(j)'
BY DEF QuietAt, StartUp

LEMMA QuietExit ==
  ASSUME TypeInv, NEW i \in Inst, Exit(i) PROVE QuietAt(i)'
<1>1. pc'[i] = "down" /\ bg'[i] = "sleep"
  BY DEF Exit, Goto, TypeInv, TypeOK, ProcTypeOK
<1> QED
  BY <1>1, QuietElsewhere DEF StartUp

\* The steps of a start.
LEMMA QuietStartUp ==
  ASSUME IInv, BrokerInv, StartQuiet, Alone, ~BrokerQueryFails, NEW i \in Inst,
         Start(i) \/ StartStep(i)
  PROVE  QuietAt(i)'
<1>0. TypeInv /\ QuietAt(i)
  BY DEF IInv, StartQuiet
<1>1. CASE Exit(i)
  BY <1>0, <1>1, QuietExit
<1>2. CASE Start(i)
  <2>1. pc[i] = "down" /\ pc'[i] = "recover" /\ bg' = bg
    BY <1>0, <1>2 DEF Start, From, Goto, TypeInv, TypeOK, ProcTypeOK
  <2> QED
    BY <1>0, <2>1 DEF QuietAt, StartUp
<1>3. CASE Recover(i) /\ ~Exit(i)
  <2>1. /\ Unresolved(i, Visible(i)) = {} \/ forced[i]
        /\ Goto(i, "startQuery") /\ OnlyPc /\ requests' = requests /\ positions' = positions
    BY <1>3 DEF Recover, BrokerShows, brokerVars
  <2>2. pc[i] = "recover" /\ pc'[i] = "startQuery" /\ bg' = bg /\ forced' = forced
    BY <1>0, <1>3, <2>1 DEF Recover, From, OnlyPc, Goto, TypeInv, TypeOK, ProcTypeOK
  <2>3. ~forced[i] => \A t \in requests : Scope(t[1]) # Scope(i)
    BY <2>1, RecoveredIsQuiet
  <2> QED
    BY <1>0, <2>1, <2>2, <2>3 DEF QuietAt, StartUp
<1>4. CASE StartQuery(i)
  <2>1. /\ pc[i] = "startQuery" /\ pc'[i] = "startCompare" /\ bg' = bg /\ forced' = forced
        /\ snap'[i] = Visible(i) /\ requests' = requests /\ positions' = positions
    BY <1>0, <1>4
    DEF StartQuery, From, Goto, BrokerShows, brokerVars, TypeInv, TypeOK, ProcTypeOK
  <2>2. Visible(i)' = Visible(i)
    BY <2>1 DEF Visible
  <2> QED
    BY <1>0, <2>1, <2>2 DEF QuietAt, StartUp
<1>5. CASE StartCompare(i) /\ ~Exit(i)
  <2>1. pc[i] = "startCompare" /\ pc'[i] = "lease" /\ bg' = bg
    BY <1>0, <1>5 DEF StartCompare, From, Goto, TypeInv, TypeOK, ProcTypeOK
  <2> QED
    BY <1>0, <2>1 DEF QuietAt, StartUp
<1>6. CASE ClaimLease(i) /\ ~Exit(i)
  <2>1. pc'[i] = "idle"
    BY <1>0, <1>6 DEF ClaimLease, Goto, TypeInv, TypeOK, ProcTypeOK
  <2> QED
    BY <2>1, QuietElsewhere DEF StartUp
<1> QED
  BY <1>1, <1>2, <1>3, <1>4, <1>5, <1>6 DEF StartStep

Loop(i) ==
  Gate(i) \/ NoSignal(i) \/ Preflight(i) \/ Submit(i) \/ Finalize(i) \/ Manage(i)

\* A cycle leaves the background task and the report alone and is not a start.
LEMMA LoopMoves ==
  ASSUME TypeInv, NEW i \in Inst, Loop(i)
  PROVE  /\ pc'[i] \notin StartUp \cup {"down"}
         /\ \A j \in Inst \ {i} : pc'[j] = pc[j]
         /\ UNCHANGED <<forced, bg, snap>>
<1>1. UNCHANGED <<forced, bg, snap>>
  BY DEF Loop, Gate, NoSignal, Preflight, AcquireLock, LockBlocked, CrossRisk,
         PersistIntent, Submit, Approve, JournalFailed, WriteOrder, CreatePendingTrade,
         SendOrder, AwaitFilled, AwaitRejected, AwaitLost, Reply, Finalize, MarkSent,
         ConfirmTrade, MarkFilled, RejectTrade, RejectOrder, Release, Manage,
         ReadOpenTrades, EndCycle, RepositionClose, OnlyPc
<1>2. \/ \E l \in Label \ (StartUp \cup {"down"}) : Goto(i, l)
      \/ pc' = pc /\ pc[i] = "reposition"
  <2>1. \A l \in {"idle", "cycle", "manage", "reposition", "risk", "intent", "approve",
                  "journal", "journalFailed", "send", "await", "markSent", "confirm",
                  "markFilled", "rejectTrade", "rejectOrder", "release", "unwind"} :
           l \in Label \ (StartUp \cup {"down"})
    BY DEF Label, StartUp, Critical
  <2>2. CASE Gate(i) \/ NoSignal(i) \/ Preflight(i)
    BY <2>1, <2>2
    DEF Gate, NoSignal, Preflight, AcquireLock, LockBlocked, CrossRisk, PersistIntent
  <2>3. CASE Submit(i)
    BY <2>1, <2>3
    DEF Submit, Approve, JournalFailed, WriteOrder, CreatePendingTrade, SendOrder,
        AwaitFilled, AwaitRejected, AwaitLost, Reply
  <2>4. CASE Finalize(i)
    BY <2>1, <2>4
    DEF Finalize, MarkSent, ConfirmTrade, MarkFilled, RejectTrade, RejectOrder,
        WriteOrder, Release
  <2>5. CASE Manage(i)
    BY <2>1, <2>5 DEF Manage, ReadOpenTrades, EndCycle, RepositionClose, From
  <2> QED
    BY <2>2, <2>3, <2>4, <2>5 DEF Loop
<1> QED
  BY <1>1, <1>2 DEF Goto, TypeInv, TypeOK, ProcTypeOK, StartUp

\* What a step of an instance does at the broker carries its own name.
LEMMA OwnSteps ==
  ASSUME NEW i \in Inst,
         Start(i) \/ StartStep(i) \/ Loop(i) \/ BgQuery(i) \/ BgCompare(i) \/ Crash(i) \/ Stop(i)
  PROVE  positions' \subseteq positions /\ \A t \in requests' \ requests : t[1] = i
<1>1. CASE Loop(i)
  BY <1>1
  DEF Loop, Gate, NoSignal, Preflight, AcquireLock, LockBlocked, CrossRisk,
      PersistIntent, Submit, Approve, JournalFailed, WriteOrder, CreatePendingTrade,
      SendOrder, AwaitFilled, AwaitRejected, AwaitLost, Reply, Finalize, MarkSent,
      ConfirmTrade, MarkFilled, RejectTrade, RejectOrder, Release, Manage,
      ReadOpenTrades, EndCycle, RepositionClose, brokerVars
<1>2. CASE Start(i) \/ StartStep(i) \/ BgQuery(i) \/ BgCompare(i) \/ Crash(i) \/ Stop(i)
  BY <1>2
  DEF Start, StartStep, Recover, StartQuery, StartCompare, ClaimLease, BgQuery,
      BgCompare, Crash, Stop, brokerVars
<1> QED
  BY <1>1, <1>2

\* A step of an instance leaves the others where they are.
LEMMA OthersStay ==
  ASSUME TypeInv, NEW i \in Inst, NEW j \in Inst \ {i},
         Start(i) \/ StartStep(i) \/ Loop(i) \/ BgQuery(i) \/ BgCompare(i) \/ Crash(i) \/ Stop(i)
  PROVE  pc'[j] = pc[j] /\ bg'[j] = bg[j] /\ forced'[j] = forced[j] /\ snap'[j] = snap[j]
<1>1. CASE Loop(i)
  BY <1>1, LoopMoves
<1>2. CASE Start(i) \/ StartStep(i) \/ BgQuery(i) \/ BgCompare(i) \/ Crash(i) \/ Stop(i)
  BY <1>2
  DEF Start, StartStep, Recover, StartQuery, StartCompare, ClaimLease, BgQuery,
      BgCompare, Crash, Stop, Exit, OnlyPc, Goto, TypeInv, TypeOK, ProcTypeOK
<1> QED
  BY <1>1, <1>2

LEMMA QuietInstance ==
  ASSUME IInv, BrokerInv, StartQuiet, Alone, ~BrokerQueryFails, NEW i \in Inst,
         Start(i) \/ StartStep(i) \/ Loop(i) \/ BgQuery(i) \/ BgCompare(i) \/ Crash(i) \/ Stop(i)
  PROVE  StartQuiet'
<1>0. TypeInv
  BY DEF IInv
<1>1. ASSUME NEW j \in Inst \ {i} PROVE QuietAt(j)'
  <2>1. pc'[j] = pc[j] /\ bg'[j] = bg[j] /\ forced'[j] = forced[j] /\ snap'[j] = snap[j]
    BY <1>0, OthersStay
  <2>2. Scope(i) # Scope(j)
    BY DEF Alone
  <2>3. \A t \in (requests' \ requests) \cup (positions' \ positions) : Scope(t[1]) # Scope(j)
    BY <2>2, OwnSteps
  <2> QED
    BY <2>1, <2>3, QuietFrame DEF StartQuiet
<1>2. QuietAt(i)'
  <2>1. CASE Start(i) \/ StartStep(i)
    BY <2>1, QuietStartUp
  <2>2. CASE Crash(i) \/ Stop(i)
    BY <1>0, <2>2, QuietExit DEF Crash, Stop
  <2>3. CASE Loop(i)
    BY <1>0, <2>3, LoopMoves, QuietElsewhere
  <2>4. CASE BgQuery(i)
    BY <2>4, QuietElsewhere DEF BgQuery, Running
  <2>5. CASE BgCompare(i)
    <3>1. pc'[i] \notin StartUp \cup {"down"}
      BY <2>5 DEF BgCompare, StartQuiet, QuietAt
    <3> QED
      BY <3>1, QuietElsewhere
  <2> QED
    BY <2>1, <2>2, <2>3, <2>4, <2>5
<1> QED
  BY <1>1, <1>2 DEF StartQuiet

LEMMA QuietStep ==
  ASSUME IInv, BrokerInv, StartQuiet, Alone, ~BrokerQueryFails, [Next]_vars
  PROVE  StartQuiet'
<1>1. CASE \E i \in Inst : \/ Start(i) \/ StartStep(i) \/ Loop(i) \/ BgQuery(i)
                           \/ BgCompare(i) \/ Crash(i) \/ Stop(i)
  BY <1>1, QuietInstance
<1>2. ASSUME UNCHANGED procVars, requests' \subseteq requests, positions' \subseteq positions
      PROVE  StartQuiet'
  BY <1>2, QuietFrame DEF procVars, StartQuiet
<1>3. ASSUME NEW t \in Ticket, BrokerFill(t) PROVE StartQuiet'
  <2> SUFFICES ASSUME NEW j \in Inst PROVE QuietAt(j)'
    BY DEF StartQuiet
  <2>1. UNCHANGED procVars /\ t \in requests /\ requests' \subseteq requests /\ positions' = positions \cup {t}
    BY <1>3 DEF BrokerFill
  <2>2. CASE Scope(t[1]) # Scope(j)
    BY <2>1, <2>2, QuietFrame DEF procVars, StartQuiet
  <2>3. CASE Scope(t[1]) = Scope(j)
    BY <2>1, <2>3 DEF procVars, StartQuiet, QuietAt
  <2> QED
    BY <2>2, <2>3
<1>4. ASSUME NEW t \in Ticket, BrokerReject(t) \/ BrokerClose(t) PROVE StartQuiet'
  BY <1>2, <1>4 DEF BrokerReject, BrokerClose
<1>5. CASE \/ \E s \in Account \X Symbol : OperatorFreesLease(s)
           \/ \E c \in Cid : ManualClose(c) \/ PendingAges(c)
           \/ Tick \/ UNCHANGED vars
  BY <1>2, <1>5 DEF OperatorFreesLease, ManualClose, PendingAges, Tick, vars, brokerVars
<1> QED
  BY <1>1, <1>3, <1>4, <1>5 DEF Next, Loop

\* Only the comparison of the start ends in "lease".
LEMMA ComparedByStart ==
  ASSUME TypeInv, Next, NEW i \in Inst, pc[i] = "startCompare", pc'[i] = "lease"
  PROVE  StartCompare(i)
<1>1. PICK j \in Inst : \/ Start(j) \/ StartStep(j) \/ Loop(j) \/ BgQuery(j)
                       \/ BgCompare(j) \/ Crash(j) \/ Stop(j)
  <2>1. pc' # pc
    OBVIOUS
  <2> QED
    BY <2>1
    DEF Next, Loop, OperatorFreesLease, ManualClose, PendingAges, BrokerFill,
        BrokerReject, BrokerClose, Tick, procVars
<1>2. j = i
  BY <1>1, OthersStay
<1>3. ~Loop(i)
  BY LoopMoves DEF StartUp
<1>4. ~Crash(i) /\ ~Stop(i)
  BY DEF Crash, Stop, Exit, Goto, TypeInv, TypeOK, ProcTypeOK
<1> QED
  BY <1>1, <1>2, <1>3, <1>4
  DEF Start, StartStep, Recover, StartQuery, ClaimLease, From, BgQuery, BgCompare

LEMMA StartInit == Init => BrokerInv /\ StartQuiet
BY DEF Init, BrokerInv, PositionsFilled, TicketsFilled, Pending, StartQuiet, QuietAt

\* With one instance per account and symbol, a broker that reports truthfully and a
\* position list that is not lost, an unforced start passes only when every position of
\* the account is on an OPEN row of the instance (main.py, recovery.py, reconciler.py).
THEOREM StartsAccount ==
  ASSUME ~ReplyLost, ~BrokerQueryFails, Alone PROVE Spec => StartAccounts
<1> DEFINE SInv == IInv /\ ForgetInv /\ BrokerInv /\ StartQuiet
           Compared == \A i \in Inst :
             pc[i] = "startCompare" /\ pc'[i] = "lease" /\ ~forced[i] =>
               \A t \in Visible(i) : Accounted(i, t)
<1>1. Init => SInv
  BY IInvInit, ForgetInit, StartInit
<1>2. SInv /\ [Next]_vars => SInv'
  BY IInvStep, ForgetStep, BrokerStep, QuietStep
<1>3. SInv /\ [Next]_vars => [Compared]_vars
  <2> SUFFICES ASSUME SInv, Next, NEW i \in Inst,
                      pc[i] = "startCompare", pc'[i] = "lease", ~forced[i]
               PROVE  \A t \in Visible(i) : Accounted(i, t)
    OBVIOUS
  <2>1. StartCompare(i)
    BY ComparedByStart DEF IInv
  <2>2. ~Exit(i)
    BY DEF Exit, Goto, IInv, TypeInv, TypeOK, ProcTypeOK
  <2>3. ReconcileCritical(i, snap[i], FALSE)
    BY <2>1, <2>2 DEF StartCompare
  <2>4. Orphans(i, snap[i]) = {}
    BY <2>3 DEF ReconcileCritical
  <2>5. Visible(i) \subseteq snap[i]
    BY DEF StartQuiet, QuietAt
  <2> QED
    BY <2>4, <2>5 DEF Orphans
<1> HIDE DEF SInv, Compared
<1>4. Spec => [][Compared]_vars
  BY <1>1, <1>2, <1>3, PTL DEF Spec
<1> QED
  BY <1>4 DEF StartAccounts, Compared

----------------------------------------------------------------------------
\* What must happen.  Weak fairness is written out, with the condition under which a step
\* can be taken in the place of ENABLED, of which the prover knows nothing.

\* Where a call of execute_market_order goes from each of its labels.
After(l) ==
  CASE l = "risk" -> {"intent", "release", "down"}
    [] l = "intent" -> {"approve", "release", "down"}
    [] l = "approve" -> {"journal", "unwind", "down"}
    [] l = "journal" -> {"send", "journalFailed", "down"}
    [] l = "journalFailed" -> {"release", "unwind", "down"}
    [] l = "send" -> {"await", "rejectTrade", "down"}
    [] l = "await" -> {"markSent", "rejectTrade", "down"}
    [] l = "markSent" -> {"confirm", "unwind", "down"}
    [] l = "confirm" -> {"markFilled", "unwind", "down"}
    [] l = "markFilled" -> {"release", "unwind", "down"}
    [] l = "rejectTrade" -> {"rejectOrder", "down"}
    [] l = "rejectOrder" -> {"release", "unwind", "down"}
    [] l = "release" -> {"manage", "down"}
    [] l = "unwind" -> {"idle", "down"}
    [] OTHER -> {}

\* A step of the call itself takes it there.
LEMMA CallGoesOn ==
  ASSUME TypeInv, NEW i \in Inst, pc[i] \in Critical,
         Preflight(i) \/ Submit(i) \/ Finalize(i)
  PROVE  pc'[i] \in After(pc[i])
<1>1. ASSUME NEW l \in Label, Goto(i, l) PROVE pc'[i] = l
  BY <1>1 DEF Goto, TypeInv, TypeOK, ProcTypeOK
<1>2. {"intent", "approve", "journal", "journalFailed", "send", "await", "markSent",
       "confirm", "markFilled", "rejectTrade", "rejectOrder", "release", "unwind",
       "manage", "idle"} \subseteq Label
  BY LabelDomain
<1>3. pc[i] \notin {"cycle"}
  BY DEF Critical
<1>4. CASE Preflight(i)
  BY <1>1, <1>2, <1>3, <1>4
  DEF Preflight, AcquireLock, LockBlocked, CrossRisk, PersistIntent, From, After
<1>5. ASSUME NEW s, NEW l \in {"journal", "release"}, WriteOrder(i, s, l)
      PROVE  pc'[i] \in {l, "unwind"}
  BY <1>1, <1>2, <1>5 DEF WriteOrder
<1>6. CASE Submit(i)
  <2>1. CASE Approve(i)
    BY <1>5, <2>1 DEF Approve, From, After
  <2>2. CASE JournalFailed(i)
    BY <1>5, <2>2 DEF JournalFailed, From, After
  <2>3. CASE CreatePendingTrade(i)
    BY <1>1, <1>2, <2>3 DEF CreatePendingTrade, From, After
  <2>4. CASE SendOrder(i)
    BY <1>1, <1>2, <2>4 DEF SendOrder, From, After
  <2>5. CASE AwaitFilled(i) \/ AwaitRejected(i) \/ AwaitLost(i)
    BY <1>1, <1>2, <2>5 DEF AwaitFilled, AwaitRejected, AwaitLost, Reply, From, After
  <2> QED
    BY <1>6, <2>1, <2>2, <2>3, <2>4, <2>5 DEF Submit
<1>7. CASE Finalize(i)
  <2>1. CASE MarkSent(i)
    BY <1>1, <1>2, <2>1 DEF MarkSent, From, After
  <2>2. CASE ConfirmTrade(i)
    BY <1>1, <1>2, <2>2 DEF ConfirmTrade, From, After
  <2>3. CASE MarkFilled(i)
    BY <1>5, <2>3 DEF MarkFilled, From, After
  <2>4. CASE RejectTrade(i)
    BY <1>1, <1>2, <2>4 DEF RejectTrade, From, After
  <2>5. CASE RejectOrder(i)
    BY <1>5, <2>5 DEF RejectOrder, From, After
  <2>6. CASE Release(i)
    BY <1>1, <1>2, <2>6 DEF Release, From, After
  <2> QED
    BY <1>7, <2>1, <2>2, <2>3, <2>4, <2>5, <2>6 DEF Finalize
<1> QED
  BY <1>4, <1>6, <1>7

\* Whatever anybody does, a call stays where it is, with its order, or goes on.
LEMMA CallAdvances ==
  ASSUME TypeInv, [Next]_vars, NEW i \in Inst, pc[i] \in Critical
  PROVE  \/ pc'[i] = pc[i] /\ cur'[i] = cur[i]
         \/ pc'[i] \in After(pc[i])
<1>1. CASE UNCHANGED procVars
  BY <1>1 DEF procVars
<1>2. ASSUME NEW j \in Inst \ {i},
             Start(j) \/ StartStep(j) \/ Loop(j) \/ BgQuery(j) \/ BgCompare(j) \/ Crash(j) \/ Stop(j)
      PROVE  pc'[i] = pc[i] /\ cur'[i] = cur[i]
  <2>1. pc'[i] = pc[i]
    BY <1>2, OthersStay
  <2>2. cur'[i] = cur[i]
    <3>1. CASE Loop(j)
      BY <1>2, <3>1
      DEF Loop, Gate, NoSignal, Preflight, AcquireLock, LockBlocked, CrossRisk,
          PersistIntent, Submit, Approve, JournalFailed, WriteOrder, CreatePendingTrade,
          SendOrder, AwaitFilled, AwaitRejected, AwaitLost, Reply, Finalize, MarkSent,
          ConfirmTrade, MarkFilled, RejectTrade, RejectOrder, Release, Manage,
          ReadOpenTrades, EndCycle, RepositionClose, OnlyPc, TypeInv, TypeOK, ProcTypeOK
    <3>2. CASE Start(j) \/ StartStep(j) \/ BgQuery(j) \/ BgCompare(j) \/ Crash(j) \/ Stop(j)
      BY <1>2, <3>2
      DEF Start, StartStep, Recover, StartQuery, StartCompare, ClaimLease, BgQuery,
          BgCompare, Crash, Stop, Exit, OnlyPc, TypeInv, TypeOK, ProcTypeOK
    <3> QED
      BY <1>2, <3>1, <3>2
  <2> QED
    BY <2>1, <2>2
<1>3. CASE Preflight(i) \/ Submit(i) \/ Finalize(i)
  BY <1>3, CallGoesOn
<1>4. CASE BgQuery(i) \/ BgCompare(i)
  BY <1>4 DEF BgQuery, BgCompare
<1>5. CASE Crash(i)
  <2>1. pc'[i] = "down"
    BY <1>5 DEF Crash, Exit, Goto, TypeInv, TypeOK, ProcTypeOK
  <2> QED
    BY <2>1 DEF Critical, After
<1>6. ~(Start(i) \/ StartStep(i) \/ Gate(i) \/ NoSignal(i) \/ Manage(i) \/ Stop(i))
  BY DEF Start, StartStep, Recover, StartQuery, StartCompare, ClaimLease, Gate, NoSignal,
         Manage, ReadOpenTrades, EndCycle, RepositionClose, Stop, From, Critical
<1>7. CASE \/ \E s \in Account \X Symbol : OperatorFreesLease(s)
           \/ \E c \in Cid : ManualClose(c) \/ PendingAges(c)
           \/ \E t \in Ticket : BrokerFill(t) \/ BrokerReject(t) \/ BrokerClose(t)
           \/ Tick \/ UNCHANGED vars
  BY <1>1, <1>7
  DEF OperatorFreesLease, ManualClose, PendingAges, BrokerFill, BrokerReject, BrokerClose,
      Tick, vars
<1>8. CASE \E j \in Inst : \/ Start(j) \/ StartStep(j) \/ Loop(j) \/ BgQuery(j)
                           \/ BgCompare(j) \/ Crash(j) \/ Stop(j)
  BY <1>2, <1>3, <1>4, <1>5, <1>6, <1>8 DEF Loop
<1> QED
  BY <1>7, <1>8 DEF Next, Loop

Waits(i) == pc[i] = "await" /\ <<i, cur[i]>> \in requests

AtPreflight == {"risk", "intent"}
AtSubmit == {"approve", "journal", "journalFailed", "send", "await"}
AtFinalize ==
  {"markSent", "confirm", "markFilled", "rejectTrade", "rejectOrder", "release", "unwind"}

\* The event loop resumes a call that is not waiting for the broker.
CallProgress(i) ==
  /\ []<>~(pc[i] \in AtPreflight) \/ []<><<CrossRisk(i) \/ PersistIntent(i)>>_vars
  /\ []<>~(pc[i] \in AtSubmit /\ ~Waits(i)) \/ []<><<Submit(i)>>_vars
  /\ []<>~(pc[i] \in AtFinalize) \/ []<><<Finalize(i)>>_vars

\* The broker answers a request that stays with it.
AnswerTo(t) == []<>~(t \in requests) \/ []<><<BrokerFill(t) \/ BrokerReject(t)>>_vars
BrokerAnswers == \A t \in Ticket : AnswerTo(t)

\* One label is left, once the call no longer waits there.
LEMMA LabelIsLeft ==
  ASSUME NEW i \in Inst, NEW l \in Critical, l # "await"
  PROVE  []TypeInv /\ [][Next]_vars /\ CallProgress(i) => (pc[i] = l ~> pc[i] \in After(l))
<1>1. TypeInv /\ pc[i] = l /\ [Next]_vars => (pc[i] = l)' \/ (pc[i] \in After(l))'
  BY CallAdvances
<1>2. TypeInv /\ pc[i] = l /\ <<CrossRisk(i) \/ PersistIntent(i)>>_vars => (pc[i] \in After(l))'
  BY CallGoesOn DEF Preflight
<1>3. TypeInv /\ pc[i] = l /\ <<Submit(i)>>_vars => (pc[i] \in After(l))'
  BY CallGoesOn
<1>4. TypeInv /\ pc[i] = l /\ <<Finalize(i)>>_vars => (pc[i] \in After(l))'
  BY CallGoesOn
<1>5. l \in AtPreflight \/ l \in AtSubmit \/ l \in AtFinalize
  BY DEF Critical, AtPreflight, AtSubmit, AtFinalize
<1>6. CASE l \in AtPreflight
  <2>1. pc[i] = l => pc[i] \in AtPreflight
    BY <1>6
  <2> QED
    BY <1>1, <1>2, <2>1, PTL DEF CallProgress
<1>7. CASE l \in AtSubmit
  <2>1. pc[i] = l => pc[i] \in AtSubmit /\ ~Waits(i)
    BY <1>7 DEF Waits
  <2> QED
    BY <1>1, <1>3, <2>1, PTL DEF CallProgress
<1>8. CASE l \in AtFinalize
  <2>1. pc[i] = l => pc[i] \in AtFinalize
    BY <1>8
  <2> QED
    BY <1>1, <1>4, <2>1, PTL DEF CallProgress
<1> QED
  BY <1>5, <1>6, <1>7, <1>8

\* A call that waits for an answer keeps its request, and no one else sends that request.
LEMMA WaitingStays ==
  ASSUME TypeInv, [Next]_vars, NEW i \in Inst, NEW c \in Cid, pc[i] = "await", cur[i] = c
  PROVE  \/ /\ pc'[i] = "await" /\ cur'[i] = c
            /\ <<i, c>> \notin requests => <<i, c>> \notin requests'
         \/ pc'[i] \in After("await")
<1>1. \/ pc'[i] = "await" /\ cur'[i] = c
      \/ pc'[i] \in After("await")
  BY CallAdvances DEF Critical
<1>2. ASSUME pc'[i] = "await", <<i, c>> \notin requests PROVE <<i, c>> \notin requests'
  <2>1. \A t \in Ticket : t[1] = i => t \notin requests' \ requests
    <3>1. CASE \E j \in Inst \ {i} : \/ Start(j) \/ StartStep(j) \/ Loop(j) \/ BgQuery(j)
                                     \/ BgCompare(j) \/ Crash(j) \/ Stop(j)
      BY <3>1, OwnSteps
    <3>2. CASE Preflight(i) \/ Submit(i) \/ Finalize(i)
      <4>1. pc'[i] \in After("await")
        BY <3>2, CallGoesOn DEF Critical
      <4> QED
        BY <1>2, <4>1 DEF After
    <3>3. CASE \/ Start(i) \/ StartStep(i) \/ Gate(i) \/ NoSignal(i) \/ Manage(i)
               \/ BgQuery(i) \/ BgCompare(i) \/ Crash(i) \/ Stop(i)
      BY <3>3
      DEF Start, StartStep, Recover, StartQuery, StartCompare, ClaimLease, Gate, NoSignal,
          Manage, ReadOpenTrades, EndCycle, RepositionClose, BgQuery, BgCompare, Crash,
          Stop, brokerVars
    <3>4. CASE \/ \E s \in Account \X Symbol : OperatorFreesLease(s)
               \/ \E d \in Cid : ManualClose(d) \/ PendingAges(d)
               \/ \E t \in Ticket : BrokerFill(t) \/ BrokerReject(t) \/ BrokerClose(t)
               \/ Tick \/ UNCHANGED vars
      BY <3>4
      DEF OperatorFreesLease, ManualClose, PendingAges, BrokerFill, BrokerReject, BrokerClose,
          Tick, vars, brokerVars
    <3> QED
      BY <3>1, <3>2, <3>3, <3>4 DEF Next, Loop
  <2> QED
    BY <1>2, <2>1 DEF Ticket
<1> QED
  BY <1>1, <1>2

LEMMA AwaitIsLeft ==
  ASSUME NEW i \in Inst
  PROVE  []TypeInv /\ [][Next]_vars /\ CallProgress(i) /\ []BrokerAnswers
           => (pc[i] = "await" ~> pc[i] \in After("await"))
<1> DEFINE Left == pc[i] \in After("await")
           Asked(c) == pc[i] = "await" /\ cur[i] = c /\ <<i, c>> \in requests
           Answered(c) == pc[i] = "await" /\ cur[i] = c /\ <<i, c>> \notin requests
<1>1. ASSUME NEW c \in Cid
      PROVE  /\ pc[i] = "await" /\ cur[i] = c
             /\ []TypeInv /\ [][Next]_vars /\ CallProgress(i) /\ AnswerTo(<<i, c>>)
             => <>Left
  <2>1. TypeInv /\ Asked(c) /\ [Next]_vars => Asked(c)' \/ Answered(c)' \/ Left'
    BY WaitingStays
  <2>2. TypeInv /\ Asked(c) /\ <<BrokerFill(<<i, c>>) \/ BrokerReject(<<i, c>>)>>_vars
          => Answered(c)' \/ Left'
    BY DEF BrokerFill, BrokerReject, procVars
  <2>3. TypeInv /\ Answered(c) /\ [Next]_vars => Answered(c)' \/ Left'
    BY WaitingStays
  <2>4. TypeInv /\ Answered(c) /\ <<Submit(i)>>_vars => Left'
    BY CallGoesOn DEF Critical
  <2>5. Answered(c) => pc[i] \in AtSubmit /\ ~Waits(i)
    BY DEF AtSubmit, Waits
  <2>6. Asked(c) => <<i, c>> \in requests
    OBVIOUS
  <2>7. pc[i] = "await" /\ cur[i] = c => Asked(c) \/ Answered(c)
    OBVIOUS
  <2> HIDE DEF Asked, Answered, Left
  <2> QED
    BY <2>1, <2>2, <2>3, <2>4, <2>5, <2>6, <2>7, PTL DEF CallProgress, AnswerTo
<1>2. TypeInv /\ pc[i] = "await" => \E c \in Cid : pc[i] = "await" /\ cur[i] = c
  BY DEF TypeInv, CidHeld, Critical
<1>3. \A c \in Cid : <<i, c>> \in Ticket
  BY DEF Ticket
<1> HIDE DEF Left
<1>4. TypeInv /\ pc[i] = "await" /\ []TypeInv /\ [][Next]_vars /\ CallProgress(i) /\ BrokerAnswers
        => <>Left
  BY <1>1, <1>2, <1>3 DEF BrokerAnswers
<1>5. []TypeInv /\ [][Next]_vars /\ CallProgress(i) /\ []BrokerAnswers => (pc[i] = "await" ~> Left)
  BY <1>4, PTL DEF CallProgress
<1> QED
  BY <1>5 DEF Left

\* For any instances, orders, faults and lost replies, a call of execute_market_order ends,
\* in a result, in an exception or with its process, if the event loop resumes it and the
\* broker answers every request (control_plane.py, service.py).
THEOREM CallsEnd ==
  Spec /\ (\A i \in Inst : CallProgress(i)) /\ []BrokerAnswers => SagaEnds
<1>1. ASSUME NEW i \in Inst
      PROVE  []TypeInv /\ [][Next]_vars /\ CallProgress(i) /\ []BrokerAnswers
               => (pc[i] \in Critical ~> pc[i] \notin Critical)
  <2> DEFINE Out == pc[i] \notin Critical
             Fair == []TypeInv /\ [][Next]_vars /\ CallProgress(i) /\ []BrokerAnswers
             At(l) == pc[i] = l
             On(l) == pc[i] \in After(l)
             Leaves(l) == Fair => (At(l) ~> On(l))
  <2>1. \A l \in Critical \ {"await"} : Leaves(l)
    BY LabelIsLeft
  <2>2. Leaves("await")
    BY AwaitIsLeft
  <2>3. /\ On("risk") => At("intent") \/ At("release") \/ Out
        /\ On("intent") => At("approve") \/ At("release") \/ Out
        /\ On("approve") => At("journal") \/ At("unwind") \/ Out
        /\ On("journal") => At("send") \/ At("journalFailed") \/ Out
        /\ On("journalFailed") => At("release") \/ At("unwind") \/ Out
        /\ On("send") => At("await") \/ At("rejectTrade") \/ Out
        /\ On("await") => At("markSent") \/ At("rejectTrade") \/ Out
    BY DEF After, Critical
  <2>4. /\ On("markSent") => At("confirm") \/ At("unwind") \/ Out
        /\ On("confirm") => At("markFilled") \/ At("unwind") \/ Out
        /\ On("markFilled") => At("release") \/ At("unwind") \/ Out
        /\ On("rejectTrade") => At("rejectOrder") \/ Out
        /\ On("rejectOrder") => At("release") \/ At("unwind") \/ Out
        /\ On("release") => Out
        /\ On("unwind") => Out
    BY DEF After, Critical
  <2>5. pc[i] \in Critical =>
          \/ At("risk") \/ At("intent") \/ At("approve") \/ At("journal") \/ At("journalFailed")
          \/ At("send") \/ At("await") \/ At("markSent") \/ At("confirm") \/ At("markFilled")
          \/ At("rejectTrade") \/ At("rejectOrder") \/ At("release") \/ At("unwind")
    BY DEF Critical
  <2> HIDE DEF Out, At, On, Leaves
  <2>6. /\ Leaves("risk") /\ Leaves("intent") /\ Leaves("approve") /\ Leaves("journal")
        /\ Leaves("journalFailed") /\ Leaves("send") /\ Leaves("markSent") /\ Leaves("confirm")
        /\ Leaves("markFilled") /\ Leaves("rejectTrade") /\ Leaves("rejectOrder")
        /\ Leaves("release") /\ Leaves("unwind")
    BY <2>1 DEF Critical
  <2>7. Fair => (At("release") ~> Out) /\ (At("unwind") ~> Out)
    BY <2>4, <2>6, PTL DEF Leaves
  <2>8. Fair => /\ At("journalFailed") ~> Out
                /\ At("rejectOrder") ~> Out
                /\ At("markFilled") ~> Out
    BY <2>3, <2>4, <2>6, <2>7, PTL DEF Leaves
  <2>9. Fair => (At("rejectTrade") ~> Out) /\ (At("confirm") ~> Out)
    BY <2>4, <2>6, <2>7, <2>8, PTL DEF Leaves
  <2>10. Fair => At("markSent") ~> Out
    BY <2>4, <2>6, <2>7, <2>9, PTL DEF Leaves
  <2>11. Fair => At("await") ~> Out
    BY <2>2, <2>3, <2>9, <2>10, PTL DEF Leaves
  <2>12. Fair => At("send") ~> Out
    BY <2>3, <2>6, <2>9, <2>11, PTL DEF Leaves
  <2>13. Fair => At("journal") ~> Out
    BY <2>3, <2>6, <2>8, <2>12, PTL DEF Leaves
  <2>14. Fair => At("approve") ~> Out
    BY <2>3, <2>6, <2>7, <2>13, PTL DEF Leaves
  <2>15. Fair => At("intent") ~> Out
    BY <2>3, <2>6, <2>7, <2>14, PTL DEF Leaves
  <2>16. Fair => At("risk") ~> Out
    BY <2>3, <2>6, <2>7, <2>15, PTL DEF Leaves
  <2>17. Fair => (pc[i] \in Critical ~> Out)
    BY <2>5, <2>7, <2>8, <2>9, <2>10, <2>11, <2>12, <2>13, <2>14, <2>15, <2>16, PTL DEF Leaves
  <2> QED
    BY <2>17 DEF Out
<1>2. Spec => []TypeInv /\ [][Next]_vars
  BY TypeInvariant, PTL DEF Spec
<1>3. /\ []TypeInv /\ [][Next]_vars /\ []BrokerAnswers /\ (\A i \in Inst : CallProgress(i))
      => SagaEnds
  BY <1>1 DEF SagaEnds
<1> QED
  BY <1>2, <1>3, PTL

\* The background task wakes while its process runs, and completes.
BackgroundProgress(i) ==
  /\ []<>~(Running(i) /\ bg[i] = "sleep") \/ []<><<BgQuery(i)>>_vars
  /\ []<>~(bg[i] = "compare") \/ []<><<BgCompare(i)>>_vars

\* Nobody but the background task touches its report, while the process runs.
LEMMA ReportStays ==
  ASSUME TypeInv, [Next]_vars, NEW i \in Inst, Running(i), Running(i)',
         ~BgQuery(i), ~BgCompare(i)
  PROVE  bg'[i] = bg[i] /\ snap'[i] = snap[i]
<1>1. CASE UNCHANGED procVars
  BY <1>1 DEF procVars
<1>2. CASE \E j \in Inst \ {i} : \/ Start(j) \/ StartStep(j) \/ Loop(j) \/ BgQuery(j)
                                 \/ BgCompare(j) \/ Crash(j) \/ Stop(j)
  BY <1>2, OthersStay
<1>3. CASE Loop(i)
  BY <1>3, LoopMoves
<1>4. ~(Start(i) \/ StartStep(i))
  BY DEF Start, StartStep, Recover, StartQuery, StartCompare, ClaimLease, From, Running, StartUp
<1>5. ~(Crash(i) \/ Stop(i))
  BY DEF Crash, Stop, Exit, Goto, Running, TypeInv, TypeOK, ProcTypeOK
<1>6. CASE \/ \E s \in Account \X Symbol : OperatorFreesLease(s)
           \/ \E c \in Cid : ManualClose(c) \/ PendingAges(c)
           \/ \E t \in Ticket : BrokerFill(t) \/ BrokerReject(t) \/ BrokerClose(t)
           \/ Tick \/ UNCHANGED vars
  BY <1>1, <1>6
  DEF OperatorFreesLease, ManualClose, PendingAges, BrokerFill, BrokerReject, BrokerClose,
      Tick, vars
<1> QED
  BY <1>2, <1>3, <1>4, <1>5, <1>6 DEF Next, Loop

\* A round of the background task that sees the orphan, and one that compares it.
LEMMA OrphanIsRead ==
  ASSUME TypeInv, ~BrokerQueryFails, NEW i \in Inst, NEW t \in Ticket,
         t \in Visible(i), BgQuery(i)
  PROVE  bg'[i] = "compare" /\ t \in snap'[i]
BY DEF BgQuery, BrokerShows, TypeInv, TypeOK, ProcTypeOK

LEMMA OrphanIsCritical ==
  ASSUME TypeInv, NEW i \in Inst, NEW t \in snap[i], ~Accounted(i, t), BgCompare(i)
  PROVE  halted'[i]
<1>1. Orphans(i, snap[i]) # {}
  BY DEF Orphans
<1> QED
  BY <1>1 DEF BgCompare, ReconcileCritical, TypeInv, TypeOK, ProcTypeOK

\* With a position list that is not lost, a position that no OPEN row of a running instance
\* accounts for trips its kill switch, unless it is gone or accounted for first: for any
\* instances, orders and faults, if the background task wakes and completes (main.py,
\* _bg_reconcile; reconciler.py).
THEOREM OrphansHalt ==
  ASSUME ~BrokerQueryFails
  PROVE  Spec /\ (\A i \in Inst : BackgroundProgress(i)) => OrphanHalts
<1>1. ASSUME NEW i \in Inst, NEW t \in Ticket
      PROVE  []TypeInv /\ [][Next]_vars /\ BackgroundProgress(i)
               => (Running(i) /\ t \in Visible(i) /\ ~Accounted(i, t) ~>
                     \/ ~Running(i)
                     \/ halted[i]
                     \/ t \notin positions
                     \/ Accounted(i, t))
  <2> DEFINE Here == Running(i) /\ t \in Visible(i) /\ ~Accounted(i, t)
             Done == ~Running(i) \/ halted[i] \/ t \notin positions \/ Accounted(i, t)
             Sleeps == Here /\ bg[i] = "sleep"
             Missed == Here /\ bg[i] = "compare" /\ t \notin snap[i]
             Seen == Here /\ bg[i] = "compare" /\ t \in snap[i]
  <2>1. TypeInv /\ Here => Sleeps \/ Missed \/ Seen
    BY DEF TypeInv, TypeOK, ProcTypeOK
  <2>2. Here /\ [Next]_vars => Here' \/ Done'
    BY DEF Visible
  <2>3. TypeInv /\ Missed /\ [Next]_vars => Missed' \/ Sleeps' \/ Done'
    <3> SUFFICES ASSUME TypeInv, Missed, [Next]_vars, Here'
                 PROVE  Missed' \/ Sleeps'
      BY <2>2
    <3>1. ~BgQuery(i)
      BY DEF BgQuery
    <3>2. CASE BgCompare(i)
      BY <3>2 DEF BgCompare, TypeInv, TypeOK, ProcTypeOK
    <3>3. CASE ~BgCompare(i)
      BY <3>1, <3>3, ReportStays
    <3> QED
      BY <3>2, <3>3
  <2>4. TypeInv /\ Missed /\ <<BgCompare(i)>>_vars => ~Missed'
    BY DEF BgCompare, TypeInv, TypeOK, ProcTypeOK
  <2>5. TypeInv /\ Sleeps /\ [Next]_vars => Sleeps' \/ Seen' \/ Done'
    <3> SUFFICES ASSUME TypeInv, Sleeps, [Next]_vars, Here'
                 PROVE  Sleeps' \/ Seen'
      BY <2>2
    <3>1. ~BgCompare(i)
      BY DEF BgCompare
    <3>2. CASE BgQuery(i)
      BY <3>2, OrphanIsRead
    <3>3. CASE ~BgQuery(i)
      BY <3>1, <3>3, ReportStays
    <3> QED
      BY <3>2, <3>3
  <2>6. TypeInv /\ Sleeps /\ <<BgQuery(i)>>_vars => ~Sleeps'
    BY OrphanIsRead
  <2>7. TypeInv /\ Seen /\ [Next]_vars => Seen' \/ Done'
    <3> SUFFICES ASSUME TypeInv, Seen, [Next]_vars, Here', ~halted'[i]
                 PROVE  Seen'
      BY <2>2
    <3>1. ~BgQuery(i)
      BY DEF BgQuery
    <3>2. ~BgCompare(i)
      BY OrphanIsCritical
    <3> QED
      BY <3>1, <3>2, ReportStays
  <2>8. TypeInv /\ Seen /\ <<BgCompare(i)>>_vars => Done'
    BY OrphanIsCritical
  <2>9. /\ Sleeps => Running(i) /\ bg[i] = "sleep"
        /\ Missed \/ Seen => bg[i] = "compare"
    OBVIOUS
  <2> HIDE DEF Here, Done, Sleeps, Missed, Seen
  <2>10. []TypeInv /\ [][Next]_vars /\ BackgroundProgress(i) => (Here ~> Done)
    BY <2>1, <2>3, <2>4, <2>5, <2>6, <2>7, <2>8, <2>9, PTL DEF BackgroundProgress
  <2>11. /\ Running(i) /\ t \in Visible(i) /\ ~Accounted(i, t) => Here
         /\ Done => ~Running(i) \/ halted[i] \/ t \notin positions \/ Accounted(i, t)
    BY DEF Here, Done
  <2> QED
    BY <2>10, <2>11, PTL
<1>2. Spec => []TypeInv /\ [][Next]_vars
  BY TypeInvariant, PTL DEF Spec
<1>3. []TypeInv /\ [][Next]_vars /\ (\A i \in Inst : BackgroundProgress(i)) => OrphanHalts
  BY <1>1 DEF OrphanHalts
<1> QED
  BY <1>2, <1>3, PTL

\* What is left to TLC: where a task can get on, its step is enabled.  With that, the weak
\* fairness of the specification is the progress of the tasks assumed above; the answers of
\* the broker are its fairness for each ticket, at all times.
StepsAreEnabled ==
  \A i \in Inst :
    /\ pc[i] \in AtPreflight => ENABLED <<CrossRisk(i) \/ PersistIntent(i)>>_vars
    /\ pc[i] \in AtSubmit /\ ~Waits(i) => ENABLED <<Submit(i)>>_vars
    /\ pc[i] \in AtFinalize => ENABLED <<Finalize(i)>>_vars
    /\ Running(i) /\ bg[i] = "sleep" => ENABLED <<BgQuery(i)>>_vars
    /\ bg[i] = "compare" => ENABLED <<BgCompare(i)>>_vars

FairnessOf(i) ==
  /\ WF_vars(CrossRisk(i) \/ PersistIntent(i))
  /\ WF_vars(Submit(i))
  /\ WF_vars(Finalize(i))
  /\ WF_vars(BgQuery(i))
  /\ WF_vars(BgCompare(i))

LEMMA FairTasksProgress ==
  FairSpec /\ []StepsAreEnabled => \A i \in Inst : CallProgress(i) /\ BackgroundProgress(i)
<1>1. ASSUME NEW i \in Inst
      PROVE  []StepsAreEnabled /\ FairnessOf(i) => CallProgress(i) /\ BackgroundProgress(i)
  <2>1. StepsAreEnabled =>
          /\ pc[i] \in AtPreflight => ENABLED <<CrossRisk(i) \/ PersistIntent(i)>>_vars
          /\ pc[i] \in AtSubmit /\ ~Waits(i) => ENABLED <<Submit(i)>>_vars
          /\ pc[i] \in AtFinalize => ENABLED <<Finalize(i)>>_vars
          /\ Running(i) /\ bg[i] = "sleep" => ENABLED <<BgQuery(i)>>_vars
          /\ bg[i] = "compare" => ENABLED <<BgCompare(i)>>_vars
    BY DEF StepsAreEnabled
  <2> QED
    BY <2>1, PTL DEF FairnessOf, CallProgress, BackgroundProgress
<1>2. []StepsAreEnabled /\ (\A i \in Inst : FairnessOf(i)) =>
        \A i \in Inst : CallProgress(i) /\ BackgroundProgress(i)
  BY <1>1
<1> QED
  BY <1>2, PTL DEF FairSpec, Fairness, FairnessOf
=============================================================================
