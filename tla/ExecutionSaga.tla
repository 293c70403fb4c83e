--------------------------- MODULE ExecutionSaga ---------------------------
(***************************************************************************)
(* The life of a live market order: the trading loop of every running      *)
(* instance drives a client order id (a signal's deterministic hash)       *)
(* through the per-symbol execution lock, the cross-instance risk check,   *)
(* the order intent, the trade journal, the broker, and back through the   *)
(* confirmation writes.  Every database write is a commit of its own, so   *)
(* a crash, a failed write, another instance, the broker and the           *)
(* background reconciler interleave between any two of them.               *)
(*                                                                         *)
(* Code: execution/control_plane.py, execution/service.py,                 *)
(* execution/recovery.py, execution/reconciler.py, the live branch of      *)
(* execution/mt5_executor.py, the loop's cycle, and main.py's start-up and *)
(* background task.  Dry-run mode has no broker and is not modelled.       *)
(***************************************************************************)
EXTENDS Integers, FiniteSets

CONSTANTS
  Inst,             \* instance ids
  Symbol,           \* traded symbols
  Account,          \* broker logins
  Cid,              \* client order ids (unique key of order_records)
  SymOf,            \* the symbol an instance trades (--symbol)
  AccOf,            \* the login an instance trades with
  CidSym,           \* the symbol hashed into a client order id
  TTL,              \* _LOCK_TTL_SEC, in ticks
  MaxOpen,          \* max_total_open_positions
  MaxFaults,        \* bound: crashes, failed writes, lost replies, failed queries
  BrokerQueryFails, \* may get_open_positions swallow an error and return []
  ReplyLost,        \* may order_send fail to report what the broker did
  NoInst, NoCid, NoTicket

ASSUME InstanceAssumption ==
  /\ NoInst \notin Inst
  /\ NoCid \notin Cid
  /\ NoTicket \notin Inst \X Cid
  /\ SymOf \in [Inst -> Symbol]
  /\ AccOf \in [Inst -> Account]
  /\ CidSym \in [Cid -> Symbol]

ASSUME BoundAssumption ==
  /\ TTL \in Nat
  /\ MaxOpen \in Nat
  /\ MaxFaults \in Nat
  /\ BrokerQueryFails \in BOOLEAN
  /\ ReplyLost \in BOOLEAN

VARIABLES
  \* Process-local state, lost in a crash.
  pc,            \* where the instance's main task is
  cur,           \* the client order id in flight
  forced,        \* started with --force-start --force-reason
  halted,        \* RiskMonitor kill switch / no-new-risk reasons
  bg,            \* where the background reconciliation task is
  snap,          \* the broker positions a reconciliation has read
  book,          \* the OPEN rows the cycle read for repositioning
  dirty,         \* those it marked CLOSED in its uncommitted session
  \* execution_locks, scope "login|symbol|default"
  lease,
  \* execution_locks, scope "exec:<symbol>"
  lockOwner, lockAge,
  holdAge,       \* observer: ticks since the instance acquired its lock
  \* order_records
  orderStatus, orderInst, orderTicket,
  \* trade_logs
  tradeOutcome, tradeTicket, tradeStale,
  \* the broker; a ticket is <<instance that sent, client order id>>
  requests, fills, positions,
  sends,         \* observer: order_send calls per client order id
  faults

procVars   == <<pc, cur, forced, halted, bg, snap, book, dirty>>
lockVars   == <<lockOwner, lockAge, holdAge>>
orderVars  == <<orderStatus, orderInst, orderTicket>>
tradeVars  == <<tradeOutcome, tradeTicket, tradeStale>>
brokerVars == <<requests, fills, positions, sends>>
vars == <<procVars, lease, lockVars, orderVars, tradeVars, brokerVars, faults>>

Ticket == Inst \X Cid
Scope(i) == <<AccOf[i], SymOf[i]>>

NonTerminal == {"PENDING", "APPROVED", "SENT"}
OrderStatus == {"none", "FILLED", "REJECTED", "FAILED"} \cup NonTerminal
TradeOutcome == {"none", "PENDING", "OPEN", "REJECTED", "FAILED", "CLOSED"}

\* Between a successful _acquire_execution_lock and the end of its release.
Critical ==
  {"risk", "intent", "approve", "journal", "journalFailed", "send", "await",
   "markSent", "confirm", "markFilled", "rejectTrade", "rejectOrder",
   "release", "unwind"}
StartUp == {"recover", "startQuery", "startCompare", "lease"}
Label ==
  {"down", "idle", "cycle", "manage", "reposition"} \cup StartUp \cup Critical

Running(i) == pc[i] \notin StartUp \cup {"down"}

Init ==
  /\ pc = [i \in Inst |-> "down"]
  /\ cur = [i \in Inst |-> NoCid]
  /\ forced = [i \in Inst |-> FALSE]
  /\ halted = [i \in Inst |-> FALSE]
  /\ bg = [i \in Inst |-> "sleep"]
  /\ snap = [i \in Inst |-> {}]
  /\ book = [i \in Inst |-> {}]
  /\ dirty = [i \in Inst |-> {}]
  /\ lease = [s \in Account \X Symbol |-> NoInst]
  /\ lockOwner = [s \in Symbol |-> NoInst]
  /\ lockAge = [s \in Symbol |-> 0]
  /\ holdAge = [i \in Inst |-> 0]
  /\ orderStatus = [c \in Cid |-> "none"]
  /\ orderInst = [c \in Cid |-> NoInst]
  /\ orderTicket = [c \in Cid |-> NoTicket]
  /\ tradeOutcome = [c \in Cid |-> "none"]
  /\ tradeTicket = [c \in Cid |-> NoTicket]
  /\ tradeStale = [c \in Cid |-> FALSE]
  /\ requests = {}
  /\ fills = {}
  /\ positions = {}
  /\ sends = [c \in Cid |-> 0]
  /\ faults = 0

----------------------------------------------------------------------------
Goto(i, l) == pc' = [pc EXCEPT ![i] = l]
From(i, l) == pc[i] = l
SetOrder(c, s) == orderStatus' = [orderStatus EXCEPT ![c] = s]
SetTrade(c, o) == tradeOutcome' = [tradeOutcome EXCEPT ![c] = o]

Healthy == UNCHANGED faults
Fault   == faults < MaxFaults /\ faults' = faults + 1

OnlyPc    == UNCHANGED <<cur, forced, halted, bg, snap, book, dirty>>
SameStore == UNCHANGED <<orderVars, tradeVars>>

\* The process is gone: everything it kept in memory goes with it.
Exit(i) ==
  /\ Goto(i, "down")
  /\ cur' = [cur EXCEPT ![i] = NoCid]
  /\ forced' = [forced EXCEPT ![i] = FALSE]
  /\ halted' = [halted EXCEPT ![i] = FALSE]
  /\ bg' = [bg EXCEPT ![i] = "sleep"]
  /\ snap' = [snap EXCEPT ![i] = {}]
  /\ book' = [book EXCEPT ![i] = {}]
  /\ dirty' = [dirty EXCEPT ![i] = {}]

----------------------------------------------------------------------------
\* What the broker and the database show.

\* get_open_positions: the account's positions on the symbol.  The magic
\* number is shared, so another instance's positions are included.
Visible(i) == {t \in positions : Scope(t[1]) = Scope(i)}

\* One call of get_open_positions: an error is swallowed and read as [].
BrokerShows(i, view) ==
  \/ view = Visible(i) /\ Healthy
  \/ BrokerQueryFails /\ view = {} /\ Fault

OpenTrades == {c \in Cid : tradeOutcome[c] = "OPEN"}

\* The instance has an OPEN trade row that carries the ticket.
Accounted(i, t) ==
  \E c \in OpenTrades : orderInst[c] = i /\ tradeTicket[c] = t

\* Mutant: any row that names the id accounts for the position.
OrphansWithoutRow(i, view) == {t \in view : tradeOutcome[t[2]] = "none"}

Orphans(i, view) == {t \in view : ~Accounted(i, t)}

StalePending(i, view) ==
  {c \in Cid : /\ tradeOutcome[c] = "PENDING"
               /\ orderInst[c] = i
               /\ tradeStale[c]
               /\ tradeTicket[c] \notin view}

\* Mutant: an order that never got a ticket is taken for one never sent.
UnresolvedTicketed(i, view) ==
  {c \in Cid : /\ orderStatus[c] \in NonTerminal
               /\ orderInst[c] = i
               /\ orderTicket[c] # NoTicket
               /\ orderTicket[c] \notin view}

\* Orders of the instance that start-up recovery cannot match to a position.
Unresolved(i, view) ==
  {c \in Cid : /\ orderStatus[c] \in NonTerminal
               /\ orderInst[c] = i
               /\ orderTicket[c] \notin view}

\* reconcile after its broker query: TRUE when the report has a critical
\* issue.  A failing read of the PENDING rows is only logged; a failing read
\* of the OPEN rows is itself a critical issue.
ReconcileCritical(i, view, critical) ==
  \/ /\ critical = (Orphans(i, view) # {} \/ StalePending(i, view) # {})
     /\ Healthy
  \/ /\ critical = (Orphans(i, view) # {})
     /\ Fault
  \/ /\ critical = TRUE
     /\ Fault

----------------------------------------------------------------------------
\* Start-up (main.py).  The recovery session and the reconciliation session
\* are closed without a commit, so what they write is rolled back.

Start(i) ==
  /\ From(i, "down")
  /\ Goto(i, "recover")
  /\ \E f \in BOOLEAN : forced' = [forced EXCEPT ![i] = f]
  /\ UNCHANGED <<cur, halted, bg, snap, book, dirty>>
  /\ SameStore
  /\ UNCHANGED <<lease, lockVars, brokerVars, faults>>

Recover(i) ==
  /\ From(i, "recover")
  /\ \/ \E view \in SUBSET positions :
          /\ BrokerShows(i, view)
          /\ IF Unresolved(i, view) = {} \/ forced[i]
               THEN Goto(i, "startQuery") /\ OnlyPc
               ELSE Exit(i)
     \/ Fault /\ Exit(i)
  /\ SameStore
  /\ UNCHANGED <<lease, lockVars, brokerVars>>

StartQuery(i) ==
  /\ From(i, "startQuery")
  /\ Goto(i, "startCompare")
  /\ \E view \in SUBSET positions :
       BrokerShows(i, view) /\ snap' = [snap EXCEPT ![i] = view]
  /\ UNCHANGED <<cur, forced, halted, bg, book, dirty>>
  /\ SameStore
  /\ UNCHANGED <<lease, lockVars, brokerVars>>

StartCompare(i) ==
  /\ From(i, "startCompare")
  /\ \E critical \in BOOLEAN :
       /\ ReconcileCritical(i, snap[i], critical)
       /\ IF critical /\ ~forced[i]
            THEN Exit(i)
            ELSE /\ Goto(i, "lease")
                 /\ snap' = [snap EXCEPT ![i] = {}]
                 /\ UNCHANGED <<cur, forced, halted, bg, book, dirty>>
  /\ SameStore
  /\ UNCHANGED <<lease, lockVars, brokerVars>>

\* The single-writer row.  A row that is there stops the start: a fresh one by
\* the check of its age, a stale one because SQLite gives its heartbeat back
\* without a time zone and computing the age raises.  Seeding the risk monitor
\* may still fail once the row is written; it stays.
ClaimLease(i) ==
  /\ From(i, "lease")
  /\ \/ /\ lease[Scope(i)] = NoInst
        /\ lease' = [lease EXCEPT ![Scope(i)] = i]
        /\ Healthy
        /\ Goto(i, "idle")
        /\ forced' = [forced EXCEPT ![i] = FALSE]
        /\ UNCHANGED <<cur, halted, bg, snap, book, dirty>>
     \/ /\ lease[Scope(i)] = NoInst
        /\ lease' = [lease EXCEPT ![Scope(i)] = i]
        /\ Fault
        /\ Exit(i)
     \/ /\ lease[Scope(i)] # NoInst
        /\ Healthy
        /\ Exit(i)
        /\ UNCHANGED lease
  /\ SameStore
  /\ UNCHANGED <<lockVars, brokerVars>>

----------------------------------------------------------------------------
\* One trading cycle.

\* _cycle_inner: the risk pre-check reads the kill switch once, here.
Gate(i) ==
  /\ From(i, "idle")
  /\ ~halted[i]
  /\ Goto(i, "cycle")
  /\ OnlyPc /\ SameStore
  /\ UNCHANGED <<lease, lockVars, brokerVars, faults>>

\* Nothing to execute.  After a hypothesis that yields no construction the loop
\* reads an attribute it does not have and the cycle ends in an exception.
NoSignal(i) ==
  /\ From(i, "cycle")
  /\ Goto(i, "manage") \/ Goto(i, "idle")
  /\ OnlyPc /\ SameStore
  /\ UNCHANGED <<lease, lockVars, brokerVars, faults>>

\* Mutants: a lock that expires one tick early; one that never does.
LockFreeEarly(s) == lockOwner[s] = NoInst \/ lockAge[s] >= TTL
LockFreeReleased(s) == lockOwner[s] = NoInst

\* DELETE ... WHERE heartbeat_at < now - TTL, then INSERT under the unique key.
LockFree(s) == lockOwner[s] = NoInst \/ lockAge[s] > TTL

AcquireLock(i, c) ==
  /\ From(i, "cycle")
  /\ CidSym[c] = SymOf[i]
  /\ LockFree(SymOf[i])
  /\ Goto(i, "risk")
  /\ cur' = [cur EXCEPT ![i] = c]
  /\ lockOwner' = [lockOwner EXCEPT ![SymOf[i]] = i]
  /\ lockAge' = [lockAge EXCEPT ![SymOf[i]] = 0]
  /\ holdAge' = [holdAge EXCEPT ![i] = 0]
  /\ UNCHANGED <<forced, halted, bg, snap, book, dirty>>
  /\ SameStore
  /\ UNCHANGED <<lease, brokerVars, faults>>

\* Held by someone (possibly this instance, after a failed release), or the
\* lock table is unavailable: the trade is blocked, the cycle goes on.
LockBlocked(i) ==
  /\ From(i, "cycle")
  /\ \/ ~LockFree(SymOf[i]) /\ Healthy
     \/ Fault
  /\ Goto(i, "manage")
  /\ OnlyPc /\ SameStore
  /\ UNCHANGED <<lease, lockVars, brokerVars>>

\* CrossInstanceRiskAggregator.can_open_trade counts the OPEN rows of every
\* instance and symbol.  It may refuse below the cap as well: for its money caps,
\* for rows entered by hand (dry-run trades, which have no client order id), and
\* because it fails closed.
CrossRisk(i) ==
  /\ From(i, "risk")
  /\ \/ Cardinality(OpenTrades) < MaxOpen /\ Goto(i, "intent")
     \/ Goto(i, "release")
  /\ OnlyPc /\ SameStore
  /\ UNCHANGED <<lease, lockVars, brokerVars, faults>>

\* Mutant: the intent is written over an earlier one.
PersistIntentUpsert(i) ==
  /\ From(i, "intent")
  /\ SetOrder(cur[i], "PENDING")
  /\ orderInst' = [orderInst EXCEPT ![cur[i]] = i]
  /\ Goto(i, "approve")
  /\ OnlyPc
  /\ UNCHANGED <<orderTicket, tradeVars>>
  /\ UNCHANGED <<lease, lockVars, brokerVars, faults>>

\* The INSERT fails on a client order id that already has a row.
PersistIntent(i) ==
  /\ From(i, "intent")
  /\ \/ /\ orderStatus[cur[i]] = "none"
        /\ SetOrder(cur[i], "PENDING")
        /\ orderInst' = [orderInst EXCEPT ![cur[i]] = i]
        /\ Goto(i, "approve")
        /\ Healthy
     \/ /\ orderStatus[cur[i]] # "none"
        /\ Goto(i, "release")
        /\ Healthy
        /\ UNCHANGED <<orderStatus, orderInst>>
     \/ /\ Goto(i, "release")
        /\ Fault
        /\ UNCHANGED <<orderStatus, orderInst>>
  /\ OnlyPc
  /\ UNCHANGED <<orderTicket, tradeVars>>
  /\ UNCHANGED <<lease, lockVars, brokerVars>>

\* A write of the order row that fails raises; the finally clause releases.
WriteOrder(i, s, next) ==
  /\ \/ SetOrder(cur[i], s) /\ Goto(i, next) /\ Healthy
     \/ Goto(i, "unwind") /\ Fault /\ UNCHANGED orderStatus
  /\ OnlyPc
  /\ UNCHANGED <<orderInst, orderTicket, tradeVars>>
  /\ UNCHANGED <<lease, lockVars, brokerVars>>

Approve(i) == From(i, "approve") /\ WriteOrder(i, "APPROVED", "journal")

\* Mutant: a journal that cannot be written does not stop the order.
CreatePendingTradeBestEffort(i) ==
  /\ From(i, "journal")
  /\ \/ SetTrade(cur[i], "PENDING") /\ Healthy
     \/ UNCHANGED tradeOutcome /\ Fault
  /\ Goto(i, "send")
  /\ OnlyPc
  /\ UNCHANGED <<tradeTicket, tradeStale, orderVars>>
  /\ UNCHANGED <<lease, lockVars, brokerVars>>

CreatePendingTrade(i) ==
  /\ From(i, "journal")
  /\ \/ SetTrade(cur[i], "PENDING") /\ Goto(i, "send") /\ Healthy
     \/ Goto(i, "journalFailed") /\ Fault /\ UNCHANGED tradeOutcome
  /\ OnlyPc
  /\ UNCHANGED <<tradeTicket, tradeStale, orderVars>>
  /\ UNCHANGED <<lease, lockVars, brokerVars>>

JournalFailed(i) == From(i, "journalFailed") /\ WriteOrder(i, "FAILED", "release")

\* open_order: no terminal or no tick, or order_send is called in a thread.
SendOrder(i) ==
  /\ From(i, "send")
  /\ \/ /\ Goto(i, "rejectTrade")
        /\ UNCHANGED <<requests, sends>>
     \/ /\ requests' = requests \cup {<<i, cur[i]>>}
        /\ sends' = [sends EXCEPT ![cur[i]] = @ + 1]
        /\ Goto(i, "await")
  /\ OnlyPc /\ SameStore
  /\ UNCHANGED <<lease, lockVars, fills, positions, faults>>

Reply(i, next) ==
  /\ Goto(i, next)
  /\ OnlyPc /\ SameStore
  /\ UNCHANGED <<lease, lockVars, brokerVars>>

\* Mutant: any answer is read as DONE.
AwaitAnswered(i) ==
  /\ From(i, "await")
  /\ <<i, cur[i]>> \notin requests
  /\ Reply(i, "markSent")
  /\ Healthy

AwaitFilled(i) ==
  /\ From(i, "await")
  /\ <<i, cur[i]>> \in fills
  /\ Reply(i, "markSent")
  /\ Healthy

\* Mutants: no fill yet is read as a rejection; only a fill ends the wait.
AwaitImpatient(i) ==
  /\ From(i, "await")
  /\ <<i, cur[i]>> \notin fills
  /\ Reply(i, "rejectTrade")
  /\ Healthy
AwaitFillOnly(i) == AwaitFilled(i)

AwaitRejected(i) ==
  /\ From(i, "await")
  /\ <<i, cur[i]>> \notin requests \cup fills
  /\ Reply(i, "rejectTrade")
  /\ Healthy

\* order_send returned None, raised, or answered with a code other than DONE:
\* read as a rejection, whatever the broker did or will do with the request.
AwaitLost(i) ==
  /\ From(i, "await")
  /\ ReplyLost
  /\ Reply(i, "rejectTrade")
  /\ Fault

MarkSent(i) ==
  /\ From(i, "markSent")
  /\ \/ /\ SetOrder(cur[i], "SENT")
        /\ orderTicket' = [orderTicket EXCEPT ![cur[i]] = <<i, cur[i]>>]
        /\ Goto(i, "confirm")
        /\ Healthy
     \/ /\ Goto(i, "unwind")
        /\ Fault
        /\ UNCHANGED <<orderStatus, orderTicket>>
  /\ OnlyPc
  /\ UNCHANGED <<orderInst, tradeVars>>
  /\ UNCHANGED <<lease, lockVars, brokerVars>>

ConfirmTrade(i) ==
  /\ From(i, "confirm")
  /\ \/ /\ SetTrade(cur[i], "OPEN")
        /\ tradeTicket' = [tradeTicket EXCEPT ![cur[i]] = <<i, cur[i]>>]
        /\ Goto(i, "markFilled")
        /\ Healthy
     \/ /\ Goto(i, "unwind")
        /\ Fault
        /\ UNCHANGED <<tradeOutcome, tradeTicket>>
  /\ OnlyPc
  /\ UNCHANGED <<tradeStale, orderVars>>
  /\ UNCHANGED <<lease, lockVars, brokerVars>>

\* Mutant: the trade's vocabulary in the order's column.
MarkFilledOpen(i) == From(i, "markFilled") /\ WriteOrder(i, "OPEN", "release")

MarkFilled(i) == From(i, "markFilled") /\ WriteOrder(i, "FILLED", "release")

\* _update_trade_outcome swallows a failed write.
RejectTrade(i) ==
  /\ From(i, "rejectTrade")
  /\ Goto(i, "rejectOrder")
  /\ \/ SetTrade(cur[i], "REJECTED") /\ Healthy
     \/ UNCHANGED tradeOutcome /\ Fault
  /\ OnlyPc
  /\ UNCHANGED <<tradeTicket, tradeStale, orderVars>>
  /\ UNCHANGED <<lease, lockVars, brokerVars>>

\* Mutant: a rejected order is sent again.
RejectOrderRetry(i) == From(i, "rejectOrder") /\ WriteOrder(i, "APPROVED", "send")

RejectOrder(i) == From(i, "rejectOrder") /\ WriteOrder(i, "REJECTED", "release")

\* DELETE ... WHERE owner_uuid = mine, or a logged failure that leaves the row
\* to its TTL.  An exception on its way out ends the cycle.
Release(i) ==
  /\ \/ From(i, "release") /\ Goto(i, "manage")
     \/ From(i, "unwind") /\ Goto(i, "idle")
  /\ cur' = [cur EXCEPT ![i] = NoCid]
  /\ holdAge' = [holdAge EXCEPT ![i] = 0]
  /\ \/ /\ lockOwner' = [s \in Symbol |->
             IF s = SymOf[i] /\ lockOwner[s] = i THEN NoInst ELSE lockOwner[s]]
        /\ lockAge' = [s \in Symbol |->
             IF s = SymOf[i] /\ lockOwner[s] = i THEN 0 ELSE lockAge[s]]
        /\ Healthy
     \/ UNCHANGED <<lockOwner, lockAge>> /\ Fault
  /\ UNCHANGED <<forced, halted, bg, snap, book, dirty>>
  /\ SameStore
  /\ UNCHANGED <<lease, brokerVars>>

----------------------------------------------------------------------------
\* The end of the cycle: repositioning, in the cycle's database session.

\* get_open_trades(symbol): rows of every instance and every account.
ReadOpenTrades(i) ==
  /\ From(i, "manage")
  /\ Goto(i, "reposition")
  /\ book' = [book EXCEPT ![i] = {c \in OpenTrades : CidSym[c] = SymOf[i]}]
  /\ UNCHANGED <<cur, forced, halted, bg, snap, dirty>>
  /\ SameStore
  /\ UNCHANGED <<lease, lockVars, brokerVars, faults>>

\* A full_close event: the broker is asked on this instance's account, its
\* answer is ignored and the row is marked CLOSED.
RepositionClose(i, c) ==
  /\ From(i, "reposition")
  /\ c \in book[i] \ dirty[i]
  /\ dirty' = [dirty EXCEPT ![i] = @ \cup {c}]
  /\ \/ positions' = positions \ {t \in Visible(i) : t = tradeTicket[c]}
     \/ UNCHANGED positions
  /\ UNCHANGED <<pc, cur, forced, halted, bg, snap, book>>
  /\ SameStore
  /\ UNCHANGED <<lease, lockVars, requests, fills, sends, faults>>

\* _cycle's finally clause: commit the session, or roll it back.
EndCycle(i) ==
  /\ From(i, "reposition")
  /\ Goto(i, "idle")
  /\ book' = [book EXCEPT ![i] = {}]
  /\ dirty' = [dirty EXCEPT ![i] = {}]
  /\ \/ /\ tradeOutcome' = [c \in Cid |->
             IF c \in dirty[i] THEN "CLOSED" ELSE tradeOutcome[c]]
        /\ Healthy
     \/ UNCHANGED tradeOutcome /\ Fault
  /\ UNCHANGED <<cur, forced, halted, bg, snap>>
  /\ UNCHANGED <<tradeTicket, tradeStale, orderVars>>
  /\ UNCHANGED <<lease, lockVars, brokerVars>>

----------------------------------------------------------------------------
\* The background reconciliation task; it runs between any two awaits of the
\* main task, and its two reads are not one snapshot.

BgQuery(i) ==
  /\ Running(i)
  /\ bg[i] = "sleep"
  /\ bg' = [bg EXCEPT ![i] = "compare"]
  /\ \E view \in SUBSET positions :
       BrokerShows(i, view) /\ snap' = [snap EXCEPT ![i] = view]
  /\ UNCHANGED <<pc, cur, forced, halted, book, dirty>>
  /\ SameStore
  /\ UNCHANGED <<lease, lockVars, brokerVars>>

\* A critical report, or an exception, trips the kill switch.
BgCompare(i) ==
  /\ bg[i] = "compare"
  /\ bg' = [bg EXCEPT ![i] = "sleep"]
  /\ snap' = [snap EXCEPT ![i] = {}]
  /\ \E critical \in BOOLEAN :
       /\ ReconcileCritical(i, snap[i], critical)
       /\ halted' = [halted EXCEPT ![i] = @ \/ critical]
  /\ UNCHANGED <<pc, cur, forced, book, dirty>>
  /\ SameStore
  /\ UNCHANGED <<lease, lockVars, brokerVars>>

----------------------------------------------------------------------------
\* Processes that stop, and what is outside them.

Crash(i) ==
  /\ pc[i] # "down"
  /\ Fault
  /\ Exit(i)
  /\ holdAge' = [holdAge EXCEPT ![i] = 0]
  /\ SameStore
  /\ UNCHANGED <<lease, lockOwner, lockAge, brokerVars>>

\* SIGTERM between cycles.  The lease row is deleted by its scope.
Stop(i) ==
  /\ From(i, "idle")
  /\ Exit(i)
  /\ \/ lease' = [lease EXCEPT ![Scope(i)] = NoInst] /\ Healthy
     \/ UNCHANGED lease /\ Fault
  /\ SameStore
  /\ UNCHANGED <<lockVars, brokerVars>>

\* Someone deletes the single-writer row a dead process has left behind.
OperatorFreesLease(s) ==
  /\ lease[s] # NoInst
  /\ ~Running(lease[s])
  /\ lease' = [lease EXCEPT ![s] = NoInst]
  /\ SameStore
  /\ UNCHANGED <<procVars, lockVars, brokerVars, faults>>

\* POST /api/bots/{id}/trades/close: the row only, the broker is not asked.
ManualClose(c) ==
  /\ tradeOutcome[c] = "OPEN"
  /\ SetTrade(c, "CLOSED")
  /\ UNCHANGED <<tradeTicket, tradeStale, orderVars>>
  /\ UNCHANGED <<procVars, lease, lockVars, brokerVars, faults>>

BrokerFill(t) ==
  /\ t \in requests
  /\ requests' = requests \ {t}
  /\ fills' = fills \cup {t}
  /\ positions' = positions \cup {t}
  /\ SameStore
  /\ UNCHANGED <<procVars, lease, lockVars, sends, faults>>

BrokerReject(t) ==
  /\ t \in requests
  /\ requests' = requests \ {t}
  /\ SameStore
  /\ UNCHANGED <<procVars, lease, lockVars, fills, positions, sends, faults>>

\* Stop loss, take profit, or a manual close in the terminal.
BrokerClose(t) ==
  /\ t \in positions
  /\ positions' = positions \ {t}
  /\ SameStore
  /\ UNCHANGED <<procVars, lease, lockVars, requests, fills, sends, faults>>

\* Ages saturate one tick past the TTL: beyond it nothing depends on them.
Older(age) == IF age <= TTL THEN age + 1 ELSE age

Tick ==
  /\ lockAge' = [s \in Symbol |->
       IF lockOwner[s] = NoInst THEN 0 ELSE Older(lockAge[s])]
  /\ holdAge' = [i \in Inst |->
       IF pc[i] \in Critical THEN Older(holdAge[i]) ELSE 0]
  /\ SameStore
  /\ UNCHANGED <<procVars, lease, lockOwner, brokerVars, faults>>

\* Five minutes after its insert.
PendingAges(c) ==
  /\ tradeOutcome[c] = "PENDING"
  /\ ~tradeStale[c]
  /\ tradeStale' = [tradeStale EXCEPT ![c] = TRUE]
  /\ UNCHANGED <<tradeOutcome, tradeTicket, orderVars>>
  /\ UNCHANGED <<procVars, lease, lockVars, brokerVars, faults>>

----------------------------------------------------------------------------
StartStep(i) == Recover(i) \/ StartQuery(i) \/ StartCompare(i) \/ ClaimLease(i)

Preflight(i) ==
  \/ \E c \in Cid : AcquireLock(i, c)
  \/ LockBlocked(i) \/ CrossRisk(i) \/ PersistIntent(i)

Submit(i) ==
  \/ Approve(i) \/ CreatePendingTrade(i) \/ JournalFailed(i)
  \/ SendOrder(i) \/ AwaitFilled(i) \/ AwaitRejected(i) \/ AwaitLost(i)

Finalize(i) ==
  \/ MarkSent(i) \/ ConfirmTrade(i) \/ MarkFilled(i)
  \/ RejectTrade(i) \/ RejectOrder(i) \/ Release(i)

Manage(i) ==
  \/ ReadOpenTrades(i) \/ EndCycle(i)
  \/ \E c \in Cid : RepositionClose(i, c)

Next ==
  \/ \E i \in Inst :
       \/ Start(i) \/ StartStep(i)
       \/ Gate(i) \/ NoSignal(i)
       \/ Preflight(i) \/ Submit(i) \/ Finalize(i) \/ Manage(i)
       \/ BgQuery(i) \/ BgCompare(i)
       \/ Crash(i) \/ Stop(i)
  \/ \E s \in Account \X Symbol : OperatorFreesLease(s)
  \/ \E c \in Cid : ManualClose(c) \/ PendingAges(c)
  \/ \E t \in Ticket : BrokerFill(t) \/ BrokerReject(t) \/ BrokerClose(t)
  \/ Tick

Spec == Init /\ [][Next]_vars

\* A process that is up keeps running its tasks (a cycle that has begun runs to
\* its end, the background task wakes every 15 minutes), the broker answers
\* every request, and clocks advance.  Nothing makes an instance start, be
\* stopped or crash, and nothing makes a strategy find a signal.
Fairness ==
  /\ \A i \in Inst :
       /\ WF_vars(CrossRisk(i) \/ PersistIntent(i))
       /\ WF_vars(Submit(i))
       /\ WF_vars(Finalize(i))
       /\ WF_vars(BgQuery(i))
       /\ WF_vars(BgCompare(i))
  /\ \A t \in Ticket : WF_vars(BrokerFill(t) \/ BrokerReject(t))
  /\ WF_vars(Tick)

FairSpec == Spec /\ Fairness

----------------------------------------------------------------------------
\* The abstract promise of the execution path, and this module's view of it.
Journal == INSTANCE OrderJournal WITH
  intents <- {c \in Cid : orderStatus[c] # "none"},
  journalled <- {c \in Cid : tradeOutcome[c] # "none"},
  submissions <- sends,
  filled <- {c \in Cid : \E t \in fills : t[2] = c},
  promoted <- {c \in Cid : tradeOutcome[c] \in {"OPEN", "CLOSED"}}

----------------------------------------------------------------------------
ProcTypeOK ==
  /\ pc \in [Inst -> Label]
  /\ cur \in [Inst -> Cid \cup {NoCid}]
  /\ forced \in [Inst -> BOOLEAN]
  /\ halted \in [Inst -> BOOLEAN]
  /\ bg \in [Inst -> {"sleep", "compare"}]
  /\ snap \in [Inst -> SUBSET Ticket]
  /\ book \in [Inst -> SUBSET Cid]
  /\ dirty \in [Inst -> SUBSET Cid]

LockTypeOK ==
  /\ lockOwner \in [Symbol -> Inst \cup {NoInst}]
  /\ lockAge \in [Symbol -> 0 .. TTL + 1]
  /\ holdAge \in [Inst -> 0 .. TTL + 1]

OrderTypeOK ==
  /\ orderStatus \in [Cid -> OrderStatus]
  /\ orderInst \in [Cid -> Inst \cup {NoInst}]
  /\ orderTicket \in [Cid -> Ticket \cup {NoTicket}]

TradeTypeOK ==
  /\ tradeOutcome \in [Cid -> TradeOutcome]
  /\ tradeTicket \in [Cid -> Ticket \cup {NoTicket}]
  /\ tradeStale \in [Cid -> BOOLEAN]

BrokerTypeOK ==
  /\ requests \subseteq Ticket
  /\ fills \subseteq Ticket
  /\ positions \subseteq Ticket
  /\ sends \in [Cid -> Nat]

\* Every variable stays in its domain: labels, row statuses and ages are those
\* the code has, and ages never pass the point where they stop to matter.
TypeOK ==
  /\ ProcTypeOK
  /\ LockTypeOK
  /\ OrderTypeOK
  /\ TradeTypeOK
  /\ BrokerTypeOK
  /\ lease \in [Account \X Symbol -> Inst \cup {NoInst}]
  /\ faults \in 0 .. MaxFaults

\* Whatever the broker holds or is still working on, a crash included, has an
\* order row that names the instance that sent it and a trade row: recovery and
\* reconciliation always have something to find (C-01, the write-ahead rows of
\* execute_market_order).
JournaledBeforeBroker ==
  \A t \in requests \cup fills :
    /\ orderStatus[t[2]] # "none"
    /\ orderInst[t[2]] = t[1]
    /\ tradeOutcome[t[2]] # "none"

\* One signal reaches the broker at most once, over all instances, retries,
\* restarts, failed releases and expired locks: the unique client order id is
\* what makes a second attempt stop before order_send.
AtMostOneSubmission == \A c \in Cid : sends[c] <= 1

\* A trade is only ever OPEN, and an order only FILLED, for a ticket the broker
\* really filled, the order and the trade row name the same ticket, and FILLED
\* is written only after the trade row has been promoted.
ConfirmedIsReal ==
  \A c \in Cid :
    /\ tradeOutcome[c] \in {"OPEN", "CLOSED"} =>
         tradeTicket[c] \in fills /\ tradeTicket[c] = orderTicket[c]
    /\ orderStatus[c] = "FILLED" => tradeOutcome[c] \in {"OPEN", "CLOSED"}

\* The execution lock (C-06) protects its holder for a whole TTL: an instance
\* that entered the critical section no more than TTL ago owns the row, so no
\* other instance is inside on its symbol, although rows are deleted when stale,
\* left behind by crashes and failed releases, and released by late holders.
LockWithinTTL ==
  \A i \in Inst :
    pc[i] \in Critical /\ holdAge[i] <= TTL => lockOwner[SymOf[i]] = i

\* As long as order_send reports what the broker did, every fill is either on
\* a promoted trade row or on an order row that recovery will still look at: no
\* combination of failed writes and crashes ends with a fill and a closed book.
NoFillForgotten ==
  \A t \in fills :
    \/ tradeOutcome[t[2]] \in {"OPEN", "CLOSED"}
    \/ orderStatus[t[2]] \in NonTerminal

\* A start that nobody forced passes only when every position of the account
\* is on an OPEN row of this instance.  Neither check is enough alone: recovery
\* stops an order still at the broker, which reconciliation cannot see, and
\* reconciliation stops a SENT order whose trade row was never promoted, which
\* recovery takes for filled.
StartAccounts ==
  [][\A i \in Inst :
       pc[i] = "startCompare" /\ pc'[i] = "lease" /\ ~forced[i] =>
         \A t \in Visible(i) : Accounted(i, t)]_vars

\* A call of execute_market_order ends, in a result, in an exception or with its
\* process, and leaves the critical section.
SagaEnds ==
  \A i \in Inst : pc[i] \in Critical ~> pc[i] \notin Critical

\* No owner, dead, slow or unable to delete its row, keeps a symbol's execution
\* lock for good.
LockNeverStuck ==
  \A s \in Symbol : ~LockFree(s) ~> LockFree(s)

\* A position that no OPEN row of a running instance accounts for trips the
\* instance's kill switch within a round of the background task (H-03), unless
\* it is accounted for or gone by then.
OrphanHalts ==
  \A i \in Inst, t \in Ticket :
    Running(i) /\ t \in Visible(i) /\ ~Accounted(i, t) ~>
      \/ ~Running(i)
      \/ halted[i]
      \/ t \notin positions
      \/ Accounted(i, t)

----------------------------------------------------------------------------
\* What the source says of itself and the code does not do.

\* main.py: "Recover startup orders and fail closed on unresolved state."  An
\* unforced start passes recovery only if every order that a dead process of the
\* same account and symbol left non-terminal is matched by a position.
UnresolvedBlocksStart ==
  [][\A i \in Inst :
       pc[i] = "recover" /\ pc'[i] = "startQuery" /\ ~forced[i] =>
         \A c \in Cid :
           /\ orderStatus[c] \in NonTerminal
           /\ Scope(orderInst[c]) = Scope(i)
           /\ pc[orderInst[c]] = "down"
           => orderTicket[c] \in positions]_vars

\* recovery.py: "Resolve startup non-terminal orders using broker-visible open
\* positions."  When a start passes recovery, an order of the instance whose
\* ticket is an open position is FILLED.
RecoveryIsDurable ==
  [][\A i \in Inst :
       pc[i] = "recover" /\ pc'[i] = "startQuery" =>
         \A c \in Cid :
           orderInst[c] = i /\ orderTicket[c] \in positions
             => orderStatus'[c] = "FILLED"]_vars

\* monitor.py: concurrency across processes is enforced by the cross-instance
\* aggregator, so the portfolio never holds more positions than its cap.
PortfolioCap == Cardinality(OpenTrades) <= MaxOpen

JournalSpec == Journal!Spec
=============================================================================
