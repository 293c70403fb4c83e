----------------------- MODULE StrategyLifecycle_proofs -----------------------
(***************************************************************************)
(* Theorems about StrategyLifecycle, for any names, instances, request     *)
(* slots, versions and bounds.  A version number is a CHOOSE over the      *)
(* directory; nothing here depends on which number it is.  The last        *)
(* section is about StrategySpec, for any records and requests.            *)
(***************************************************************************)
EXTENDS StrategyLifecycle, StrategySpec, TLAPS

----------------------------------------------------------------------------
(* Steps that concern neither the version files nor their creation.        *)

QuietOperator ==
  \/ \E i \in Instance, p \in Bound \cup {NoRecord} : StartAgent(i, p)
  \/ \E i \in Instance : StopAgent(i)
  \/ PurgeRows
QuietAgent(i) ==
  \/ RefreshCache(i)
  \/ \E worse \in BOOLEAN : TradeClosed(i, worse)
  \/ CooldownEnds(i)
  \/ \E degraded \in BOOLEAN : CheckRetraining(i, degraded)
  \/ LoadActive(i) \/ BindInstance(i) \/ BindSymbol(i)
  \/ RollbackTask(i) \/ ActivationFails(i) \/ RollbackFails(i)
Quiet == QuietOperator \/ (\E i \in Instance : QuietAgent(i)) \/ UNCHANGED vars

LEMMA QuietSteps ==
  ASSUME Quiet
  PROVE  UNCHANGED <<files, locks, creator, bodies, request>>
<1>1. CASE QuietOperator
  BY <1>1 DEF QuietOperator, StartAgent, StopAgent, PurgeRows, dirVars
<1>2. ASSUME NEW i \in Instance, QuietAgent(i)
      PROVE  UNCHANGED <<files, locks, creator, bodies, request>>
  BY <1>2 DEF QuietAgent, RefreshCache, TradeClosed, CooldownEnds, CheckRetraining, LoadActive,
              BindInstance, BindSymbol, RollbackTask, FindPrevious, RollbackBinds, RolledBack,
              ActivationFails, RollbackFails, MetaFrame, dirVars
<1>3. CASE UNCHANGED vars
  BY <1>3 DEF vars, dirVars
<1> QED
  BY <1>1, <1>2, <1>3 DEF Quiet

\* The steps that are left.
LEMMA LoudSteps ==
  ASSUME [Next]_vars, ~Quiet
  PROVE  \/ \E n \in Name, passed \in BOOLEAN : TrainFromCard(n, passed)
         \/ \E q \in Request, k \in Key, n \in Name, st \in Status : UpdateStrategy(q, k, n, st)
         \/ \E q \in Request, k \in Key :
               \/ PromoteRequest(q, k) \/ ActivateRequest(q, k) \/ DeleteRequest(q, k)
               \/ ListVersions(q, k)
         \/ \E q \in Request : Serve(q)
         \/ \E c \in Creator : ReservePath(c)
         \/ \E i \in Instance : AgentExits(i) \/ AgentCrashes(i) \/ VersionCreated(i)
         \/ \E i \in Instance, better \in BOOLEAN, n \in Name : Improve(i, better, n)
         \/ WebCrashes
BY DEF Next, Operator, Fault, CycleTask, Quiet, QuietOperator, QuietAgent

----------------------------------------------------------------------------
(* Reservations *)

\* A creator's progress is a record; its fields are whatever they are.
Fields == {"pc", "name", "version", "status", "body"}
CreatorShape == DOMAIN creator = Creator /\ \A c \in Creator : DOMAIN creator[c] = Fields

ReservationInv == CreatorShape /\ ReservationsDistinct

\* A creator that starts over, ends or is forgotten holds no file; the lock it may leave
\* behind keeps others out.
LEMMA StartsOver ==
  ASSUME ReservationInv, NEW c \in Creator, NEW r, r.pc \notin {"check", "save"},
         DOMAIN r = Fields, creator' = [creator EXCEPT ![c] = r], UNCHANGED locks
  PROVE  ReservationInv'
BY DEF ReservationInv, CreatorShape, ReservationsDistinct, MyKey

LEMMA ReservePathInv ==
  ASSUME ReservationInv, NEW c \in Creator, ReservePath(c)
  PROVE  ReservationInv'
<1> USE DEF ReservationInv, CreatorShape, ReservationsDistinct, MyKey, Fields, Step
<1>1. CASE ScanVersions(c)
  BY <1>1 DEF ScanVersions
<1>2. CASE TakeLock(c)
  <2>1. CASE MyKey(c) \in locks /\ Step(c, "scan")
    BY <1>2, <2>1 DEF TakeLock
  <2>2. CASE MyKey(c) \in locks /\ creator' = [creator EXCEPT ![c] = Idle]
    BY <1>2, <2>2, StartsOver DEF TakeLock, Idle
  <2>3. CASE MyKey(c) \notin locks
    \* Who holds a file has its lock, so nobody holds the file of a lock that is free.
    BY <1>2, <2>3 DEF TakeLock
  <2> QED
    BY <1>2, <2>1, <2>2, <2>3 DEF TakeLock
<1>3. CASE CheckPath(c)
  BY <1>3 DEF CheckPath
<1>4. CASE SaveVersion(c)
  BY <1>4 DEF SaveVersion
<1> QED
  BY <1>1, <1>2, <1>3, <1>4 DEF ReservePath

LEMMA ReservationNext ==
  ASSUME ReservationInv, [Next]_vars
  PROVE  ReservationInv'
<1>1. CASE Quiet
  BY <1>1, QuietSteps DEF ReservationInv, CreatorShape, ReservationsDistinct, MyKey
<1>2. ASSUME UNCHANGED <<creator, locks>> PROVE ReservationInv'
  BY <1>2 DEF ReservationInv, CreatorShape, ReservationsDistinct, MyKey
<1>3. ASSUME NEW n \in Name, NEW passed \in BOOLEAN, TrainFromCard(n, passed) PROVE ReservationInv'
  BY <1>3, StartsOver DEF TrainFromCard, BeginVersion, Creator, Fields
<1>4. ASSUME NEW q \in Request, NEW k \in Key, NEW n \in Name, NEW st \in Status,
             UpdateStrategy(q, k, n, st)
      PROVE  UNCHANGED <<creator, locks>>
  BY <1>4 DEF UpdateStrategy
<1>5. ASSUME NEW q \in Request, NEW k \in Key,
             \/ PromoteRequest(q, k) \/ ActivateRequest(q, k) \/ DeleteRequest(q, k)
             \/ ListVersions(q, k)
      PROVE  UNCHANGED <<creator, locks>>
  BY <1>5 DEF PromoteRequest, ActivateRequest, DeleteRequest, ListVersions, Accept, dirVars
<1>6. ASSUME NEW q \in Request, MigrateFilename(q) PROVE UNCHANGED <<creator, locks>>
  BY <1>6 DEF MigrateFilename, Reply
<1>7. ASSUME NEW q \in Request, Serve(q) PROVE UNCHANGED <<creator, locks>>
  BY <1>6, <1>7 DEF Serve, SyncBindings, PromoteStrategy, ActivateStrategy, DeleteStrategy, Reply
<1>8. ASSUME NEW i \in Instance, AgentExits(i) \/ AgentCrashes(i) PROVE ReservationInv'
  BY <1>8, StartsOver DEF AgentExits, AgentCrashes, Forget, Idle, Creator, Fields
<1>9. ASSUME NEW i \in Instance, VersionCreated(i) PROVE ReservationInv'
  BY <1>9, StartsOver DEF VersionCreated, MetaFrame, Idle, Creator, Fields
<1>10. ASSUME NEW i \in Instance, NEW better \in BOOLEAN, NEW n \in Name, Improve(i, better, n)
       PROVE  ReservationInv'
  <2>1. CASE creator' = [creator EXCEPT ![i] =
                [pc |-> "scan", name |-> n, version |-> 0, status |-> "candidate", body |-> 0]]
    BY <1>10, <2>1, StartsOver DEF Improve, MetaFrame, Creator, Fields
  <2> QED
    BY <1>2, <1>10, <2>1 DEF Improve, MetaFrame, BeginVersion
<1>11. CASE WebCrashes
  BY <1>11, StartsOver DEF WebCrashes, Idle, Creator, Fields
<1> QED
  BY <1>1, <1>2, <1>3, <1>4, <1>5, <1>7, <1>8, <1>9, <1>10, <1>11, LoudSteps, ReservePathInv

\* Two creators past the lock never hold the same file, whatever processes they are in
\* and whichever of them crashed (asset_trainer.py, reserve and save).
THEOREM ReservationsStayDistinct == Spec => []ReservationsDistinct
<1>1. Init => ReservationInv
  BY DEF Init, ReservationInv, CreatorShape, ReservationsDistinct, Idle, Fields
<1>2. ReservationInv /\ [Next]_vars => ReservationInv'
  BY ReservationNext
<1>3. ReservationInv => ReservationsDistinct
  BY DEF ReservationInv
<1> QED
  BY <1>1, <1>2, <1>3, PTL DEF Spec

----------------------------------------------------------------------------
(* Promotions and edits *)

\* The records on disk and those that a request under way has loaded or saved.
SavedRecords ==
  {files[k] : k \in {j \in Key : Exists(j)}}
    \cup {request[q].rec : q \in {p \in Request : request[p].op # "none"}}

RecordFields == {"name", "version", "status", "body"}
IsRecord(r) == DOMAIN r = RecordFields /\ r.body \in Nat /\ r.body <= bodies

RequestsKnown ==
  /\ DOMAIN request = Request
  /\ \A q \in Request : request[q].op # "none" => request[q].key \in Key

SameVerdict(r, s) == r.body = s.body => (r.status = "wf_rejected" <=> s.status = "wf_rejected")

\* A body is rejected by the walk-forward gate or it is not, wherever it is: PromotionLimits
\* is not inductive without the copies that requests hold.
SavedInv ==
  /\ bodies \in Nat /\ DOMAIN files = Key /\ RequestsKnown
  /\ \A r \in SavedRecords : IsRecord(r)
  /\ \A r, s \in SavedRecords : SameVerdict(r, s)

\* What the two action properties say of one file.
Limited(k) ==
  bodies' = bodies /\ files'[k] # NoRecord =>
    /\ files'[k].status = "live" =>
         \E j \in Key : /\ Exists(j) /\ files[j].status = "live"
                        /\ files[j].body = files'[k].body
    /\ Exists(k) /\ files[k].status = "wf_rejected" /\ files'[k].status # "wf_rejected" =>
         /\ files'[k].body # files[k].body
         /\ \E q \in Request : WrittenLate(q, k)
GivesWay(k) ==
  Exists(k) /\ files'[k] # NoRecord /\ files'[k].body < files[k].body =>
    \E q \in Request : WrittenLate(q, k)

SavedStep == SavedInv' /\ \A k \in Key : Limited(k) /\ GivesWay(k)

\* One record more, which agrees with those that there are.
LEMMA OneMore ==
  ASSUME SavedInv, NEW r, SavedRecords' \subseteq SavedRecords \cup {r},
         bodies' \in Nat, bodies' >= bodies,
         DOMAIN files' = Key, RequestsKnown',
         DOMAIN r = RecordFields, r.body \in Nat, r.body <= bodies',
         \A s \in SavedRecords : SameVerdict(r, s)
  PROVE  SavedInv'
<1>1. \A s \in SavedRecords' : IsRecord(s)'
  BY DEF SavedInv, IsRecord
<1>2. \A s, t \in SavedRecords' : SameVerdict(s, t)
  BY DEF SavedInv, SameVerdict
<1> QED
  BY <1>1, <1>2 DEF SavedInv, SameVerdict

\* No record more.
LEMMA NoMore ==
  ASSUME SavedInv, SavedRecords' \subseteq SavedRecords, UNCHANGED bodies,
         DOMAIN files' = Key, RequestsKnown'
  PROVE  SavedInv'
BY DEF SavedInv, IsRecord, SameVerdict

\* Files stay as they are, or go.
LEMMA FilesStay ==
  ASSUME SavedInv, \A k \in Key : files'[k] \in {files[k], NoRecord}
  PROVE  \A k \in Key : Limited(k) /\ GivesWay(k)
<1> TAKE k \in Key
<1>1. Exists(k) => files[k].body \in Nat
  BY DEF SavedInv, SavedRecords, IsRecord
<1> QED
  BY <1>1 DEF Limited, GivesWay, Exists

LEMMA RequestsSaved ==
  ASSUME SavedInv, NEW q \in Request, NEW k \in Key,
         \/ PromoteRequest(q, k) \/ ActivateRequest(q, k) \/ DeleteRequest(q, k)
         \/ ListVersions(q, k)
  PROVE  SavedStep
<1>1. UNCHANGED <<files, bodies>> /\ Exists(k)
      /\ \E op \in {"promote", "activate", "delete", "rename"} :
            request' = [request EXCEPT ![q] = [op |-> op, key |-> k, rec |-> files[k]]]
  BY DEF PromoteRequest, ActivateRequest, DeleteRequest, ListVersions, Accept, dirVars
<1>2. SavedRecords' \subseteq SavedRecords
  BY <1>1 DEF SavedInv, SavedRecords, Exists
<1>3. DOMAIN files' = Key /\ RequestsKnown'
  BY <1>1 DEF SavedInv, RequestsKnown
<1> QED
  BY <1>1, <1>2, <1>3, NoMore, FilesStay DEF SavedStep

LEMMA UpdateSaved ==
  ASSUME SavedInv, NEW q \in Request, NEW k \in Key, NEW n \in Name, NEW st \in Status,
         UpdateStrategy(q, k, n, st)
  PROVE  SavedStep
<1> DEFINE r == [files[k] EXCEPT !.name = n, !.status = st, !.body = bodies']
<1>1. Exists(k) /\ bodies' = bodies + 1 /\ files' = [files EXCEPT ![k] = r]
      /\ request' = [request EXCEPT ![q] = [op |-> "sync", key |-> k, rec |-> r]]
  BY DEF UpdateStrategy
<1>2. IsRecord(files[k]) /\ bodies \in Nat
  BY <1>1 DEF SavedInv, SavedRecords
<1>3. DOMAIN r = RecordFields /\ r.body = bodies + 1
  BY <1>1, <1>2 DEF IsRecord, RecordFields
<1> HIDE DEF r
<1>4. SavedRecords' \subseteq SavedRecords \cup {r}
  BY <1>1 DEF SavedInv, SavedRecords, Exists
<1>5. \A s \in SavedRecords : SameVerdict(r, s)
  BY <1>2, <1>3 DEF SavedInv, IsRecord, SameVerdict
<1>6. SavedInv'
  <2>1. DOMAIN files' = Key /\ RequestsKnown'
    BY <1>1 DEF SavedInv, RequestsKnown
  <2> QED
    BY <1>1, <1>2, <1>3, <1>4, <1>5, <2>1, OneMore
<1>7. ASSUME NEW j \in Key PROVE Limited(j) /\ GivesWay(j)
  <2>1. Exists(j) => files[j].body \in Nat /\ files[j].body <= bodies
    BY DEF SavedInv, SavedRecords, IsRecord
  <2> QED
    BY <1>1, <1>2, <1>3, <2>1 DEF Limited, GivesWay, SavedInv
<1> QED
  BY <1>6, <1>7 DEF SavedStep

\* A promotion never writes "live", and never writes over "wf_rejected": what it loaded
\* has the verdict of what the file holds, when they are the same content.
LEMMA PromoteSaved ==
  ASSUME SavedInv, NEW q \in Request, NEW bypass \in BOOLEAN, NEW good \in BOOLEAN,
         PromoteStrategy(q, bypass, good)
  PROVE  SavedStep
<1> DEFINE r   == request[q].rec
           new == PromotionGate(r.status, bypass, good)
           s   == [r EXCEPT !.status = new]
           k   == IF Exists(request[q].key) THEN request[q].key ELSE PathOf(r)
<1>1. request[q].op = "promote" /\ UNCHANGED bodies /\ request' = [request EXCEPT ![q] = NoReq]
      /\ files' = IF new = r.status THEN files ELSE [files EXCEPT ![k] = s]
  BY DEF PromoteStrategy, Reply
<1>2. r \in SavedRecords /\ IsRecord(r)
  BY <1>1 DEF SavedInv, SavedRecords
<1>3. new # r.status => new \in {"dry_run", "demo"} /\ r.status \in {"candidate", "dry_run"}
  BY DEF PromotionGate
<1>4. DOMAIN s = RecordFields /\ s.body = r.body /\ s.status = new
  BY <1>2 DEF IsRecord, RecordFields
<1>5. CASE new = r.status
  <2>1. SavedRecords' \subseteq SavedRecords /\ DOMAIN files' = Key /\ RequestsKnown'
    BY <1>1, <1>5 DEF SavedInv, RequestsKnown, SavedRecords, Exists, NoReq
  <2> QED
    BY <1>1, <1>5, <2>1, NoMore, FilesStay DEF SavedStep
<1>6. CASE new # r.status
  <2> HIDE DEF s, k, new, r
  <2>1. files' = [files EXCEPT ![k] = s]
    BY <1>1, <1>6
  <2>2. SavedRecords' \subseteq SavedRecords \cup {s}
    BY <1>1, <2>1 DEF SavedInv, SavedRecords, Exists, NoReq
  <2>3. \A t \in SavedRecords : SameVerdict(s, t)
    BY <1>2, <1>3, <1>4, <1>6 DEF SavedInv, SameVerdict
  <2>4. SavedInv'
    <3>1. DOMAIN files' = Key /\ RequestsKnown'
      BY <1>1, <2>1 DEF SavedInv, RequestsKnown, NoReq
    <3>2. s.body \in Nat /\ s.body <= bodies'
      BY <1>1, <1>2, <1>4 DEF IsRecord
    <3> QED
      BY <1>1, <1>4, <2>2, <2>3, <3>1, <3>2, OneMore DEF SavedInv
  <2>5. ASSUME NEW j \in Key PROVE Limited(j) /\ GivesWay(j)
    <3>1. Exists(j) => files[j] \in SavedRecords /\ files[j].body \in Nat
      BY DEF SavedInv, SavedRecords, IsRecord
    <3>2. files'[j] = files[j] \/ files'[j] = s
      BY <2>1 DEF SavedInv
    <3>3. files'[j] # files[j] => WrittenLate(q, j)
      BY <1>1, <1>4, <3>2 DEF WrittenLate, r
    <3>4. Limited(j)
      BY <1>3, <1>4, <1>6, <2>3, <3>1, <3>2, <3>3 DEF Limited, SameVerdict, Exists
    <3>5. GivesWay(j)
      BY <3>1, <3>3 DEF GivesWay
    <3> QED
      BY <3>4, <3>5
  <2> QED
    BY <2>4, <2>5 DEF SavedStep
<1> QED
  BY <1>5, <1>6

\* A rename moves a record, over whatever its path holds by then.
LEMMA MigrateSaved ==
  ASSUME SavedInv, NEW q \in Request, MigrateFilename(q)
  PROVE  SavedStep
<1> DEFINE from == request[q].key
           to   == PathOf(request[q].rec)
<1>1. UNCHANGED bodies /\ request' = [request EXCEPT ![q] = NoReq] /\ request[q].op = "rename"
      /\ \/ UNCHANGED files
         \/ /\ Exists(from)
            /\ files' = [files EXCEPT ![from] = NoRecord, ![to] = files[from]]
  BY DEF MigrateFilename, Reply
<1>2. from \in Key
  BY <1>1 DEF SavedInv, RequestsKnown
<1>3. DOMAIN files' = Key /\ RequestsKnown'
  BY <1>1 DEF SavedInv, RequestsKnown, NoReq
<1>4. CASE UNCHANGED files
  <2>1. SavedRecords' \subseteq SavedRecords
    BY <1>1, <1>4 DEF SavedInv, RequestsKnown, SavedRecords, Exists, NoReq
  <2> QED
    BY <1>1, <1>3, <1>4, <2>1, NoMore, FilesStay DEF SavedStep
<1>5. CASE Exists(from) /\ files' = [files EXCEPT ![from] = NoRecord, ![to] = files[from]]
  <2>1. from # to => WrittenLate(q, to) \/ to \notin Key
    BY <1>1, <1>2, <1>5 DEF WrittenLate, SavedInv
  <2> HIDE DEF from, to
  <2>2. \A j \in Key : files'[j] = IF j = to THEN files[from]
                                  ELSE IF j = from THEN NoRecord ELSE files[j]
    BY <1>5 DEF SavedInv
  <2>3. SavedRecords' \subseteq SavedRecords
    BY <1>1, <1>2, <1>5, <2>2 DEF SavedInv, RequestsKnown, SavedRecords, Exists, NoReq
  <2>4. SavedInv'
    BY <1>1, <1>3, <2>3, NoMore
  <2>5. ASSUME NEW j \in Key PROVE Limited(j) /\ GivesWay(j)
    <3>1. \A k \in Key : Exists(k) => files[k] \in SavedRecords /\ files[k].body \in Nat
      BY DEF SavedInv, SavedRecords, IsRecord
    <3>2. CASE j = to /\ from # to
      <4>1. files'[j] = files[from] /\ WrittenLate(q, j)
        BY <2>1, <2>2, <3>2
      <4>2. Exists(j) => SameVerdict(files[from], files[j])
        BY <1>2, <1>5, <3>1 DEF SavedInv
      <4> QED
        BY <1>2, <1>5, <4>1, <4>2 DEF Limited, GivesWay, SameVerdict
    <3>3. CASE j # to \/ from = to
      <4>1. files'[j] \in {files[j], NoRecord}
        BY <2>2, <3>3
      <4> QED
        BY <3>1, <4>1 DEF Limited, GivesWay, Exists
    <3> QED
      BY <3>2, <3>3
  <2> QED
    BY <2>4, <2>5 DEF SavedStep
<1> QED
  BY <1>1, <1>4, <1>5

LEMMA ServeSaved ==
  ASSUME SavedInv, NEW q \in Request, Serve(q)
  PROVE  SavedStep
<1>1. CASE SyncBindings(q) \/ ActivateStrategy(q) \/ DeleteStrategy(q)
  <2>1. UNCHANGED bodies /\ request' = [request EXCEPT ![q] = NoReq]
        /\ \/ UNCHANGED files
           \/ \E k : files' = [files EXCEPT ![k] = NoRecord]
    BY <1>1 DEF SyncBindings, ActivateStrategy, DeleteStrategy, Reply
  <2>2. \A k \in Key : files'[k] \in {files[k], NoRecord}
    BY <2>1 DEF SavedInv
  <2>3. SavedRecords' \subseteq SavedRecords /\ DOMAIN files' = Key /\ RequestsKnown'
    BY <2>1, <2>2 DEF SavedInv, RequestsKnown, SavedRecords, Exists, NoReq
  <2> QED
    BY <2>1, <2>2, <2>3, NoMore, FilesStay DEF SavedStep
<1>2. CASE \E bypass, good \in BOOLEAN : PromoteStrategy(q, bypass, good)
  BY <1>2, PromoteSaved
<1> QED
  BY <1>1, <1>2, MigrateSaved DEF Serve

\* A creator saves a body that is new.
LEMMA ReserveSaved ==
  ASSUME SavedInv, NEW c \in Creator, ReservePath(c)
  PROVE  SavedStep
<1>1. CASE ScanVersions(c) \/ TakeLock(c) \/ CheckPath(c)
  <2>1. UNCHANGED <<files, bodies, request>>
    BY <1>1 DEF ReservePath, ScanVersions, TakeLock, CheckPath
  <2>2. SavedRecords' \subseteq SavedRecords /\ DOMAIN files' = Key /\ RequestsKnown'
    BY <2>1 DEF SavedInv, RequestsKnown, SavedRecords, Exists
  <2> QED
    BY <2>1, <2>2, NoMore, FilesStay DEF SavedStep
<1>2. CASE SaveVersion(c)
  <2> DEFINE r == [name |-> creator[c].name, version |-> creator[c].version,
                   status |-> creator[c].status, body |-> bodies']
  <2>1. bodies' = bodies + 1 /\ UNCHANGED request /\ files' = [files EXCEPT ![MyKey(c)] = r]
    BY <1>2 DEF SaveVersion, ReservePath
  <2>2. DOMAIN r = RecordFields /\ r.body = bodies + 1
    BY <2>1 DEF RecordFields
  <2> HIDE DEF r
  <2>3. SavedRecords' \subseteq SavedRecords \cup {r}
    BY <2>1 DEF SavedInv, SavedRecords, Exists
  <2>4. \A s \in SavedRecords : SameVerdict(r, s)
    BY <2>2 DEF SavedInv, IsRecord, SameVerdict
  <2>5. SavedInv'
    <3>1. DOMAIN files' = Key /\ RequestsKnown'
      BY <2>1 DEF SavedInv, RequestsKnown
    <3>2. bodies \in Nat
      BY DEF SavedInv
    <3> QED
      BY <2>1, <2>2, <2>3, <2>4, <3>1, <3>2, OneMore
  <2>6. ASSUME NEW j \in Key PROVE Limited(j) /\ GivesWay(j)
    <3>1. Exists(j) => files[j].body \in Nat /\ files[j].body <= bodies
      BY DEF SavedInv, SavedRecords, IsRecord
    <3>2. bodies \in Nat /\ (files'[j] = files[j] \/ files'[j] = r)
      BY <2>1 DEF SavedInv
    <3>3. Limited(j)
      BY <2>1, <3>2 DEF Limited
    <3>4. GivesWay(j)
      BY <2>2, <3>1, <3>2 DEF GivesWay
    <3> QED
      BY <3>3, <3>4
  <2> QED
    BY <2>5, <2>6 DEF SavedStep
<1> QED
  BY <1>1, <1>2 DEF ReservePath

LEMMA SavedNext ==
  ASSUME SavedInv, [Next]_vars
  PROVE  SavedStep
<1>1. ASSUME UNCHANGED <<files, bodies, request>> PROVE SavedStep
  <2>1. SavedRecords' \subseteq SavedRecords /\ DOMAIN files' = Key /\ RequestsKnown'
    BY <1>1 DEF SavedInv, RequestsKnown, SavedRecords, Exists
  <2> QED
    BY <1>1, <2>1, NoMore, FilesStay DEF SavedStep
<1>2. CASE Quiet
  BY <1>1, <1>2, QuietSteps
<1>3. ASSUME NEW n \in Name, NEW passed \in BOOLEAN, TrainFromCard(n, passed) PROVE SavedStep
  BY <1>1, <1>3 DEF TrainFromCard
<1>4. ASSUME NEW i \in Instance, AgentExits(i) \/ AgentCrashes(i) \/ VersionCreated(i)
      PROVE  SavedStep
  BY <1>1, <1>4 DEF AgentExits, AgentCrashes, Forget, VersionCreated, MetaFrame
<1>5. ASSUME NEW i \in Instance, NEW better \in BOOLEAN, NEW n \in Name, Improve(i, better, n)
      PROVE  SavedStep
  BY <1>1, <1>5 DEF Improve, MetaFrame
<1>6. CASE WebCrashes
  <2>1. UNCHANGED <<files, bodies>> /\ request' = [q \in Request |-> NoReq]
    BY <1>6 DEF WebCrashes
  <2>2. SavedRecords' \subseteq SavedRecords /\ DOMAIN files' = Key /\ RequestsKnown'
    BY <2>1 DEF SavedInv, RequestsKnown, SavedRecords, Exists, NoReq
  <2> QED
    BY <2>1, <2>2, NoMore, FilesStay DEF SavedStep
<1>7. ASSUME NEW q \in Request, NEW k \in Key,
             \/ PromoteRequest(q, k) \/ ActivateRequest(q, k) \/ DeleteRequest(q, k)
             \/ ListVersions(q, k)
      PROVE  SavedStep
  BY <1>7, RequestsSaved
<1> QED
  BY <1>2, <1>3, <1>4, <1>5, <1>6, <1>7, LoudSteps, UpdateSaved, ServeSaved, ReserveSaved

\* Requests answer, hold and forget records; what they hold was saved.
LEMMA SavedInvariant == Spec => []SavedInv
<1>1. Init => SavedInv
  BY DEF Init, SavedInv, RequestsKnown, SavedRecords, Exists, NoReq
<1>2. SavedInv /\ [Next]_vars => SavedInv'
  BY SavedNext DEF SavedStep
<1> QED
  BY <1>1, <1>2, PTL DEF Spec

\* Nothing becomes live by a promotion, and what the walk-forward gate rejected stays so,
\* whatever was edited, renamed, deleted or created between a load and its save; a rejected
\* file gives way only to what is written late (strategies.py, promote_strategy and list).
THEOREM PromotionsAreLimited == Spec => PromotionLimits
<1>1. SavedInv /\ [Next]_vars =>
        [\A k \in Key :
           bodies' = bodies /\ files'[k] # NoRecord =>
             /\ files'[k].status = "live" =>
                  \E j \in Key : /\ Exists(j) /\ files[j].status = "live"
                                 /\ files[j].body = files'[k].body
             /\ Exists(k) /\ files[k].status = "wf_rejected"
                  /\ files'[k].status # "wf_rejected" =>
                  /\ files'[k].body # files[k].body
                  /\ \E q \in Request : WrittenLate(q, k)]_vars
  BY SavedNext DEF SavedStep, Limited
<1> QED
  BY <1>1, SavedInvariant, PTL DEF Spec, PromotionLimits

\* Old content comes back into a file only by a promotion that loaded it before, or by a
\* rename whose look found the path free (strategies.py, promote_strategy and list).
THEOREM OldContentIsWrittenLate == Spec => OldContentWrittenLate
<1>1. SavedInv /\ [Next]_vars =>
        [\A k \in Key :
           Exists(k) /\ files'[k] # NoRecord /\ files'[k].body < files[k].body =>
             \E q \in Request : WrittenLate(q, k)]_vars
  BY SavedNext DEF SavedStep, GivesWay
<1> QED
  BY <1>1, SavedInvariant, PTL DEF Spec, OldContentWrittenLate

----------------------------------------------------------------------------
(* The agents' views of the settings.                                      *)

HasCaches == DOMAIN cache = Instance
Agrees(i) == i \in alive => cache[i] = binding

\* A step that leaves the settings as they are spoils nobody's view of them: a start reads
\* them all, and who writes a value that is there already writes it to its cache as well.
LEMMA ViewsStay ==
  ASSUME HasCaches, [Next]_vars
  PROVE  /\ HasCaches'
         /\ \A i \in Instance : Agrees(i) /\ binding' = binding => Agrees(i)'
<1> USE DEF HasCaches, Agrees
<1> DEFINE Kept == cache' = cache /\ alive' \subseteq alive
<1>1. CASE Kept
  BY <1>1
<1>2. ASSUME NEW j \in Instance, NEW p, StartAgent(j, p)
      PROVE  cache' = [cache EXCEPT ![j] = binding'] /\ alive' = alive \cup {j}
  BY <1>2 DEF StartAgent
<1>3. ASSUME NEW j \in Instance, RefreshCache(j)
      PROVE  cache' = [cache EXCEPT ![j] = binding] /\ alive' = alive
  BY <1>3 DEF RefreshCache
<1>4. ASSUME NEW j \in Instance, NEW s, NEW p, SetSetting(j, s, p), alive' = alive, j \in alive
      PROVE  HasCaches' /\ \A i \in Instance : Agrees(i) /\ binding' = binding => Agrees(i)'
  BY <1>4 DEF SetSetting
<1>5. CASE QuietOperator
  <2>1. ASSUME NEW i \in Instance, StopAgent(i) \/ PurgeRows PROVE Kept
    BY <2>1 DEF StopAgent, PurgeRows
  <2>2. CASE PurgeRows
    BY <2>2 DEF PurgeRows
  <2> QED
    BY <1>1, <1>2, <1>5, <2>1, <2>2 DEF QuietOperator
<1>6. ASSUME NEW j \in Instance, QuietAgent(j)
      PROVE  HasCaches' /\ \A i \in Instance : Agrees(i) /\ binding' = binding => Agrees(i)'
  <2>1. CASE BindInstance(j) \/ BindSymbol(j)
    BY <1>4, <2>1 DEF BindInstance, BindSymbol, MetaFrame
  <2>2. CASE RollbackBinds(j)
    BY <1>4, <2>2 DEF RollbackBinds, MetaFrame
  <2>3. ASSUME \/ \E worse \in BOOLEAN : TradeClosed(j, worse)
               \/ CooldownEnds(j) \/ (\E degraded \in BOOLEAN : CheckRetraining(j, degraded))
               \/ LoadActive(j) \/ FindPrevious(j) \/ RolledBack(j)
               \/ ActivationFails(j) \/ RollbackFails(j)
        PROVE  Kept
    BY <2>3 DEF TradeClosed, CooldownEnds, CheckRetraining, LoadActive, FindPrevious, RolledBack,
                ActivationFails, RollbackFails, MetaFrame
  <2> QED
    BY <1>1, <1>3, <1>6, <2>1, <2>2, <2>3 DEF QuietAgent, RollbackTask
<1>7. CASE UNCHANGED vars
  BY <1>7 DEF vars
<1>8. ASSUME NEW n \in Name, NEW passed \in BOOLEAN, TrainFromCard(n, passed) PROVE Kept
  BY <1>8 DEF TrainFromCard
<1>9. ASSUME NEW q \in Request, NEW k \in Key, NEW n \in Name, NEW st \in Status,
             UpdateStrategy(q, k, n, st)
      PROVE  Kept
  BY <1>9 DEF UpdateStrategy
<1>10. ASSUME NEW q \in Request, NEW k \in Key,
              \/ PromoteRequest(q, k) \/ ActivateRequest(q, k) \/ DeleteRequest(q, k)
              \/ ListVersions(q, k)
       PROVE  Kept
  BY <1>10 DEF PromoteRequest, ActivateRequest, DeleteRequest, ListVersions, Accept
<1>11. ASSUME NEW q \in Request, MigrateFilename(q) PROVE Kept
  BY <1>11 DEF MigrateFilename, Reply
<1>12. ASSUME NEW q \in Request, Serve(q) PROVE Kept
  BY <1>11, <1>12 DEF Serve, SyncBindings, PromoteStrategy, ActivateStrategy, DeleteStrategy, Reply
<1>13. ASSUME NEW c \in Creator, ReservePath(c) PROVE Kept
  BY <1>13 DEF ReservePath
<1>14. ASSUME NEW i \in Instance, AgentExits(i) \/ AgentCrashes(i) \/ VersionCreated(i) PROVE Kept
  BY <1>14 DEF AgentExits, AgentCrashes, Forget, VersionCreated, MetaFrame
<1>15. ASSUME NEW i \in Instance, NEW better \in BOOLEAN, NEW n \in Name, Improve(i, better, n)
       PROVE  Kept
  BY <1>15 DEF Improve, MetaFrame
<1>16. CASE WebCrashes
  BY <1>16 DEF WebCrashes
<1> HIDE DEF HasCaches, Agrees, Kept
<1>17. CASE Quiet
  BY <1>5, <1>6, <1>7, <1>1, <1>17 DEF Quiet, Kept, vars
<1> QED
  BY <1>1, <1>8, <1>9, <1>10, <1>11, <1>12, <1>13, <1>14, <1>15, <1>16, <1>17, LoudSteps

\* Weak fairness of an agent's reloading, with its guard in the place of ENABLED: an agent
\* whose view is outdated from some moment on reads the settings again and again.
ReaderProgress(i) == []<>Agrees(i) \/ []<><<RefreshCache(i)>>_vars

\* From when the settings no longer change, every agent that goes on reading comes to see
\* them as they are and keeps doing so: for any agents, writers, crashes and requests
\* (settings_service.py, get and set).
THEOREM CachesSettle ==
  Spec /\ (\A i \in Instance : ReaderProgress(i)) /\ <>[][binding' = binding]_vars
    => \A i \in Instance : <>[]Agrees(i)
<1>1. Init => HasCaches
  BY DEF Init, HasCaches
<1>2. HasCaches /\ [Next]_vars => HasCaches'
  BY ViewsStay
<1>3. ASSUME NEW i \in Instance
      PROVE  [][Next]_vars /\ []HasCaches /\ ReaderProgress(i) /\ <>[][binding' = binding]_vars
               => <>[]Agrees(i)
  <2>1. HasCaches /\ [Next]_vars /\ Agrees(i) /\ [binding' = binding]_vars => Agrees(i)'
    <3>1. [binding' = binding]_vars => binding' = binding
      BY DEF vars
    <3> QED
      BY <3>1, ViewsStay
  <2>2. HasCaches /\ RefreshCache(i) => Agrees(i)'
    BY DEF HasCaches, RefreshCache, Agrees
  <2> QED
    BY <2>1, <2>2, PTL DEF ReaderProgress
<1>4. Spec => [][Next]_vars /\ []HasCaches
  BY <1>1, <1>2, PTL DEF Spec
<1> HIDE DEF Spec, Next, ReaderProgress, HasCaches, Agrees, vars
<1> QED
  BY <1>3, <1>4

\* What is left to TLC: an agent with an outdated view can reload.  With that, the weak
\* fairness of the specification is the progress assumed above.
ReadIsEnabled == \A i \in Instance : ~Agrees(i) => ENABLED <<RefreshCache(i)>>_vars
FairnessOf(i) ==
  /\ WF_vars(RefreshCache(i)) /\ WF_vars(AgentExits(i))
  /\ WF_vars(CycleTask(i)) /\ WF_vars(RollbackTask(i))

LEMMA FairAgentsRead ==
  FairSpec /\ []ReadIsEnabled => \A i \in Instance : ReaderProgress(i)
<1>1. ASSUME NEW i \in Instance
      PROVE  []ReadIsEnabled /\ FairnessOf(i) => ReaderProgress(i)
  <2>1. ReadIsEnabled => (~Agrees(i) => ENABLED <<RefreshCache(i)>>_vars)
    BY DEF ReadIsEnabled
  <2> QED
    BY <2>1, PTL DEF FairnessOf, ReaderProgress
<1>2. []ReadIsEnabled /\ (\A i \in Instance : FairnessOf(i)) => \A i \in Instance : ReaderProgress(i)
  BY <1>1
<1> QED
  BY <1>2, PTL DEF FairSpec, FairnessOf

----------------------------------------------------------------------------
(* One record: what is resolved from it survives every rewriting.          *)

LEMMA ModesNormal ==
  ASSUME NEW m
  PROVE  NormalMode(m) \in RecordModes /\ (m \in RecordModes => NormalMode(m) = m)
BY DEF NormalMode, RecordModes

LEMMA ApprovedTwice ==
  ASSUME NEW m \in Text, NEW n \in Text, n = Approved(m)
  PROVE  Approved(n) = n
BY SpecAssumption DEF Approved

LEMMA ApprovedName ==
  ASSUME NEW m \in Text
  PROVE  Approved(m) \in Text
BY SpecAssumption DEF Approved

LEMMA InferredFamily ==
  ASSUME NEW r
  PROVE  Infer(r) \in SetupFamilies
BY DEF Infer, SetupFamilies

LEMMA RulesAreRules ==
  ASSUME NEW r \in Records, NEW toEma \in BOOLEAN
  PROVE  SignalRulesOf(r, toEma) \in RuleList
<1>1. {} \in RuleList /\ EMA \in RuleList
  BY SpecAssumption DEF RuleList
<1>2. r.rules \in {Absent, Null} \cup RuleList
      /\ (r.spec # Absent => r.spec.rules \in {Absent} \cup RuleList
                             /\ r.spec.sources \in {Absent} \cup RuleList)
  BY DEF Records, TypedSpecs
<1> QED
  BY <1>1, <1>2, SpecAssumption DEF SignalRulesOf, NormalRules

\* A typed spec has its rules, or at least their sources; no null stands for them.
LEMMA TypedRules ==
  ASSUME NEW r \in Records, NEW toEma \in BOOLEAN, r.spec # Absent, r.spec.sources # Absent
  PROVE  SignalRulesOf(r, toEma) = IF r.spec.rules # Absent THEN r.spec.rules ELSE r.spec.sources
<1>1. r.spec.rules \in {Absent} \cup RuleList /\ r.spec.sources \in {Absent} \cup RuleList
  BY DEF Records, TypedSpecs
<1> QED
  BY <1>1, SpecAssumption DEF SignalRulesOf, NormalRules

\* Migration writes down what resolution says.
LEMMA MigrateSays ==
  ASSUME NEW r \in Records
  PROVE  /\ Migrate(r) \in TypedSpecs /\ Migrate(r).sources \in RuleList
         /\ Migrate(r).mode = SignalMode(r)
         /\ Migrate(r).family = SetupFamily(r) /\ SetupFamily(r) \in SetupFamilies
         /\ Migrate(r).prompt = Prompt(r)
         /\ Migrate(r).source = Source(r)
         /\ Migrate(r).version = Number
         /\ Migrate(r).model = SpecFirst(r, "model", {"none"})
         /\ (IF Migrate(r).rules # Absent THEN Migrate(r).rules ELSE Migrate(r).sources)
              = SignalRulesOf(r, TRUE)
<1>1. r.spec \in {Absent} \cup TypedSpecs /\ r.rules \in {Absent, Null} \cup RuleList
      /\ r.mode \in Text /\ r.prompt \in Text /\ r.source \in Text
      /\ r.model \in Text /\ r.version = Number
  BY DEF Records
<1>2. SignalRulesOf(r, TRUE) \in RuleList
  BY RulesAreRules
<1>3. Source(r) \in Text /\ RecordVersion(r) = Number
  BY <1>1, SpecAssumption DEF Source, RecordVersion, SpecFirst, TypedSpecs
<1>4. RecordModes \subseteq Text /\ SetupFamilies \subseteq Text
  BY SpecAssumption
<1>5. CASE r.spec = Absent
  <2>1. NormalMode(r.mode) \in Text /\ Infer(r) \in SetupFamilies
    BY <1>4, ModesNormal, InferredFamily
  <2>2. Migrate(r) \in TypedSpecs
    BY <1>1, <1>2, <1>3, <1>4, <1>5, <2>1 DEF Migrate, TypedSpecs
  <2>3. SetupFamily(r) = Migrate(r).family /\ Migrate(r).family \in SetupFamilies
    BY <1>5, <2>1 DEF SetupFamily, Migrate
  <2>4. /\ Migrate(r).mode = SignalMode(r) /\ Migrate(r).prompt = Prompt(r)
        /\ Migrate(r).model = SpecFirst(r, "model", {"none"})
    BY <1>5 DEF Migrate, SignalMode, Prompt, SpecFirst
  <2>5. Migrate(r).source = Source(r) /\ Migrate(r).version = Number
    BY <1>3, <1>5 DEF Migrate
  <2>6. Migrate(r).rules = Absent /\ Migrate(r).sources = SignalRulesOf(r, TRUE)
    BY <1>5 DEF Migrate
  <2> QED
    BY <1>2, <2>2, <2>3, <2>4, <2>5, <2>6
<1>6. CASE r.spec # Absent
  <2> DEFINE mode == NormalMode(IF r.spec.mode # "" THEN r.spec.mode ELSE r.mode)
             family == IF r.spec.family \in SetupFamilies THEN r.spec.family
                       ELSE Infer([r EXCEPT !.mode = mode, !.family = ""])
             sources == IF r.spec.sources # Absent THEN r.spec.sources ELSE SignalRulesOf(r, TRUE)
             prompt == IF r.spec.prompt # "" THEN r.spec.prompt ELSE r.prompt
             model == IF r.spec.model # "none" THEN r.spec.model ELSE r.model
  <2>1. r.spec \in TypedSpecs
    BY <1>1, <1>6
  <2>2. /\ Migrate(r).mode = mode /\ Migrate(r).family = family /\ Migrate(r).prompt = prompt
        /\ Migrate(r).source = Source(r) /\ Migrate(r).version = Number
        /\ Migrate(r).rules = r.spec.rules /\ Migrate(r).sources = sources
        /\ Migrate(r).model = model
    BY <1>1, <1>6, SpecAssumption DEF Migrate, MigrateTyped
  <2>3. mode \in Text /\ family \in SetupFamilies
    BY <1>4, ModesNormal, InferredFamily
  <2>4. sources \in RuleList /\ prompt \in Text /\ model \in Text
        /\ r.spec.rules \in {Absent} \cup RuleList
    BY <1>1, <1>2, <2>1 DEF TypedSpecs
  <2>5. mode = SignalMode(r) /\ prompt = Prompt(r) /\ model = SpecFirst(r, "model", {"none"})
    BY <1>6 DEF SignalMode, Prompt, SpecFirst
  <2>6. SetupFamily(r) = family
    BY <1>6, <2>2 DEF SetupFamily
  <2>7. (IF r.spec.rules # Absent THEN r.spec.rules ELSE sources) = SignalRulesOf(r, TRUE)
    BY <1>6, <2>4, SpecAssumption DEF SignalRulesOf, NormalRules
  <2> HIDE DEF mode, family, sources, prompt, model
  <2>8. Migrate(r) \in TypedSpecs
    BY <1>1, <1>3, <1>4, <1>6, <2>3, <2>4, SpecAssumption DEF Migrate, MigrateTyped, TypedSpecs,
       mode, family, sources, prompt, model
  <2> QED
    BY <2>2, <2>3, <2>4, <2>5, <2>6, <2>7, <2>8
<1> QED
  BY <1>5, <1>6

\* A record whose spec is migrated from another, and whose prompt and model are the
\* resolved ones of the other, says the same.
LEMMA CarriesOver ==
  ASSUME NEW r \in Records, NEW c \in Records,
         c.spec = Migrate(r), c.prompt = Prompt(r), c.model = Model(r)
  PROVE  Says(c) = Says(r)
<1>1. /\ Migrate(r) \in TypedSpecs /\ Migrate(r).sources \in RuleList
      /\ Migrate(r).mode = SignalMode(r)
      /\ Migrate(r).family = SetupFamily(r) /\ SetupFamily(r) \in SetupFamilies
      /\ Migrate(r).prompt = Prompt(r)
      /\ Migrate(r).model = SpecFirst(r, "model", {"none"})
      /\ (IF Migrate(r).rules # Absent THEN Migrate(r).rules ELSE Migrate(r).sources)
           = SignalRulesOf(r, TRUE)
  BY MigrateSays
<1>2. c.spec # Absent /\ c.spec.sources # Absent
  BY <1>1, SpecAssumption
<1>3. SignalMode(c) = SignalMode(r)
  <2>1. SignalMode(r) \in RecordModes /\ SignalMode(r) # ""
    BY ModesNormal DEF SignalMode, RecordModes
  <2> QED
    BY <1>1, <1>2, <2>1, ModesNormal DEF SignalMode, SpecFirst
<1>4. SetupFamily(c) = SetupFamily(r)
  BY <1>1, <1>2 DEF SetupFamily
<1>5. Prompt(c) = Prompt(r)
  BY <1>1, <1>2 DEF Prompt, SpecFirst
<1>6. Model(c) = Model(r)
  <2>1. c.model \in Text /\ SpecFirst(r, "model", {"none"}) \in Text
    BY <1>1 DEF Records, TypedSpecs
  <2>2. Approved(c.model) = c.model
    BY <2>1, ApprovedTwice DEF Model
  <2>3. SpecFirst(c, "model", {"none"})
          = IF SpecFirst(r, "model", {"none"}) # "none" THEN SpecFirst(r, "model", {"none"})
            ELSE Model(r)
    BY <1>1, <1>2 DEF SpecFirst
  <2> QED
    BY <2>2, <2>3 DEF Model
<1>7. SignalRulesOf(c, TRUE) = SignalRulesOf(r, TRUE)
  BY <1>1, <1>2, TypedRules
<1> QED
  BY <1>3, <1>4, <1>5, <1>6, <1>7 DEF Says

\* canonicalize_strategy_record, on load and on save.
LEMMA CanonicalSays ==
  ASSUME NEW r \in Records
  PROVE  /\ Canonical(r) \in Records /\ Says(Canonical(r)) = Says(r)
         /\ Canonical(r).spec = Migrate(r) /\ Canonical(r).version = Number
         /\ Canonical(r).prompt = Prompt(r) /\ Canonical(r).model = Model(r)
         /\ Canonical(r).mode = SignalMode(r)
<1> DEFINE typed == [r EXCEPT !.spec = Migrate(r)]
           c == Canonical(r)
<1>1. /\ Migrate(r) \in TypedSpecs
      /\ Migrate(r).prompt = Prompt(r)
      /\ Migrate(r).model = SpecFirst(r, "model", {"none"})
      /\ Migrate(r).version = Number /\ Migrate(r) # Absent
  BY MigrateSays, SpecAssumption
<1>2. typed \in Records
  BY <1>1 DEF Records
<1>3. typed.spec = Migrate(r) /\ typed.prompt = r.prompt /\ typed.model = r.model
      /\ typed.version = Number
  BY DEF Records
<1>4. Prompt(typed) = Prompt(r) /\ RecordVersion(typed) = Number
  BY <1>1, <1>3, SpecAssumption DEF Prompt, RecordVersion, SpecFirst
<1>5. Model(typed) = Model(r) /\ SignalMode(typed) = SignalMode(r)
  <2>1. Model(typed) = Model(r)
    BY <1>1, <1>3 DEF Model, SpecFirst
  <2>2. Migrate(r).mode = SignalMode(r) /\ SignalMode(r) \in RecordModes /\ SignalMode(r) # ""
    BY MigrateSays, ModesNormal DEF SignalMode, RecordModes
  <2>3. SignalMode(typed) = SignalMode(r)
    BY <1>1, <1>3, <2>2, ModesNormal DEF SignalMode, SpecFirst
  <2> QED
    BY <2>1, <2>3
<1>6. /\ SignalMode(typed) \in Text /\ SetupFamily(typed) \in Text /\ Source(typed) \in Text
      /\ Prompt(r) \in Text /\ Model(r) \in Text
  <2>1. SignalMode(typed) \in Text
    BY ModesNormal, SpecAssumption DEF SignalMode
  <2>2. SetupFamily(typed) \in Text
    BY <1>2, MigrateSays, SpecAssumption
  <2>3. Source(typed) \in Text
    BY <1>2, MigrateSays DEF TypedSpecs
  <2>4. Prompt(r) \in Text
    BY MigrateSays DEF TypedSpecs
  <2>5. SpecFirst(r, "model", {"none"}) \in Text
    BY MigrateSays DEF TypedSpecs
  <2> QED
    BY <2>1, <2>2, <2>3, <2>4, <2>5, ApprovedName DEF Model
<1>7. c = [typed EXCEPT !.mode = SignalMode(typed), !.family = SetupFamily(typed),
                        !.source = Source(typed), !.prompt = Prompt(r), !.version = Number,
                        !.model = Model(r)]
  BY <1>4, <1>5 DEF Canonical, Resolved
<1> HIDE DEF typed
<1>8. /\ c \in Records
      /\ c.spec = Migrate(r) /\ c.prompt = Prompt(r) /\ c.model = Model(r) /\ c.version = Number
      /\ c.mode = SignalMode(r)
  <2>1. c \in Records
    BY <1>2, <1>6, <1>7, <1>5 DEF Records
  <2>2. /\ c.spec = typed.spec /\ c.prompt = Prompt(r) /\ c.model = Model(r)
        /\ c.version = Number /\ c.mode = SignalMode(typed)
    BY <1>2, <1>7 DEF Records
  <2> QED
    BY <1>3, <1>5, <2>1, <2>2
<1>9. Says(c) = Says(r)
  BY <1>8, CarriesOver
<1> QED
  BY <1>8, <1>9

\* build_active_strategy_payload.
LEMMA PayloadSays ==
  ASSUME NEW r \in Records
  PROVE  /\ ActivePayload(r) \in Records /\ Says(ActivePayload(r)) = Says(r)
         /\ ActivePayload(r).prompt = Prompt(r) /\ ActivePayload(r).model = Model(r)
         /\ RecordVersion(ActivePayload(r)) = Number
<1> DEFINE p == ActivePayload(r)
<1>1. Migrate(r) \in TypedSpecs /\ Migrate(r).version = Number /\ Migrate(r) # Absent
  BY MigrateSays, SpecAssumption
<1>2. /\ SignalMode(r) \in Text /\ SetupFamily(r) \in Text /\ Source(r) \in Text
      /\ Prompt(r) \in Text /\ Model(r) \in Text
  <2>1. SpecFirst(r, "model", {"none"}) \in Text
    BY MigrateSays DEF TypedSpecs
  <2>2. SignalMode(r) \in Text /\ SetupFamily(r) \in Text
    BY MigrateSays, ModesNormal, SpecAssumption DEF SignalMode
  <2>3. Source(r) \in Text /\ Prompt(r) \in Text
    BY MigrateSays DEF TypedSpecs
  <2> QED
    BY <2>1, <2>2, <2>3, ApprovedName DEF Model
<1>3. AlgorithmicRules(r) \in RuleList
  <2>1. {} \in RuleList /\ EMA \in RuleList
    BY SpecAssumption DEF RuleList
  <2>2. r.rules \in {Absent, Null} \cup RuleList
        /\ (r.spec # Absent => r.spec.rules \in {Absent} \cup RuleList
                               /\ r.spec.sources \in {Absent} \cup RuleList)
    BY DEF Records, TypedSpecs
  <2> QED
    BY <2>1, <2>2, SpecAssumption DEF AlgorithmicRules, SignalRulesOf, NormalRules
<1>4. RecordVersion(r) = Number
  <2>1. r.version = Number /\ (r.spec # Absent => r.spec.version \in {0, Number})
    BY DEF Records, TypedSpecs
  <2> QED
    BY <2>1, SpecAssumption DEF RecordVersion, SpecFirst
<1>5. /\ p \in Records /\ p.spec = Migrate(r) /\ p.prompt = Prompt(r) /\ p.model = Model(r)
      /\ p.version = Number
  BY <1>1, <1>2, <1>3, <1>4 DEF ActivePayload, Resolved, Records
<1>6. RecordVersion(p) = Number
  BY <1>1, <1>5, SpecAssumption DEF RecordVersion, SpecFirst
<1> QED
  BY <1>5, <1>6, CarriesOver

\* load_active_strategy: the agent runs what the record says.
LEMMA LoadedSays ==
  ASSUME NEW raw \in Records
  PROVE  Loaded(raw) = Says(raw)
<1> DEFINE c == Canonical(raw)
           data == ActivePayload(c)
           full == [data EXCEPT !.spec = Migrate(data)]
<1>1. c \in Records /\ Says(c) = Says(raw)
  BY CanonicalSays
<1>2. /\ data \in Records /\ Says(data) = Says(c)
      /\ data.prompt = Prompt(c) /\ data.model = Model(c) /\ RecordVersion(data) = Number
  BY <1>1, PayloadSays
<1>3. /\ Migrate(data) \in TypedSpecs /\ Migrate(data).sources \in RuleList
      /\ Migrate(data).family = SetupFamily(data) /\ Migrate(data) # Absent
  BY <1>2, MigrateSays, SpecAssumption
<1>4. Prompt(data) = Prompt(c) /\ Model(data) = Model(c)
  BY <1>2 DEF Says
<1> HIDE DEF c, data
<1>5. full \in Records /\ full.spec = Migrate(data) /\ full.prompt = Prompt(data)
      /\ full.model = Model(data)
  BY <1>2, <1>3, <1>4 DEF Records
<1> HIDE DEF full
<1>6. Says(full) = Says(data)
  BY <1>2, <1>5, CarriesOver
<1>7. AlgorithmicRules(full) = SignalRulesOf(full, TRUE)
  <2>1. full.spec.rules \in {Absent} \cup RuleList /\ full.spec.sources \in RuleList
        /\ full.spec # Absent
    BY <1>3, <1>5 DEF TypedSpecs
  <2> QED
    BY <2>1, SpecAssumption DEF AlgorithmicRules, SignalRulesOf, NormalRules
<1>8. Loaded(raw) = [mode |-> SignalMode(full), family |-> full.spec.family,
                     prompt |-> Prompt(full), version |-> RecordVersion(data),
                     model |-> Model(full), rules |-> AlgorithmicRules(full)]
  BY DEF Loaded, c, data, full
<1>9. full.spec.family = SetupFamily(full)
  BY <1>2, <1>3, <1>5, <1>6 DEF Says
<1> QED
  <2>1. Loaded(raw) = Says(full)
    BY <1>2, <1>7, <1>8, <1>9 DEF Says
  <2> QED
    BY <1>1, <1>2, <1>6, <2>1

\* What a loaded record looks like: typed, its flat fields those that are resolved.
Settled(c) ==
  /\ c \in Records /\ c.spec \in TypedSpecs /\ c.spec.sources \in RuleList
  /\ c.spec.family \in SetupFamilies
  /\ c.mode = SignalMode(c) /\ c.prompt = Prompt(c) /\ c.model = Model(c)

LEMMA CanonicalSettles ==
  ASSUME NEW r \in Records
  PROVE  Settled(Canonical(r))
<1> DEFINE c == Canonical(r)
<1>1. /\ c \in Records /\ c.spec = Migrate(r)
      /\ c.prompt = Prompt(r) /\ c.model = Model(r) /\ c.mode = SignalMode(r)
      /\ Says(c) = Says(r)
  BY CanonicalSays
<1>2. /\ Migrate(r) \in TypedSpecs /\ Migrate(r).sources \in RuleList
      /\ Migrate(r).family \in SetupFamilies
  BY MigrateSays
<1>3. Prompt(c) = Prompt(r) /\ Model(c) = Model(r) /\ SignalMode(c) = SignalMode(r)
  BY <1>1 DEF Says
<1> QED
  BY <1>1, <1>2, <1>3 DEF Settled

LEMMA EditedRecord ==
  ASSUME NEW data, Settled(data), NEW e \in EditRequests
  PROVE  LET r == Edited(data, e) IN
         /\ r \in Records /\ r.spec = data.spec /\ r.mode \in RecordModes
         /\ "mode" \notin DOMAIN e => r.mode = data.mode
         /\ "prompt" \notin DOMAIN e => r.prompt = data.prompt
         /\ "model" \notin DOMAIN e => r.model = data.model
<1> DEFINE Set(f) == IF f \in DOMAIN e /\ e[f] # Null THEN e[f] ELSE data[f]
<1>1. \A f \in DOMAIN e : e[f] \in EditValues(f)
  BY SpecAssumption
<1>2. data \in Records /\ data.mode \in RecordModes
  BY ModesNormal DEF Settled, SignalMode
<1>3. Set("mode") \in RecordModes
  BY <1>1, <1>2 DEF EditValues
<1>4. Set("source") \in Text /\ Set("prompt") \in Text /\ Set("model") \in Text
  BY <1>1, <1>2 DEF EditValues, Records
<1>5. Set("rules") \in {Absent, Null} \cup RuleList
  BY <1>1, <1>2 DEF EditValues, Records
<1>6. Set("mode") \in Text
  BY <1>3, SpecAssumption
<1>7. Edited(data, e) = [data EXCEPT !.mode = Set("mode"), !.source = Set("source"),
                           !.prompt = Set("prompt"), !.model = Set("model"), !.rules = Set("rules")]
  BY DEF Edited, Sets
<1>8. /\ "mode" \notin DOMAIN e => Set("mode") = data.mode
      /\ "prompt" \notin DOMAIN e => Set("prompt") = data.prompt
      /\ "model" \notin DOMAIN e => Set("model") = data.model
  OBVIOUS
<1> HIDE DEF Set
<1> QED
  BY <1>2, <1>3, <1>4, <1>5, <1>6, <1>7, <1>8 DEF Records

\* The provers need help to see that two records with the same fields are one.
SaysFields == {"mode", "family", "prompt", "version", "model", "rules"}

LEMMA SaysExcept ==
  ASSUME NEW w, NEW u, w = [f \in SaysFields |-> w[f]], u = [f \in SaysFields |-> u[f]],
         u.family = w.family, u.version = w.version, u.rules = w.rules
  PROVE  u = [w EXCEPT !.mode = u.mode, !.prompt = u.prompt, !.model = u.model]
<1> DEFINE t == [w EXCEPT !.mode = u.mode, !.prompt = u.prompt, !.model = u.model]
<1>1. t = [f \in SaysFields |-> t[f]]
  OBVIOUS
<1>2. /\ t.mode = u.mode /\ t.family = u.family /\ t.prompt = u.prompt /\ t.version = u.version
      /\ t.model = u.model /\ t.rules = u.rules
  BY DEF SaysFields
<1> HIDE DEF t
<1>3. \A f \in SaysFields : t[f] = u[f]
  BY <1>2 DEF SaysFields
<1>4. t = u
  BY <1>1, <1>3
<1> QED
  BY <1>4 DEF t

LEMMA SaysIsFields ==
  ASSUME NEW r
  PROVE  Says(r) = [f \in SaysFields |-> Says(r)[f]]
BY DEF Says, SaysFields

\* _save_version and save_strategy_record: what is on disk afterwards says the fields
\* of the request, and as for the rest what it said before.
LEMMA SavedSays ==
  ASSUME NEW data, Settled(data), NEW e \in EditRequests, NEW r, r = Edited(data, e)
  PROVE  /\ Saved(r, DOMAIN e) \in Records
         /\ RecordVersion(Saved(r, DOMAIN e)) = Number
         /\ Says(Saved(r, DOMAIN e))
              = [Says(data) EXCEPT !.mode = r.mode, !.prompt = r.prompt,
                                   !.model = Approved(r.model)]
<1> DEFINE Keep(f, resolved) == IF f \in DOMAIN e THEN r[f] ELSE resolved
           Take(f, edited, resolved) == IF f \in DOMAIN e THEN edited ELSE resolved
           flat == [r EXCEPT !.mode = Keep("mode", SignalMode(r)), !.family = SetupFamily(r),
                             !.prompt = Keep("prompt", Prompt(r)),
                             !.source = Keep("source", Source(r))]
           mode == Take("mode", NormalMode(flat.mode), SignalMode(flat))
           prompt == Take("prompt", flat.prompt, Prompt(flat))
           model == Take("model", IF flat.model = "blank" THEN "none" ELSE flat.model, Model(flat))
           source == Take("source", IF flat.source # "" THEN flat.source ELSE Source(flat),
                          Source(flat))
           version == RecordVersion(flat)
           x == [flat EXCEPT !.spec.mode = mode, !.spec.prompt = prompt, !.spec.model = model,
                             !.spec.source = source, !.spec.version = version]
           typed == [flat EXCEPT !.spec = Migrate(x)]
           saved == [typed EXCEPT !.model = Model(typed)]
<1>1. /\ r \in Records /\ r.spec = data.spec /\ r.mode \in RecordModes
      /\ "mode" \notin DOMAIN e => r.mode = data.mode
      /\ "prompt" \notin DOMAIN e => r.prompt = data.prompt
      /\ "model" \notin DOMAIN e => r.model = data.model
  BY EditedRecord
<1>2. /\ data \in Records /\ data.spec \in TypedSpecs /\ data.spec # Absent
      /\ data.spec.sources \in RuleList /\ data.spec.sources # Absent
      /\ data.spec.family \in SetupFamilies
      /\ data.mode = SignalMode(data) /\ data.prompt = Prompt(data) /\ data.model = Model(data)
  BY SpecAssumption DEF Settled
<1>3. flat \in Records /\ flat.spec = data.spec /\ flat.mode = r.mode /\ flat.prompt = r.prompt
      /\ flat.model = r.model
  <2>1. SetupFamily(r) \in Text /\ Source(r) \in Text /\ Prompt(r) \in Text
    BY <1>1, MigrateSays, SpecAssumption DEF TypedSpecs
  <2>2. "mode" \notin DOMAIN e => SignalMode(r) = r.mode
    BY <1>1, <1>2 DEF SignalMode, SpecFirst
  <2>3. "prompt" \notin DOMAIN e => Prompt(r) = r.prompt
    BY <1>1, <1>2 DEF Prompt, SpecFirst
  <2>4. Keep("source", Source(r)) \in Text
    BY <1>1, <2>1 DEF Records
  <2>5. Keep("mode", SignalMode(r)) = r.mode /\ Keep("prompt", Prompt(r)) = r.prompt
    BY <2>2, <2>3
  <2> HIDE DEF Keep
  <2> QED
    BY <1>1, <2>1, <2>4, <2>5 DEF Records
<1>4. mode = r.mode
  <2>1. "mode" \notin DOMAIN e => SignalMode(flat) = r.mode
    BY <1>1, <1>2, <1>3 DEF SignalMode, SpecFirst
  <2> QED
    BY <1>1, <1>3, <2>1, ModesNormal
<1>5. prompt = r.prompt
  <2>1. "prompt" \notin DOMAIN e => Prompt(flat) = r.prompt
    BY <1>1, <1>2, <1>3 DEF Prompt, SpecFirst
  <2> QED
    BY <1>3, <2>1
<1>6. model = r.model \/ (r.model = "blank" /\ model = "none")
  <2>1. "model" \notin DOMAIN e => Model(flat) = r.model
    BY <1>1, <1>2, <1>3 DEF Model, SpecFirst
  <2> QED
    BY <1>3, <2>1
<1>7. source \in Text /\ version = Number
  <2>1. Source(flat) \in Text /\ flat.source \in Text
    <3> HIDE DEF flat
    <3>1. Migrate(flat) \in TypedSpecs /\ Migrate(flat).source = Source(flat)
      BY <1>3, MigrateSays
    <3> QED
      BY <1>3, <3>1 DEF TypedSpecs, Records
  <2>2. flat.version = Number /\ flat.spec.version \in {0, Number}
    BY <1>2, <1>3 DEF Records, TypedSpecs
  <2>3. version = Number
    BY <2>2, SpecAssumption DEF RecordVersion, SpecFirst
  <2> QED
    BY <2>1, <2>3
<1>8. SyncedSpec(flat, DOMAIN e) = Migrate(x)
  BY DEF SyncedSpec
<1>9. Saved(r, DOMAIN e) = Canonical(saved)
  <2> DEFINE synced == [flat EXCEPT !.spec = SyncedSpec(flat, DOMAIN e)]
  <2>1. Saved(r, DOMAIN e) = Canonical([synced EXCEPT !.model = Model(synced)])
    BY DEF Saved
  <2>2. synced = typed
    BY <1>8
  <2> HIDE DEF synced, typed
  <2> QED
    BY <2>1, <2>2
<1> HIDE DEF flat, mode, prompt, model, source, version
<1>10. /\ x \in Records /\ x.spec \in TypedSpecs /\ x.spec # Absent
       /\ x.spec.mode = mode /\ x.spec.prompt = prompt /\ x.spec.model = model
       /\ x.spec.family = data.spec.family /\ x.spec.rules = data.spec.rules
       /\ x.spec.sources = data.spec.sources
       /\ x.prompt = r.prompt /\ x.model = r.model
  <2>1. mode \in Text /\ prompt \in Text /\ model \in Text
    BY <1>1, <1>4, <1>5, <1>6, SpecAssumption DEF Records
  <2>2. version \in {0, Number}
    BY <1>7
  <2> DEFINE spec == [data.spec EXCEPT !.mode = mode, !.prompt = prompt, !.model = model,
                                       !.source = source, !.version = version]
  <2>3. spec \in TypedSpecs /\ spec.mode = mode /\ spec.prompt = prompt /\ spec.model = model
        /\ spec.family = data.spec.family /\ spec.rules = data.spec.rules
        /\ spec.sources = data.spec.sources
    BY <1>2, <1>7, <2>1, <2>2 DEF TypedSpecs
  <2>4. x = [flat EXCEPT !.spec = spec]
    BY <1>3 DEF Records, TypedSpecs
  <2> HIDE DEF spec, x
  <2> QED
    BY <1>3, <2>3, <2>4, SpecAssumption DEF Records
<1> HIDE DEF x
<1>11. Says(x) = [Says(data) EXCEPT !.mode = r.mode, !.prompt = r.prompt,
                                    !.model = Approved(r.model)]
  <2>1. SignalMode(x) = r.mode
    <3>1. r.mode # ""
      BY <1>1 DEF RecordModes
    <3> QED
      BY <1>1, <1>4, <1>10, <3>1, ModesNormal DEF SignalMode, SpecFirst
  <2>2. SetupFamily(x) = SetupFamily(data)
    BY <1>2, <1>10 DEF SetupFamily
  <2>3. Prompt(x) = r.prompt
    BY <1>5, <1>10 DEF Prompt, SpecFirst
  <2>4. Model(x) = Approved(r.model)
    <3>1. SpecFirst(x, "model", {"none"}) = IF model # "none" THEN model ELSE r.model
      BY <1>10 DEF SpecFirst
    <3>2. Model(x) = Approved(IF model # "none" THEN model ELSE r.model)
      BY <3>1 DEF Model
    <3>3. CASE model # "none"
      BY <1>6, <3>2, <3>3
    <3>4. CASE model = "none"
      BY <3>2, <3>4
    <3> QED
      BY <3>3, <3>4
  <2>5. SignalRulesOf(x, TRUE) = SignalRulesOf(data, TRUE)
    BY <1>2, <1>10, TypedRules
  <2> DEFINE w == Says(data)
             u == Says(x)
  <2>6. /\ u.mode = r.mode /\ u.prompt = r.prompt /\ u.model = Approved(r.model)
        /\ u.family = w.family /\ u.version = w.version /\ u.rules = w.rules
    BY <2>1, <2>2, <2>3, <2>4, <2>5 DEF Says
  <2>7. w = [f \in SaysFields |-> w[f]] /\ u = [f \in SaysFields |-> u[f]]
    BY SaysIsFields
  <2> HIDE DEF w, u
  <2>8. u = [w EXCEPT !.mode = u.mode, !.prompt = u.prompt, !.model = u.model]
    BY <2>6, <2>7, SaysExcept
  <2>9. u = [w EXCEPT !.mode = r.mode, !.prompt = r.prompt, !.model = Approved(r.model)]
    BY <2>6, <2>8
  <2> QED
    BY <2>9 DEF u, w
<1>12. /\ typed \in Records /\ typed.spec = Migrate(x)
       /\ typed.prompt = r.prompt /\ typed.model = r.model
  <2>1. Migrate(x) \in TypedSpecs
    BY <1>10, MigrateSays
  <2> QED
    BY <1>3, <2>1 DEF Records
<1>13. Model(typed) = Model(x) /\ Model(x) \in Text
  <2>1. /\ Migrate(x) # Absent /\ Migrate(x).model = SpecFirst(x, "model", {"none"})
        /\ Migrate(x).model \in Text
    BY <1>10, MigrateSays, SpecAssumption DEF TypedSpecs
  <2>2. SpecFirst(typed, "model", {"none"}) = SpecFirst(x, "model", {"none"})
    BY <1>10, <1>12, <2>1 DEF SpecFirst
  <2> QED
    BY <2>1, <2>2, ApprovedName DEF Model
<1>14. Prompt(x) = r.prompt
  BY <1>5, <1>10 DEF Prompt, SpecFirst
<1> HIDE DEF typed
<1>15. /\ saved \in Records /\ saved.spec = Migrate(x)
       /\ saved.prompt = Prompt(x) /\ saved.model = Model(x)
  BY <1>12, <1>13, <1>14 DEF Records
<1> HIDE DEF saved
<1>16. Says(saved) = Says(x)
  BY <1>10, <1>15, CarriesOver
<1>17. Canonical(saved) \in Records /\ Says(Canonical(saved)) = Says(saved)
       /\ Canonical(saved).spec = Migrate(saved) /\ Canonical(saved).version = Number
  BY <1>15, CanonicalSays
<1>18. RecordVersion(Canonical(saved)) = Number
  <2>1. Migrate(saved).version = Number
    BY <1>15, MigrateSays
  <2> QED
    BY <1>17, <2>1 DEF RecordVersion, SpecFirst
<1> QED
  BY <1>9, <1>11, <1>16, <1>17, <1>18

\* Every record says the same, in the file and in the setting: what the operator asked for.
RecordInv ==
  /\ file \in Records /\ wanted = Says(file)
  /\ setting # Absent => setting \in Records /\ Says(setting) = wanted

LEMMA EditKeeps ==
  ASSUME RecordInv, NEW e \in EditRequests, EditStrategy(e)
  PROVE  RecordInv'
<1> DEFINE data == Canonical(file)
           r == Edited(data, e)
           next == Saved(r, DOMAIN e)
<1>1. Settled(data) /\ Says(data) = wanted
  BY CanonicalSettles, CanonicalSays DEF RecordInv
<1>2. /\ file' = next
      /\ setting' # Absent /\ setting = Absent => setting' = setting
      /\ setting # Absent /\ Canonical(setting).version = RecordVersion(next)
           => setting' = ActivePayload(next)
  BY DEF EditStrategy
<1>3. wanted' = [wanted EXCEPT !.mode = r.mode, !.prompt = r.prompt, !.model = Approved(r.model)]
  <2> DEFINE Ask(f) == IF Sets(e, f) THEN e[f] ELSE wanted[f]
             Set(f) == IF Sets(e, f) THEN e[f] ELSE data[f]
  <2>1. wanted' = [wanted EXCEPT !.mode = Ask("mode"), !.prompt = Ask("prompt"),
                                 !.model = Approved(Ask("model"))]
    BY DEF EditStrategy
  <2>2. r.mode = Set("mode") /\ r.prompt = Set("prompt") /\ r.model = Set("model")
    <3>1. data \in Records /\ r = Edited(data, e)
      BY <1>1 DEF Settled
    <3> HIDE DEF data, r
    <3> QED
      BY <3>1 DEF Edited, Records
  <2>3. /\ data.mode = wanted.mode /\ data.prompt = wanted.prompt /\ data.model = wanted.model
        /\ data.model \in Text /\ Approved(wanted.model) = wanted.model
    <3> HIDE DEF data
    <3>1. data.mode = wanted.mode /\ data.prompt = wanted.prompt /\ data.model = wanted.model
      BY <1>1 DEF Settled, Says
    <3>2. data.model \in Text /\ data.model = Model(data)
      BY <1>1 DEF Settled, Records
    <3>3. SpecFirst(data, "model", {"none"}) \in Text
      BY <1>1, MigrateSays DEF Settled, TypedSpecs
    <3>4. Approved(data.model) = data.model
      BY <3>2, <3>3, ApprovedTwice DEF Model
    <3> QED
      BY <3>1, <3>2, <3>4
  <2> HIDE DEF data, r
  <2> QED
    BY <2>1, <2>2, <2>3
<1> HIDE DEF data, r
<1>4. /\ next \in Records /\ RecordVersion(next) = Number
      /\ Says(next) = [Says(data) EXCEPT !.mode = r.mode, !.prompt = r.prompt,
                                         !.model = Approved(r.model)]
  BY <1>1, SavedSays DEF r
<1> HIDE DEF next
<1>5. file' \in Records /\ wanted' = Says(file')
  BY <1>1, <1>2, <1>3, <1>4
<1>6. ASSUME setting' # Absent PROVE setting' \in Records /\ Says(setting') = wanted'
  <2>1. setting # Absent
    BY <1>2, <1>6
  <2>2. Canonical(setting).version = Number
    BY <2>1, CanonicalSays DEF RecordInv
  <2>3. setting' = ActivePayload(next)
    BY <1>2, <1>4, <2>1, <2>2
  <2> QED
    BY <1>2, <1>4, <1>5, <2>3, PayloadSays
<1>7. Says(file)' = Says(file') /\ Says(setting)' = Says(setting')
  OBVIOUS
<1> QED
  BY <1>5, <1>6, <1>7 DEF RecordInv

LEMMA RecordNext ==
  ASSUME RecordInv, [SpecNext]_specVars
  PROVE  RecordInv'
<1>1. CASE ActivateRecord
  <2>1. /\ file' = file /\ wanted' = wanted /\ setting' = ActivePayload(Canonical(file))
    BY <1>1 DEF ActivateRecord
  <2>2. Canonical(file) \in Records /\ Says(Canonical(file)) = wanted
    BY CanonicalSays DEF RecordInv
  <2>3. ActivePayload(Canonical(file)) \in Records /\ Says(ActivePayload(Canonical(file))) = wanted
    BY <2>2, PayloadSays
  <2>4. Says(file)' = Says(file') /\ Says(setting)' = Says(setting')
    OBVIOUS
  <2> QED
    BY <2>1, <2>3, <2>4 DEF RecordInv
<1>2. CASE UNCHANGED specVars
  <2>1. Says(file)' = Says(file') /\ Says(setting)' = Says(setting')
    OBVIOUS
  <2> QED
    BY <1>2, <2>1 DEF RecordInv, specVars
<1> QED
  BY <1>1, <1>2, EditKeeps DEF SpecNext

LEMMA RecordInvariant == SpecSpec => []RecordInv
<1>1. SpecInit => RecordInv
  BY SpecAssumption DEF SpecInit, RecordInv
<1> QED
  BY <1>1, RecordNext, PTL DEF SpecSpec

\* However old the record and whatever was edited, saved, loaded and activated, in which
\* order: the catalogue and the agent read the operator's last mode, prompt and model and
\* the family and rules the record came with (canonicalize_strategy_record,
\* _sync_strategy_spec_write_fields, build_active_strategy_payload, load_active_strategy).
THEOREM EditsReachTheAgent == SpecSpec => []AgentRunsTheEdit
<1>1. RecordInv => AgentRunsTheEdit
  BY LoadedSays DEF RecordInv, AgentRunsTheEdit
<1> QED
  BY <1>1, RecordInvariant, PTL
=============================================================================
