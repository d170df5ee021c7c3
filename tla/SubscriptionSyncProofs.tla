------------------------ MODULE SubscriptionSyncProofs ------------------------
(* What is proved of SubscriptionSync for every value of its constants. *)
EXTENDS SubscriptionSync, FiniteSetTheorems, TLAPS

(***************************************************************************)
(* Types.  TypeOK alone is not inductive: it admits NULL wherever a row or *)
(* a task may be empty, so a step that adds an interval to a time needs to *)
(* know that neither is NULL while the row exists and the task runs.       *)
(***************************************************************************)
RowFilled(row) == row.exists => row.url \in Urls /\ row.interval \in Intervals
TaskFilled(tk) ==
    /\ tk.pc # "idle" => tk.sub \in Subs /\ tk.now \in Nat
    /\ tk.pc = "record" => tk.code \in ErrorCodes

SubShape == sub \in [Subs -> SubRow] /\ \A s \in Subs : RowFilled(sub[s])
NodesShape == nodes \in [Subs -> [Keys -> NodeRow \cup {NULL}]]
TaskShape == task \in [Tasks -> TaskState] /\ \A t \in Tasks : TaskFilled(task[t])
RoundShape == round \in RoundState /\ (round.pc # "sleep" => round.now \in Nat)
AdminShape ==
    /\ admin \in [Admins -> AdminState]
    /\ \A a \in Admins : admin[a].pc = "loaded" => admin[a].sub \in Subs
CountersShape == clock \in Nat /\ faults \in Nat

Shape == /\ SubShape /\ NodesShape /\ TaskShape
         /\ RoundShape /\ AdminShape /\ CountersShape

\* The rows a sync writes are rows.
LEMMA SucceededRowType ==
    ASSUME NEW row \in SubRow, row.interval \in Intervals,
           NEW now \in Nat, NEW ks \in SUBSET Keys
    PROVE  SucceededRow(row, now, ks) \in SubRow
<1>1. IsFiniteSet(ks) BY KeysAssumption, FS_Subset
<1>2. Cardinality(ks) \in Nat BY <1>1, FS_CardinalityType
<1>3. row.interval \in Nat BY TimeAssumption
<1>4. now + row.interval \in Nat BY <1>3
<1> QED BY <1>2, <1>4 DEF SucceededRow, SubRow, MaybeTime

LEMMA FailedRowType ==
    ASSUME NEW row \in SubRow, row.interval \in Intervals,
           NEW now \in Nat, NEW code \in ErrorCodes
    PROVE  FailedRow(row, now, code) \in SubRow
<1>1. row.interval \in Nat /\ RetryCap \in Nat BY TimeAssumption
<1>2. now + Min2(row.interval, RetryCap) \in Nat BY <1>1 DEF Min2
<1> QED BY <1>2 DEF FailedRow, SubRow, MaybeTime

LEMMA UpdatedRowType ==
    ASSUME NEW row \in SubRow, NEW p \in AdminState
    PROVE  UpdatedRow(row, p) \in SubRow
<1>1. /\ Put(row.url, p.url) \in Urls \cup {NULL}
      /\ Put(row.enabled, p.enabled) \in BOOLEAN
      /\ Put(row.auto, p.auto) \in BOOLEAN
      /\ Put(row.interval, p.interval) \in Intervals \cup {NULL}
      /\ Put(row.next, p.next) \in MaybeTime
  BY DEF Put, SubRow, AdminState
<1> QED BY <1>1 DEF UpdatedRow, SubRow

LEMMA UpsertedNodesType ==
    ASSUME NEW old \in [Keys -> NodeRow \cup {NULL}], NEW url \in Urls,
           NEW ks \in SUBSET Keys
    PROVE  UpsertedNodes(old, url, ks) \in [Keys -> NodeRow \cup {NULL}]
BY DEF UpsertedNodes, NodeRow

\* Setting one entry of a table keeps the table's type.
LEMMA SetSub ==
    ASSUME SubShape, NEW s \in Subs, NEW row \in SubRow, RowFilled(row),
           sub' = [sub EXCEPT ![s] = row]
    PROVE  SubShape'
BY DEF SubShape

LEMMA SetNodes ==
    ASSUME NodesShape, NEW s \in Subs, NEW ns \in [Keys -> NodeRow \cup {NULL}],
           nodes' = [nodes EXCEPT ![s] = ns]
    PROVE  NodesShape'
BY DEF NodesShape

LEMMA SetTask ==
    ASSUME TaskShape, NEW t \in Tasks, NEW tk \in TaskState, TaskFilled(tk),
           task' = [task EXCEPT ![t] = tk]
    PROVE  TaskShape'
BY DEF TaskShape

LEMMA SetAdmin ==
    ASSUME AdminShape, NEW a \in Admins, NEW ad \in AdminState,
           ad.pc = "loaded" => ad.sub \in Subs,
           admin' = [admin EXCEPT ![a] = ad]
    PROVE  AdminShape'
BY DEF AdminShape

LEMMA FinishShape ==
    ASSUME TaskShape, NEW t \in Tasks, Finish(t)
    PROVE  TaskShape'
<1>1. IdleTask \in TaskState /\ TaskFilled(IdleTask)
  BY DEF IdleTask, TaskState, TaskPcs, MaybeTime, TaskFilled
<1> QED BY <1>1, SetTask DEF Finish

LEMMA FaultShape == ASSUME CountersShape, Fault, clock' = clock PROVE CountersShape'
BY DEF CountersShape, Fault

\* What a start finds: nothing, or a row that 0006 left.
LEMMA FoundRow ==
    ASSUME NEW old \in Found
    PROVE  /\ old.row \in SubRow /\ RowFilled(old.row)
           /\ old.nodes \in [Keys -> NodeRow \cup {NULL}]
           /\ ~old.row.exists => Stored(old.nodes) = {} /\ old.row.success = NULL
           /\ old.row.count # NULL => old.row.count = Cardinality(Stored(old.nodes))
           /\ old.row.exists => old.row.count # NULL
           /\ old.row.exists => (old.row.next # NULL <=> Active(old.row))
<1>1. CASE old = None
  <2>1. old.row = NoSub /\ old.nodes = NoNodes
    BY <1>1 DEF None
  <2>2. NoSub \in SubRow /\ RowFilled(NoSub)
    BY DEF SubRow, NoSub, MaybeTime, RowFilled
  <2>3. NoNodes \in [Keys -> NodeRow \cup {NULL}] /\ Stored(NoNodes) = {}
    BY DEF NoNodes, Stored
  <2>4. ~NoSub.exists /\ NoSub.success = NULL /\ NoSub.count = NULL
    BY DEF NoSub
  <2> QED
    BY <2>1, <2>2, <2>3, <2>4
<1>2. CASE AsUpgraded(old)
  <2>1. /\ old.row \in SubRow /\ old.nodes \in [Keys -> NodeRow \cup {NULL}]
        /\ old.row.exists /\ old.row.url # NULL /\ old.row.interval # NULL
        /\ old.row.count = Cardinality(Stored(old.nodes))
        /\ old.row.next # NULL <=> Active(old.row)
    BY <1>2 DEF AsUpgraded
  <2>2. RowFilled(old.row)
    BY <2>1 DEF RowFilled, SubRow
  <2>3. IsFiniteSet(Stored(old.nodes))
    <3>1. Stored(old.nodes) \subseteq Keys
      BY DEF Stored
    <3> QED
      BY <3>1, KeysAssumption, FS_Subset
  <2>4. old.row.count # NULL
    BY <2>1, <2>3, FS_CardinalityType, MarkAssumption
  <2> QED
    BY <2>1, <2>2, <2>4
<1> QED
  BY <1>1, <1>2, FoundAssumption

LEMMA InitShape == Init => Shape
<1> SUFFICES ASSUME Init PROVE Shape OBVIOUS
<1> USE DEF Init, Shape
<1>0. PICK old \in [Subs -> Found] : /\ sub = [s \in Subs |-> old[s].row]
                                      /\ nodes = [s \in Subs |-> old[s].nodes]
  OBVIOUS
<1>1. SubShape BY <1>0, FoundRow DEF SubShape
<1>2. NodesShape BY <1>0, FoundRow DEF NodesShape
<1>3. TaskShape BY DEF TaskShape, TaskState, TaskPcs, IdleTask, MaybeTime, TaskFilled
<1>4. RoundShape BY DEF RoundShape, RoundState, Sleeping, MaybeTime
<1>5. AdminShape BY DEF AdminShape, AdminState, IdleAdmin
<1>6. CountersShape BY DEF CountersShape
<1> QED BY <1>1, <1>2, <1>3, <1>4, <1>5, <1>6

\* The steps of one run of sync_subscription.
LEMMA SyncShape ==
    ASSUME Shape, NEW t \in Tasks, SyncStep(t) PROVE Shape'
<1> USE DEF Shape
<1>0. task[t] \in TaskState /\ TaskFilled(task[t]) BY DEF TaskShape
<1>1. CASE Snapshot(t)
  <2>1. TaskShape'
    <3> DEFINE row == sub[task[t].sub]
               tk == [task[t] EXCEPT !.pc = "fetch", !.url = row.url]
    <3>1. CASE task' = [task EXCEPT ![t].pc = "fetch", ![t].url = row.url]
      <4>1. row \in SubRow BY <1>0, <1>1 DEF Snapshot, TaskFilled, SubShape
      <4>2. tk \in TaskState BY <1>0, <4>1 DEF TaskState, TaskPcs, SubRow
      <4>3. TaskFilled(tk) BY <1>0, <1>1 DEF TaskState, TaskFilled, Snapshot
      <4>4. task' = [task EXCEPT ![t] = tk] BY <3>1 DEF TaskShape, TaskState
      <4> QED BY <4>2, <4>3, <4>4, SetTask
    <3>2. CASE Finish(t) BY <3>2, FinishShape
    <3> QED BY <1>1, <3>1, <3>2 DEF Snapshot
  <2> QED BY <1>1, <2>1 DEF Snapshot, SubShape, NodesShape, RoundShape, AdminShape, CountersShape
<1>2. CASE FetchOk(t)
  <2>1. PICK ks \in (SUBSET Keys) \ {{}} :
            task' = [task EXCEPT ![t].pc = "write", ![t].keys = ks]
    BY <1>2 DEF FetchOk
  <2> DEFINE tk == [task[t] EXCEPT !.pc = "write", !.keys = ks]
  <2>2. tk \in TaskState BY <1>0 DEF TaskState, TaskPcs
  <2>3. TaskFilled(tk) BY <1>0, <1>2 DEF TaskState, TaskFilled, FetchOk
  <2>4. task' = [task EXCEPT ![t] = tk] BY <2>1 DEF TaskShape, TaskState
  <2>5. TaskShape' BY <2>2, <2>3, <2>4, SetTask
  <2> QED BY <1>2, <2>5 DEF FetchOk, SubShape, NodesShape, RoundShape, AdminShape, CountersShape
<1>a. ASSUME NEW code \in ErrorCodes, task[t].pc # "idle",
             task' = [task EXCEPT ![t].pc = "record", ![t].code = code]
      PROVE  TaskShape'
  <2> DEFINE tk == [task[t] EXCEPT !.pc = "record", !.code = code]
  <2>1. tk \in TaskState BY <1>0 DEF TaskState, TaskPcs
  <2>2. TaskFilled(tk) BY <1>0, <1>a DEF TaskState, TaskFilled
  <2>3. task' = [task EXCEPT ![t] = tk] BY <1>a DEF TaskShape, TaskState
  <2> QED BY <2>1, <2>2, <2>3, SetTask
<1>3. CASE FetchFail(t)
  <2>1. TaskShape' BY <1>3, <1>a DEF FetchFail, ErrorCodes
  <2> QED BY <1>3, <2>1 DEF FetchFail, SubShape, NodesShape, RoundShape, AdminShape, CountersShape
<1>4. CASE AbandonWrite(t)
  <2>1. TaskShape' BY <1>4, FinishShape DEF AbandonWrite
  <2> QED BY <1>4, <2>1 DEF AbandonWrite, SubShape, NodesShape, RoundShape, AdminShape, CountersShape
<1>5. CASE StaleWrite(t)
  <2>1. TaskShape' BY <1>5, <1>a DEF StaleWrite, ErrorCodes
  <2> QED BY <1>5, <2>1 DEF StaleWrite, SubShape, NodesShape, RoundShape, AdminShape, CountersShape
<1>6. CASE Upsert(t)
  <2> DEFINE s == task[t].sub
             new == SucceededRow(sub[s], task[t].now, task[t].keys)
             ns == UpsertedNodes(nodes[s], task[t].url, task[t].keys)
  <2>1. s \in Subs /\ task[t].now \in Nat /\ task[t].keys \in SUBSET Keys
    BY <1>0, <1>6 DEF Upsert, TaskFilled, TaskState
  <2>2. sub[s] \in SubRow /\ sub[s].interval \in Intervals /\ sub[s].url \in Urls
    BY <1>6, <2>1 DEF Upsert, SubShape, RowFilled
  <2>3. SubShape'
    <3>1. new \in SubRow BY <2>1, <2>2, SucceededRowType
    <3>2. RowFilled(new) BY <2>2 DEF RowFilled, SucceededRow, SubRow
    <3>3. sub' = [sub EXCEPT ![s] = new] BY <1>6 DEF Upsert
    <3> QED BY <2>1, <3>1, <3>2, <3>3, SetSub
  <2>4. NodesShape'
    <3>1. task[t].url \in Urls BY <1>6, <2>2 DEF Upsert, SnapshotFresh
    <3>2. ns \in [Keys -> NodeRow \cup {NULL}]
      BY <2>1, <3>1, UpsertedNodesType DEF NodesShape
    <3>3. nodes' = [nodes EXCEPT ![s] = ns] BY <1>6 DEF Upsert
    <3> QED BY <2>1, <3>2, <3>3, SetNodes
  <2>5. TaskShape' BY <1>6, FinishShape DEF Upsert
  <2> QED BY <1>6, <2>3, <2>4, <2>5 DEF Upsert, RoundShape, AdminShape, CountersShape
<1>7. CASE DatabaseError(t)
  <2>1. TaskShape' BY <1>7, <1>a DEF DatabaseError, ErrorCodes
  <2>2. CountersShape' BY <1>7, FaultShape DEF DatabaseError
  <2> QED BY <1>7, <2>1, <2>2 DEF DatabaseError, SubShape, NodesShape, RoundShape, AdminShape
<1>8. CASE RecordFailure(t)
  <2> DEFINE s == task[t].sub
             new == FailedRow(sub[s], task[t].now, task[t].code)
  <2>1. SubShape'
    <3>1. CASE MayRecord(t)
      <4>1. s \in Subs /\ task[t].now \in Nat /\ task[t].code \in ErrorCodes
        BY <1>0, <1>8 DEF RecordFailure, TaskFilled
      <4>2. sub[s] \in SubRow /\ sub[s].interval \in Intervals /\ sub[s].url \in Urls
        BY <3>1, <4>1 DEF MayRecord, SubShape, RowFilled
      <4>3. new \in SubRow BY <4>1, <4>2, FailedRowType
      <4>4. RowFilled(new) BY <4>2 DEF RowFilled, FailedRow, SubRow
      <4>5. sub' = [sub EXCEPT ![s] = new] BY <1>8, <3>1 DEF RecordFailure
      <4> QED BY <4>1, <4>3, <4>4, <4>5, SetSub
    <3>2. CASE ~MayRecord(t) BY <1>8, <3>2 DEF RecordFailure, SubShape
    <3> QED BY <3>1, <3>2
  <2>2. TaskShape' BY <1>8, FinishShape DEF RecordFailure
  <2> QED BY <1>8, <2>1, <2>2 DEF RecordFailure, NodesShape, RoundShape, AdminShape, CountersShape
<1>9. CASE RecordError(t)
  <2>1. TaskShape' BY <1>9, FinishShape DEF RecordError
  <2>2. CountersShape' BY <1>9, FaultShape DEF RecordError
  <2> QED BY <1>9, <2>1, <2>2 DEF RecordError, SubShape, NodesShape, RoundShape, AdminShape
<1> QED BY <1>1, <1>2, <1>3, <1>4, <1>5, <1>6, <1>7, <1>8, <1>9 DEF SyncStep

LEMMA RecomputedNextType ==
    ASSUME NEW row \in SubRow, NEW on \in BOOLEAN, NEW au \in BOOLEAN,
           NEW iv \in Intervals, clock \in Nat
    PROVE  RecomputedNext(row, on, au, iv) \in MaybeTime
<1>1. iv \in Nat BY TimeAssumption
<1>2. clock + iv \in Nat BY <1>1
<1> QED BY <1>2 DEF RecomputedNext, SubRow, MaybeTime

\* The UPDATE that Load prepares has the type of a pending UPDATE.
LEMMA LoadShape ==
    ASSUME Shape, NEW a \in Admins, NEW s \in Subs, NEW r \in Edits, Load(a, s, r)
    PROVE  AdminShape'
<1> DEFINE row == sub[s]
           on == Put(row.enabled, r.enabled)
           au == Put(row.auto, r.auto)
           iv == Put(row.interval, r.interval)
           url == Put(row.url, r.url)
           ad == [pc |-> "loaded", sub |-> s, url |-> Delta(row.url, url),
                  enabled |-> Delta(row.enabled, on), auto |-> Delta(row.auto, au),
                  interval |-> Delta(row.interval, iv),
                  next |-> Delta(row.next, RecomputedNext(row, on, au, iv))]
<1>1. row \in SubRow /\ row.url \in Urls /\ row.interval \in Intervals
  BY DEF Load, Shape, SubShape, RowFilled
<1>2. r \in Request BY EditsAssumption
<1>3. on \in BOOLEAN /\ au \in BOOLEAN /\ iv \in Intervals /\ url \in Urls
  BY <1>1, <1>2 DEF Request, SubRow, Put
<1>4. RecomputedNext(row, on, au, iv) \in MaybeTime
  BY <1>1, <1>3, RecomputedNextType DEF Shape, CountersShape
<1>5. ad \in AdminState BY <1>3, <1>4 DEF AdminState, Delta
<1>6. admin' = [admin EXCEPT ![a] = ad] BY DEF Load
<1> QED BY <1>5, <1>6, SetAdmin DEF Shape

\* The requests of the management API.
LEMMA AdminStepShape ==
    ASSUME Shape, NEW a \in Admins,
           \/ \E s \in Subs : \/ Create(a, s)
                              \/ Delete(a, s)
                              \/ \E r \in Edits : Load(a, s, r)
           \/ Store(a)
    PROVE  Shape'
<1> USE DEF Shape
<1>1. ASSUME NEW s \in Subs, Create(a, s) PROVE Shape'
  <2>1. PICK u \in Urls, on \in BOOLEAN, au \in BOOLEAN, iv \in Intervals :
          sub' = [sub EXCEPT ![s] = [NoSub EXCEPT
                    !.exists = TRUE, !.url = u, !.enabled = on, !.auto = au,
                    !.interval = iv, !.next = IF on /\ au THEN clock ELSE NULL]]
    BY <1>1 DEF Create
  <2> DEFINE row == [NoSub EXCEPT !.exists = TRUE, !.url = u, !.enabled = on, !.auto = au,
                        !.interval = iv, !.next = IF on /\ au THEN clock ELSE NULL]
  <2>2. row \in SubRow BY DEF NoSub, SubRow, MaybeTime, CountersShape
  <2>3. RowFilled(row) BY DEF RowFilled, NoSub
  <2>4. SubShape' BY <2>1, <2>2, <2>3, SetSub
  <2> QED BY <1>1, <2>4 DEF Create, NodesShape, TaskShape, RoundShape, AdminShape, CountersShape
<1>2. ASSUME NEW s \in Subs, Delete(a, s) PROVE Shape'
  <2>1. NoSub \in SubRow /\ RowFilled(NoSub) BY DEF NoSub, SubRow, MaybeTime, RowFilled
  <2>2. SubShape' BY <1>2, <2>1, SetSub DEF Delete
  <2>3. NoNodes \in [Keys -> NodeRow \cup {NULL}] BY DEF NoNodes
  <2>4. NodesShape' BY <1>2, <2>3, SetNodes DEF Delete
  <2> QED BY <1>2, <2>2, <2>4 DEF Delete, TaskShape, RoundShape, AdminShape, CountersShape
<1>3. ASSUME NEW s \in Subs, NEW r \in Edits, Load(a, s, r) PROVE Shape'
  <2>1. AdminShape' BY <1>3, LoadShape
  <2> QED BY <1>3, <2>1 DEF Load, SubShape, NodesShape, TaskShape, RoundShape, CountersShape
<1>4. ASSUME Store(a) PROVE Shape'
  <2> DEFINE s == admin[a].sub
             new == UpdatedRow(sub[s], admin[a])
  <2>1. s \in Subs /\ admin[a] \in AdminState BY <1>4 DEF Store, AdminShape
  <2>2. SubShape'
    <3>1. CASE sub[s].exists
      <4>1. sub[s] \in SubRow /\ RowFilled(sub[s]) BY <2>1 DEF SubShape
      <4>2. new \in SubRow BY <2>1, <4>1, UpdatedRowType
      <4>3. RowFilled(new) BY <2>1, <4>1 DEF RowFilled, UpdatedRow, Put, SubRow, AdminState
      <4>4. sub' = [sub EXCEPT ![s] = new] BY <1>4, <3>1 DEF Store
      <4> QED BY <2>1, <4>2, <4>3, <4>4, SetSub
    <3>2. CASE ~sub[s].exists BY <1>4, <3>2 DEF Store, SubShape
    <3> QED BY <3>1, <3>2
  <2>3. AdminShape'
    <3>1. IdleAdmin \in AdminState /\ IdleAdmin.pc # "loaded" BY DEF IdleAdmin, AdminState
    <3> QED BY <1>4, <3>1, SetAdmin DEF Store
  <2> QED BY <1>4, <2>2, <2>3 DEF Store, NodesShape, TaskShape, RoundShape, CountersShape
<1> QED BY <1>1, <1>2, <1>3, <1>4

\* The rounds of the scheduler loop.
LEMMA RoundStepShape ==
    ASSUME Shape,
           \/ BeginRound \/ SelectDue \/ SelectError \/ EndRound
           \/ \E i \in round.due : NextItem(i) \/ ItemError(i)
    PROVE  Shape'
<1> USE DEF Shape
<1>1. CASE BeginRound
  BY <1>1 DEF BeginRound, SubShape, NodesShape, TaskShape, RoundShape, RoundState, MaybeTime, AdminShape, CountersShape
<1>2. CASE SelectDue
  <2>1. {[sub |-> s, next |-> sub[s].next] : s \in DueAt(round.now)} \in SUBSET Item
    BY DEF DueAt, Item, SubShape, SubRow, MaybeTime
  <2>2. RoundShape' BY <1>2, <2>1 DEF SelectDue, RoundShape, RoundState
  <2> QED BY <1>2, <2>2 DEF SelectDue, SubShape, NodesShape, TaskShape, AdminShape, CountersShape
<1>a. Sleeping \in RoundState /\ Sleeping.pc = "sleep" BY DEF Sleeping, RoundState, MaybeTime
<1>3. CASE SelectError
  <2>1. CountersShape' BY <1>3, FaultShape DEF SelectError
  <2> QED BY <1>3, <1>a, <2>1 DEF SelectError, SubShape, NodesShape, TaskShape, RoundShape, AdminShape
<1>4. CASE EndRound
  BY <1>4, <1>a DEF EndRound, SubShape, NodesShape, TaskShape, RoundShape, AdminShape, CountersShape
<1>5. ASSUME NEW i \in round.due, NextItem(i) PROVE Shape'
  <2> DEFINE tk == [IdleTask EXCEPT !.pc = "snapshot", !.sub = i.sub, !.now = round.now, !.expected = i.next]
  <2>1. i \in Item /\ round.now \in Nat BY <1>5 DEF NextItem, RoundShape, RoundState
  <2>2. tk \in TaskState /\ TaskFilled(tk)
    BY <2>1 DEF Item, IdleTask, TaskState, TaskPcs, MaybeTime, TaskFilled
  <2>3. TaskShape' BY <1>5, <2>2, SetTask DEF NextItem, Tasks
  <2>4. RoundShape' BY <1>5 DEF NextItem, RoundShape, RoundState
  <2> QED BY <1>5, <2>3, <2>4 DEF NextItem, SubShape, NodesShape, AdminShape, CountersShape
<1>6. ASSUME NEW i \in round.due, ItemError(i) PROVE Shape'
  <2>1. CountersShape' BY <1>6, FaultShape DEF ItemError
  <2>2. RoundShape' BY <1>6 DEF ItemError, RoundShape, RoundState
  <2> QED BY <1>6, <2>1, <2>2 DEF ItemError, SubShape, NodesShape, TaskShape, AdminShape
<1> QED BY <1>1, <1>2, <1>3, <1>4, <1>5, <1>6

LEMMA NextShape == Shape /\ [Next]_vars => Shape'
<1> SUFFICES ASSUME Shape, [Next]_vars PROVE Shape' OBVIOUS
<1> USE DEF Shape
<1>1. CASE SchedulerStep
  BY <1>1, RoundStepShape, SyncShape DEF SchedulerStep, Tasks
<1>2. ASSUME NEW t \in ManualTasks, NEW s \in Subs, StartManual(t, s) PROVE Shape'
  <2> DEFINE tk == [IdleTask EXCEPT !.pc = "snapshot", !.sub = s, !.now = clock]
  <2>1. tk \in TaskState /\ TaskFilled(tk)
    BY DEF IdleTask, TaskState, TaskPcs, MaybeTime, TaskFilled, CountersShape
  <2>2. TaskShape' BY <1>2, <2>1, SetTask DEF StartManual, Tasks
  <2> QED BY <1>2, <2>2 DEF StartManual, SubShape, NodesShape, RoundShape, AdminShape, CountersShape
<1>3. ASSUME NEW t \in ManualTasks, Cancel(t) PROVE Shape'
  <2>1. TaskShape' BY <1>3, FinishShape DEF Cancel, Tasks
  <2> QED BY <1>3, <2>1 DEF Cancel, SubShape, NodesShape, RoundShape, AdminShape, CountersShape
<1>4. ASSUME NEW s \in Subs, NEW k \in Keys, EditNode(s, k) PROVE Shape'
  <2> DEFINE new == [nodes[s] EXCEPT ![k].manual = ~@]
  <2>1. nodes[s] \in [Keys -> NodeRow \cup {NULL}] /\ nodes[s][k] \in NodeRow
    BY <1>4 DEF EditNode, NodesShape
  <2>2. new \in [Keys -> NodeRow \cup {NULL}] BY <2>1 DEF NodeRow
  <2>3. nodes' = [nodes EXCEPT ![s] = new] BY <1>4, <2>1 DEF EditNode, NodesShape
  <2>4. NodesShape' BY <2>2, <2>3, SetNodes
  <2> QED BY <1>4, <2>4 DEF EditNode, SubShape, TaskShape, RoundShape, AdminShape, CountersShape
<1>5. CASE Restart
  <2>1. TaskShape'
    BY <1>5 DEF Restart, TaskShape, TaskState, TaskPcs, IdleTask, MaybeTime, TaskFilled
  <2>2. RoundShape' BY <1>5 DEF Restart, RoundShape, RoundState, Sleeping, MaybeTime
  <2>3. AdminShape' BY <1>5 DEF Restart, AdminShape, AdminState, IdleAdmin
  <2>4. NodesShape' BY <1>5 DEF Restart, NodesShape, NoNodes
  <2>5. CountersShape' BY <1>5, FaultShape DEF Restart
  <2> QED BY <1>5, <2>1, <2>2, <2>3, <2>4, <2>5 DEF Restart, SubShape
<1>6. CASE Tick
  BY <1>6 DEF Tick, SubShape, NodesShape, TaskShape, RoundShape, AdminShape, CountersShape
<1>7. CASE UNCHANGED vars
  BY <1>7 DEF vars, SubShape, NodesShape, TaskShape, RoundShape, AdminShape, CountersShape
<1> QED
  BY <1>1, <1>2, <1>3, <1>4, <1>5, <1>6, <1>7, SyncShape, AdminStepShape DEF Next, Tasks

\* Type correctness: no interleaving of syncs, edits, deletions and restarts
\* puts a NULL or a foreign value where the code computes with a time.
THEOREM TypeCorrect == Spec => []TypeOK
<1>1. Shape => TypeOK
  BY DEF Shape, TypeOK, SubShape, NodesShape, TaskShape, RoundShape, AdminShape, CountersShape
<1>2. Spec => []Shape BY InitShape, NextShape, PTL DEF Spec
<1> QED BY <1>1, <1>2, PTL

-------------------------------------------------------------------------------
(***************************************************************************)
(* Scheduling.  ScheduleConsistent is not inductive either: between Load   *)
(* and Store a PUT holds an UPDATE computed from a row that syncs go on    *)
(* rewriting.  PendingFits says why the UPDATE still fits the row it meets:*)
(* syncs never touch enabled and auto_update, and other requests, which    *)
(* do, are excluded by SerialAdmin.                                        *)
(***************************************************************************)
Consistent(row) == row.exists => (row.next # NULL <=> Active(row))

PendingFits(row, p) ==
    LET on == Put(row.enabled, p.enabled) /\ Put(row.auto, p.auto) IN
    /\ row.exists
    /\ p.next = Keep => (on <=> Active(row))
    /\ p.next = NULL => ~on
    /\ p.next \in Nat => on

PendingOK == \A a \in Admins : admin[a].pc = "loaded" =>
                                  PendingFits(sub[admin[a].sub], admin[a])

SchedInv == Shape /\ ScheduleConsistent /\ PendingOK

\* A rewrite of a row that leaves its switches alone and schedules it by them.
LEMMA RescheduleOK ==
    ASSUME SchedInv, NEW s \in Subs, NEW new, sub' = [sub EXCEPT ![s] = new],
           new.exists = sub[s].exists, new.enabled = sub[s].enabled,
           new.auto = sub[s].auto, Consistent(new), admin' = admin
    PROVE  (ScheduleConsistent /\ PendingOK)'
<1> USE DEF SchedInv, Shape
<1>1. ScheduleConsistent'
  BY DEF ScheduleConsistent, Consistent, SubShape
<1>2. ASSUME NEW a \in Admins, admin[a].pc = "loaded"
      PROVE  PendingFits(sub'[admin[a].sub], admin[a])
  <2>1. PendingFits(sub[admin[a].sub], admin[a]) /\ admin[a].sub \in Subs
    BY <1>2 DEF PendingOK, AdminShape
  <2>2. sub'[admin[a].sub] = IF admin[a].sub = s THEN new ELSE sub[admin[a].sub]
    BY <2>1 DEF SubShape
  <2> QED BY <2>1, <2>2 DEF PendingFits, Active
<1>3. PendingOK' BY <1>2 DEF PendingOK
<1> QED BY <1>1, <1>3

\* The row a success or a failure leaves behind is scheduled by its switches.
LEMMA SyncedRowsConsistent ==
    ASSUME NEW row \in SubRow, row.interval \in Intervals, NEW now \in Nat
    PROVE  /\ \A ks \in SUBSET Keys : Consistent(SucceededRow(row, now, ks))
           /\ \A code \in ErrorCodes : Consistent(FailedRow(row, now, code))
<1>1. row.interval \in Nat /\ RetryCap \in Nat BY TimeAssumption
<1>2. now + row.interval \in Nat /\ now + Min2(row.interval, RetryCap) \in Nat
  BY <1>1 DEF Min2
<1>3. now + row.interval # NULL /\ now + Min2(row.interval, RetryCap) # NULL
  BY <1>2, MarkAssumption
<1> QED BY <1>3 DEF Consistent, SucceededRow, FailedRow, SubRow, Active

LEMMA SyncSched ==
    ASSUME SchedInv, NEW t \in Tasks, SyncStep(t)
    PROVE  (ScheduleConsistent /\ PendingOK)'
<1> USE DEF SchedInv, Shape
<1> DEFINE s == task[t].sub
<1>1. CASE Upsert(t)
  <2> DEFINE new == SucceededRow(sub[s], task[t].now, task[t].keys)
  <2>1. s \in Subs /\ task[t].now \in Nat /\ task[t].keys \in SUBSET Keys
    BY <1>1 DEF Upsert, TaskShape, TaskFilled, TaskState
  <2>2. sub[s] \in SubRow /\ sub[s].interval \in Intervals
    BY <1>1, <2>1 DEF Upsert, SubShape, RowFilled
  <2>3. Consistent(new) BY <2>1, <2>2, SyncedRowsConsistent
  <2>4. new.exists = sub[s].exists /\ new.enabled = sub[s].enabled /\ new.auto = sub[s].auto
    BY <2>2 DEF SucceededRow, SubRow
  <2>5. sub' = [sub EXCEPT ![s] = new] /\ admin' = admin BY <1>1 DEF Upsert
  <2> QED BY <2>1, <2>3, <2>4, <2>5, RescheduleOK
<1>2. CASE RecordFailure(t) /\ MayRecord(t)
  <2> DEFINE new == FailedRow(sub[s], task[t].now, task[t].code)
  <2>1. s \in Subs /\ task[t].now \in Nat /\ task[t].code \in ErrorCodes
    BY <1>2 DEF RecordFailure, TaskShape, TaskFilled
  <2>2. sub[s] \in SubRow /\ sub[s].interval \in Intervals
    BY <1>2, <2>1 DEF MayRecord, SubShape, RowFilled
  <2>3. Consistent(new) BY <2>1, <2>2, SyncedRowsConsistent
  <2>4. new.exists = sub[s].exists /\ new.enabled = sub[s].enabled /\ new.auto = sub[s].auto
    BY <2>2 DEF FailedRow, SubRow
  <2>5. sub' = [sub EXCEPT ![s] = new] /\ admin' = admin BY <1>2 DEF RecordFailure
  <2> QED BY <2>1, <2>3, <2>4, <2>5, RescheduleOK
<1>3. CASE sub' = sub /\ admin' = admin
  BY <1>3 DEF ScheduleConsistent, PendingOK
<1> QED BY <1>1, <1>2, <1>3
        DEF SyncStep, Snapshot, FetchOk, FetchFail, AbandonWrite, StaleWrite,
            RecordFailure, DatabaseError, RecordError

\* What Load prepares fits the row it was computed from.
LEMMA LoadFits ==
    ASSUME SchedInv, NEW a \in Admins, NEW s \in Subs, NEW r \in Edits, Load(a, s, r)
    PROVE  PendingFits(sub[s], admin'[a])
<1> USE DEF SchedInv, Shape
<1> DEFINE row == sub[s]
           on == Put(row.enabled, r.enabled)
           au == Put(row.auto, r.auto)
           iv == Put(row.interval, r.interval)
           n == RecomputedNext(row, on, au, iv)
           p == admin'[a]
<1>1. row \in SubRow /\ row.exists /\ row.interval \in Intervals /\ clock \in Nat
  BY DEF Load, SubShape, RowFilled, CountersShape
<1>2. on \in BOOLEAN /\ au \in BOOLEAN /\ iv \in Intervals
  BY <1>1, EditsAssumption DEF Request, SubRow, Put
<1>3. /\ p.enabled = Delta(row.enabled, on) /\ p.auto = Delta(row.auto, au)
      /\ p.next = Delta(row.next, n)
  BY DEF Load, AdminShape
<1>4. Put(row.enabled, p.enabled) = on /\ Put(row.auto, p.auto) = au
  BY <1>1, <1>2, <1>3, MarkAssumption DEF Put, Delta, SubRow
<1>5. n # Keep /\ (n = NULL <=> ~(on /\ au))
  <2>0. iv \in Nat BY <1>2, TimeAssumption
  <2>1. clock + iv \in Nat BY <1>1, <2>0
  <2>2. row.next # Keep BY <1>1, MarkAssumption DEF SubRow, MaybeTime
  <2>3. clock # NULL /\ clock # Keep /\ clock + iv # NULL /\ clock + iv # Keep
    BY <1>1, <2>1, MarkAssumption
  <2> QED BY <2>2, <2>3, MarkAssumption DEF RecomputedNext
<1>6. Active(row) <=> row.next # NULL BY <1>1 DEF ScheduleConsistent
<1>7. p.next = Keep => (on /\ au <=> Active(row)) BY <1>3, <1>5, <1>6 DEF Delta
<1>8. p.next = NULL => ~(on /\ au) BY <1>3, <1>5, MarkAssumption DEF Delta
<1>9. p.next \in Nat => on /\ au BY <1>3, <1>5, MarkAssumption DEF Delta
<1> QED BY <1>1, <1>4, <1>7, <1>8, <1>9 DEF PendingFits

\* With requests one at a time, every one of them leaves rows scheduled.
LEMMA AdminSched ==
    ASSUME SerialAdmin, SchedInv, NEW a \in Admins,
           \/ \E s \in Subs : \/ Create(a, s)
                              \/ Delete(a, s)
                              \/ \E r \in Edits : Load(a, s, r)
           \/ Store(a)
    PROVE  (ScheduleConsistent /\ PendingOK)'
<1> USE DEF SchedInv, Shape
<1>0. Admins = {a} BY DEF SerialAdmin
<1>1. ASSUME NEW s \in Subs, Create(a, s) PROVE (ScheduleConsistent /\ PendingOK)'
  <2>1. PICK u \in Urls, on \in BOOLEAN, au \in BOOLEAN, iv \in Intervals :
          sub' = [sub EXCEPT ![s] = [NoSub EXCEPT
                    !.exists = TRUE, !.url = u, !.enabled = on, !.auto = au,
                    !.interval = iv, !.next = IF on /\ au THEN clock ELSE NULL]]
    BY <1>1 DEF Create
  <2>2. clock # NULL BY MarkAssumption DEF CountersShape
  <2>3. ScheduleConsistent'
    BY <2>1, <2>2 DEF ScheduleConsistent, Active, SubShape, NoSub
  <2>4. PendingOK' BY <1>0, <1>1 DEF Create, PendingOK
  <2> QED BY <2>3, <2>4
<1>2. ASSUME NEW s \in Subs, Delete(a, s) PROVE (ScheduleConsistent /\ PendingOK)'
  <2>1. ScheduleConsistent' BY <1>2 DEF Delete, ScheduleConsistent, SubShape, NoSub
  <2>2. PendingOK' BY <1>0, <1>2 DEF Delete, PendingOK
  <2> QED BY <2>1, <2>2
<1>3. ASSUME NEW s \in Subs, NEW r \in Edits, Load(a, s, r)
      PROVE (ScheduleConsistent /\ PendingOK)'
  <2>1. ScheduleConsistent' BY <1>3 DEF Load, ScheduleConsistent
  <2>2. PendingFits(sub[s], admin'[a]) BY <1>3, LoadFits
  <2>3. admin'[a].sub = s /\ sub' = sub BY <1>3 DEF Load, AdminShape
  <2>4. PendingOK' BY <1>0, <2>2, <2>3 DEF PendingOK
  <2> QED BY <2>1, <2>4
<1>4. ASSUME Store(a) PROVE (ScheduleConsistent /\ PendingOK)'
  <2> DEFINE s == admin[a].sub
             p == admin[a]
             new == UpdatedRow(sub[s], p)
  <2>1. s \in Subs /\ p \in AdminState /\ sub[s] \in SubRow
    BY <1>4 DEF Store, AdminShape, SubShape
  <2>2. PendingFits(sub[s], p) BY <1>4 DEF Store, PendingOK
  <2>3. sub' = [sub EXCEPT ![s] = new] BY <1>4, <2>2 DEF Store, PendingFits
  <2>4. /\ new.next = Put(sub[s].next, p.next)
        /\ Active(new) <=> Put(sub[s].enabled, p.enabled) /\ Put(sub[s].auto, p.auto)
    BY <2>1 DEF UpdatedRow, SubRow, Active
  <2>5. sub[s].next # NULL <=> Active(sub[s])
    BY <2>1, <2>2 DEF PendingFits, ScheduleConsistent
  <2>6. p.next \in Nat \cup {NULL, Keep} BY <2>1 DEF AdminState, MaybeTime
  <2>7. Consistent(new)
    <3>1. CASE p.next = Keep
      BY <2>2, <2>4, <2>5, <3>1 DEF PendingFits, Put, Consistent
    <3>2. CASE p.next = NULL
      BY <2>2, <2>4, <3>2, MarkAssumption DEF PendingFits, Put, Consistent
    <3>3. CASE p.next \in Nat
      BY <2>2, <2>4, <3>3, MarkAssumption DEF PendingFits, Put, Consistent
    <3> QED BY <2>6, <3>1, <3>2, <3>3
  <2>8. ScheduleConsistent' BY <2>1, <2>3, <2>7 DEF ScheduleConsistent, Consistent, SubShape
  <2>9. PendingOK' BY <1>0, <1>4 DEF Store, PendingOK, AdminShape, IdleAdmin
  <2> QED BY <2>8, <2>9
<1> QED BY <1>1, <1>2, <1>3, <1>4

\* As long as management requests come one at a time, a subscription has a
\* next time exactly when it is enabled with automatic update, whatever syncs,
\* failures and restarts happen between the two halves of a PUT.
THEOREM ScheduleStaysConsistent ==
    ASSUME SerialAdmin PROVE Spec => []ScheduleConsistent
<1>1. Init => SchedInv
  <2> SUFFICES ASSUME Init PROVE SchedInv OBVIOUS
  <2>1. PICK old \in [Subs -> Found] : sub = [s \in Subs |-> old[s].row]
    BY DEF Init
  <2>2. ScheduleConsistent BY <2>1, FoundRow DEF ScheduleConsistent
  <2> QED BY <2>2, InitShape DEF Init, SchedInv, PendingOK, IdleAdmin
<1>2. SchedInv /\ [Next]_vars => SchedInv'
  <2> SUFFICES ASSUME SchedInv, [Next]_vars PROVE (ScheduleConsistent /\ PendingOK)'
    BY NextShape DEF SchedInv
  <2>1. CASE sub' = sub /\ admin' = admin BY <2>1 DEF SchedInv, ScheduleConsistent, PendingOK
  <2>2. CASE \E t \in Tasks : SyncStep(t) BY <2>2, SyncSched
  <2>3. ASSUME NEW a \in Admins,
               \/ \E s \in Subs : \/ Create(a, s)
                                  \/ Delete(a, s)
                                  \/ \E r \in Edits : Load(a, s, r)
               \/ Store(a)
        PROVE  (ScheduleConsistent /\ PendingOK)'
    BY <2>3, AdminSched
  <2>4. CASE Restart
    BY <2>4 DEF Restart, SchedInv, ScheduleConsistent, PendingOK, IdleAdmin
  <2> QED BY <2>1, <2>2, <2>3, <2>4
          DEF Next, SchedulerStep, BeginRound, SelectDue, SelectError, EndRound, NextItem,
              ItemError, StartManual, Cancel, EditNode, Tick, Tasks, vars
<1>3. SchedInv => ScheduleConsistent BY DEF SchedInv
<1> QED BY <1>1, <1>2, <1>3, PTL DEF Spec

-------------------------------------------------------------------------------
(***************************************************************************)
(* Node accounting.  Inductive given the types: what makes it delicate is  *)
(* the number of steps that touch a row or its nodes, and that an id freed *)
(* by Delete is handed out again with no node left over.                   *)
(***************************************************************************)
Accounted(row, ns) ==
    /\ ~row.exists => Stored(ns) = {}
    /\ row.success # NULL => row.count # NULL
    /\ row.count = NULL => Stored(ns) = {}
    /\ row.count # NULL => row.count = Cardinality(Stored(ns))

LEMMA AccountedSame ==
    ASSUME NodesAccounted, NEW s \in Subs, NEW new,
           new.exists = sub[s].exists, new.count = sub[s].count,
           new.success = sub[s].success
    PROVE  Accounted(new, nodes[s])
BY DEF NodesAccounted, Accounted

\* A success stores exactly the nodes of the answer, and counts them.
LEMMA StoredUpserted ==
    ASSUME NEW old, NEW url \in Urls, NEW ks \in SUBSET Keys,
           old \in [Keys -> NodeRow \cup {NULL}]
    PROVE  Stored(UpsertedNodes(old, url, ks)) = ks
<1> DEFINE ns == UpsertedNodes(old, url, ks)
<1>1. ASSUME NEW k \in Keys PROVE ns[k] # NULL <=> k \in ks
  <2>1. CASE k \in ks
    <3>1. ns[k] \in NodeRow BY <2>1 DEF UpsertedNodes, NodeRow
    <3> QED BY <2>1, <3>1, NodeAssumption
  <2>2. CASE k \notin ks BY <2>2 DEF UpsertedNodes
  <2> QED BY <2>1, <2>2
<1> QED BY <1>1 DEF Stored

LEMMA UpsertAccounted ==
    ASSUME Shape, NodesAccounted, NEW t \in Tasks, Upsert(t)
    PROVE  NodesAccounted'
<1> USE DEF Shape
<1> DEFINE s == task[t].sub
           ks == task[t].keys
           new == SucceededRow(sub[s], task[t].now, ks)
           ns == UpsertedNodes(nodes[s], task[t].url, ks)
<1>1. s \in Subs /\ task[t].now \in Nat /\ ks \in SUBSET Keys
  BY DEF Upsert, TaskShape, TaskFilled, TaskState
<1>2. sub[s] \in SubRow /\ sub[s].exists /\ sub[s].url \in Urls
  BY <1>1 DEF Upsert, SubShape, RowFilled
<1>3. Stored(ns) = ks
  BY <1>1, <1>2, StoredUpserted DEF Upsert, SnapshotFresh, NodesShape
<1>4. IsFiniteSet(ks) BY <1>1, KeysAssumption, FS_Subset
<1>5. Cardinality(ks) \in Nat BY <1>4, FS_CardinalityType
<1>6. /\ new.exists /\ new.count = Cardinality(ks) /\ new.success = task[t].now
  BY <1>2 DEF SucceededRow, SubRow
<1>7. Accounted(new, ns) BY <1>1, <1>3, <1>5, <1>6, MarkAssumption DEF Accounted
<1>8. sub' = [sub EXCEPT ![s] = new] /\ nodes' = [nodes EXCEPT ![s] = ns] BY DEF Upsert
<1> QED BY <1>1, <1>7, <1>8 DEF NodesAccounted, Accounted, SubShape, NodesShape

LEMMA RowStepAccounted ==
    ASSUME Shape, NodesAccounted, NEW s \in Subs, NEW new,
           new.exists = sub[s].exists, new.count = sub[s].count,
           new.success = sub[s].success,
           sub' = [sub EXCEPT ![s] = new], nodes' = nodes
    PROVE  NodesAccounted'
BY AccountedSame DEF NodesAccounted, Accounted, Shape, SubShape

LEMMA NextAccounted == Shape /\ NodesAccounted /\ [Next]_vars => NodesAccounted'
<1> SUFFICES ASSUME Shape, NodesAccounted, [Next]_vars PROVE NodesAccounted' OBVIOUS
<1> USE DEF Shape
<1>1. CASE sub' = sub /\ nodes' = nodes BY <1>1 DEF NodesAccounted, Stored
<1>2. ASSUME NEW t \in Tasks, Upsert(t) PROVE NodesAccounted' BY <1>2, UpsertAccounted
<1>3. ASSUME NEW t \in Tasks, RecordFailure(t) PROVE NodesAccounted'
  <2> DEFINE s == task[t].sub
             new == FailedRow(sub[s], task[t].now, task[t].code)
  <2>1. s \in Subs /\ sub[s] \in SubRow
    BY <1>3 DEF RecordFailure, TaskShape, TaskFilled, SubShape
  <2>2. new.exists = sub[s].exists /\ new.count = sub[s].count /\ new.success = sub[s].success
    BY <2>1 DEF FailedRow, SubRow
  <2>3. CASE MayRecord(t)
    <3>1. sub' = [sub EXCEPT ![s] = new] /\ nodes' = nodes BY <1>3, <2>3 DEF RecordFailure
    <3> QED BY <2>1, <2>2, <3>1, RowStepAccounted
  <2>4. CASE ~MayRecord(t) BY <1>1, <1>3, <2>4 DEF RecordFailure
  <2> QED BY <2>3, <2>4
<1>4. ASSUME NEW a \in Admins, NEW s \in Subs, Create(a, s) PROVE NodesAccounted'
  <2>1. PICK u \in Urls, on \in BOOLEAN, au \in BOOLEAN, iv \in Intervals :
          sub' = [sub EXCEPT ![s] = [NoSub EXCEPT
                    !.exists = TRUE, !.url = u, !.enabled = on, !.auto = au,
                    !.interval = iv, !.next = IF on /\ au THEN clock ELSE NULL]]
    BY <1>4 DEF Create
  <2>2. s \in Nat /\ ~(s < s) BY SubsAssumption
  <2>3. ~sub[s].exists BY <1>4, <2>2 DEF Create, FreshId
  <2>4. Stored(nodes[s]) = {} BY <2>3 DEF NodesAccounted
  <2>5. sub'[s].exists /\ sub'[s].count = NULL /\ sub'[s].success = NULL
    BY <2>1 DEF NoSub, SubShape
  <2>6. nodes' = nodes BY <1>4 DEF Create
  <2>7. \A r \in Subs : r # s => sub'[r] = sub[r] BY <2>1 DEF SubShape
  <2>8. Accounted(sub'[s], nodes[s]) BY <2>4, <2>5 DEF Accounted
  <2> QED BY <2>6, <2>7, <2>8 DEF NodesAccounted, Accounted
<1>5. ASSUME NEW a \in Admins, NEW s \in Subs, Delete(a, s) PROVE NodesAccounted'
  <2>1. Stored(NoNodes) = {} BY DEF Stored, NoNodes
  <2>2. Accounted(NoSub, NoNodes) BY <2>1 DEF Accounted, NoSub
  <2>3. sub' = [sub EXCEPT ![s] = NoSub] /\ nodes' = [nodes EXCEPT ![s] = NoNodes]
    BY <1>5 DEF Delete
  <2> QED BY <2>2, <2>3 DEF NodesAccounted, Accounted, SubShape, NodesShape
<1>6. ASSUME NEW a \in Admins, Store(a) PROVE NodesAccounted'
  <2> DEFINE s == admin[a].sub
             new == UpdatedRow(sub[s], admin[a])
  <2>1. s \in Subs /\ sub[s] \in SubRow BY <1>6 DEF Store, AdminShape, SubShape
  <2>2. new.exists = sub[s].exists /\ new.count = sub[s].count /\ new.success = sub[s].success
    BY <2>1 DEF UpdatedRow, SubRow
  <2>3. CASE sub[s].exists
    <3>1. sub' = [sub EXCEPT ![s] = new] /\ nodes' = nodes BY <1>6, <2>3 DEF Store
    <3> QED BY <2>1, <2>2, <3>1, RowStepAccounted
  <2>4. CASE ~sub[s].exists BY <1>1, <1>6, <2>4 DEF Store
  <2> QED BY <2>3, <2>4
<1>7. ASSUME NEW s \in Subs, NEW k \in Keys, EditNode(s, k) PROVE NodesAccounted'
  <2>1. nodes[s][k] \in NodeRow BY <1>7 DEF EditNode, NodesShape
  <2>2. nodes'[s][k] \in NodeRow BY <1>7, <2>1 DEF EditNode, NodesShape, NodeRow
  <2>3. nodes'[s][k] # NULL /\ nodes[s][k] # NULL BY <2>1, <2>2, NodeAssumption
  <2>4. \A r \in Subs, j \in Keys : r # s \/ j # k => nodes'[r][j] = nodes[r][j]
    BY <1>7 DEF EditNode, NodesShape
  <2>5. \A r \in Subs : Stored(nodes'[r]) = Stored(nodes[r]) BY <2>3, <2>4 DEF Stored
  <2>6. sub' = sub BY <1>7 DEF EditNode
  <2> QED BY <2>5, <2>6 DEF NodesAccounted
<1>8. CASE Restart
  <2>1. Stored(NoNodes) = {} BY DEF Stored, NoNodes
  <2>2. \A s \in Subs : sub'[s] = sub[s] /\ nodes'[s] = IF sub[s].exists THEN nodes[s] ELSE NoNodes
    BY <1>8 DEF Restart
  <2>3. \A s \in Subs : Stored(nodes'[s]) = Stored(nodes[s])
    BY <2>1, <2>2 DEF NodesAccounted
  <2> QED BY <2>2, <2>3 DEF NodesAccounted
<1> QED
  BY <1>1, <1>2, <1>3, <1>4, <1>5, <1>6, <1>7, <1>8
  DEF Next, SchedulerStep, SyncStep, BeginRound, SelectDue, SelectError, EndRound, NextItem,
      ItemError, StartManual, Cancel, Snapshot, FetchOk, FetchFail, AbandonWrite, StaleWrite,
      DatabaseError, RecordError, Load, Tick, Tasks, vars

\* The nodes stored and the counters on the row never disagree, whatever
\* syncs, deletions, id reuses, failures and restarts interleave, in a database
\* that was empty and in any that was upgraded.
THEOREM NodesStayAccounted == Spec => []NodesAccounted
<1>1. Init => NodesAccounted
  <2> SUFFICES ASSUME Init, NEW s \in Subs PROVE Accounted(sub[s], nodes[s])
    BY DEF NodesAccounted, Accounted
  <2>1. PICK old \in [Subs -> Found] : /\ sub = [r \in Subs |-> old[r].row]
                                        /\ nodes = [r \in Subs |-> old[r].nodes]
    BY DEF Init
  <2>2. sub[s] = old[s].row /\ nodes[s] = old[s].nodes /\ old[s] \in Found
    BY <2>1
  <2>3. sub[s].count = NULL => ~sub[s].exists
    BY <2>2, FoundRow
  <2>4. ~sub[s].exists => Stored(nodes[s]) = {} /\ sub[s].success = NULL
    BY <2>2, FoundRow
  <2>5. sub[s].exists \in BOOLEAN
    BY <2>2, FoundRow DEF SubRow
  <2>6. sub[s].count # NULL => sub[s].count = Cardinality(Stored(nodes[s]))
    BY <2>2, FoundRow
  <2> QED
    BY <2>3, <2>4, <2>5, <2>6 DEF Accounted
<1>2. Shape /\ NodesAccounted /\ [Next]_vars => Shape' /\ NodesAccounted'
  BY NextShape, NextAccounted
<1> QED BY <1>1, <1>2, InitShape, PTL DEF Spec

-------------------------------------------------------------------------------
(***************************************************************************)
(* What one write may do, as action properties.                            *)
(***************************************************************************)

\* Steps that leave the rows and the nodes alone.
LEMMA QuietSteps ==
    ASSUME [Next]_vars
    PROVE  \/ sub' = sub /\ nodes' = nodes
           \/ \E t \in Tasks : Upsert(t) \/ (RecordFailure(t) /\ MayRecord(t))
           \/ \E a \in Admins, s \in Subs : Create(a, s) \/ Delete(a, s)
           \/ \E a \in Admins : Store(a)
           \/ \E s \in Subs, k \in Keys : EditNode(s, k)
           \/ Restart
BY DEF Next, SchedulerStep, SyncStep, BeginRound, SelectDue, SelectError, EndRound, NextItem,
       ItemError, StartManual, Cancel, Snapshot, FetchOk, FetchFail, AbandonWrite, StaleWrite,
       RecordFailure, DatabaseError, RecordError, Load, Tick, Tasks, vars

LEMMA AnswerWriteStep ==
    ASSUME Shape, [Next]_vars, NEW s \in Subs PROVE AnswerWrite(s)
<1> USE DEF Shape
<1>1. CASE nodes' = nodes BY <1>1 DEF AnswerWrite
<1>2. ASSUME NEW t \in Tasks, Upsert(t) PROVE AnswerWrite(s)
  <2> DEFINE r == task[t].sub
  <2>1. r \in Subs /\ sub[r].url = task[t].url
    BY <1>2 DEF Upsert, SnapshotFresh, TaskShape, TaskFilled
  <2>2. nodes' = [nodes EXCEPT ![r] = UpsertedNodes(@, task[t].url, task[t].keys)]
    BY <1>2 DEF Upsert
  <2>3. CASE s = r
    BY <2>1, <2>2, <2>3 DEF AnswerWrite, UpsertedNodes, NodesShape
  <2>4. CASE s # r
    <3>1. nodes'[s] = nodes[s] BY <2>1, <2>2, <2>4 DEF NodesShape
    <3> QED BY <3>1 DEF AnswerWrite
  <2> QED BY <2>3, <2>4
<1>3. ASSUME NEW r \in Subs, NEW k \in Keys, EditNode(r, k) PROVE AnswerWrite(s)
  <2>1. nodes[r][k] \in NodeRow /\ nodes[r][k] # NULL BY <1>3 DEF EditNode, NodesShape
  <2>2. \A j \in Keys : (s # r \/ j # k) => nodes'[s][j] = nodes[s][j]
    BY <1>3 DEF EditNode, NodesShape
  <2>3. nodes'[r][k].src = nodes[r][k].src
    BY <1>3, <2>1 DEF EditNode, NodesShape, NodeRow
  <2> QED BY <2>1, <2>2, <2>3 DEF AnswerWrite
<1>4. ASSUME NEW a \in Admins, NEW r \in Subs, Delete(a, r) PROVE AnswerWrite(s)
  BY <1>4 DEF Delete, AnswerWrite, NodesShape, NoNodes
<1>5. CASE Restart BY <1>5 DEF Restart, AnswerWrite, NodesShape, NoNodes
<1> QED BY <1>1, <1>2, <1>3, <1>4, <1>5, QuietSteps DEF RecordFailure, Create, Store

\* For any number of syncs in flight and any edits of the URL, what is stored
\* comes from the URL the row has at that moment.
THEOREM AnswersFromCurrentUrl == Spec => StoredFromCurrentUrl
<1>1. Spec => []Shape BY InitShape, NextShape, PTL DEF Spec
<1>2. Shape /\ [Next]_vars => [\A s \in Subs : AnswerWrite(s)]_vars BY AnswerWriteStep
<1> QED BY <1>1, <1>2, PTL DEF Spec, StoredFromCurrentUrl

\* The scheduler's task runs an item of the current round.
SchedulerTask ==
    task[Scheduler].pc # "idle" =>
        /\ round.pc = "items"
        /\ task[Scheduler].now = round.now
        /\ task[Scheduler].expected \in Nat

LEMMA NextSchedulerTask ==
    Shape /\ SchedulerTask /\ [Next]_vars => SchedulerTask'
<1> SUFFICES ASSUME Shape, SchedulerTask, [Next]_vars PROVE SchedulerTask' OBVIOUS
<1> USE DEF Shape, Tasks
<1>0. Scheduler \in Tasks /\ task[Scheduler] \in TaskState BY DEF TaskShape
<1>1. CASE task'[Scheduler] = task[Scheduler] /\ round' = round
  BY <1>1 DEF SchedulerTask
<1>2. CASE task'[Scheduler].pc = "idle" BY <1>2 DEF SchedulerTask
<1>3. CASE BeginRound \/ SelectDue \/ SelectError \/ EndRound
  BY <1>3 DEF BeginRound, SelectDue, SelectError, EndRound, SchedulerTask
<1>4. ASSUME NEW i \in round.due, NextItem(i) PROVE SchedulerTask'
  <2>1. i \in Item BY DEF RoundShape, RoundState
  <2>2. round'.pc = "items" /\ round'.now = round.now
    BY <1>4 DEF NextItem, RoundShape, RoundState
  <2>3. task'[Scheduler].now = round.now /\ task'[Scheduler].expected = i.next
    BY <1>0, <1>4 DEF NextItem, TaskShape, IdleTask
  <2> QED BY <2>1, <2>2, <2>3 DEF SchedulerTask, Item
<1>5. ASSUME NEW i \in round.due, ItemError(i) PROVE SchedulerTask'
  BY <1>5 DEF ItemError, SchedulerTask
<1>6. ASSUME NEW t \in Tasks, SyncStep(t) PROVE SchedulerTask'
  <2>1. round' = round
    BY <1>6 DEF SyncStep, Snapshot, FetchOk, FetchFail, AbandonWrite, StaleWrite, Upsert,
                RecordFailure, DatabaseError, RecordError
  <2>2. CASE t # Scheduler
    <3>1. task'[Scheduler] = task[Scheduler]
      BY <1>6, <2>2 DEF SyncStep, Snapshot, FetchOk, FetchFail, AbandonWrite, StaleWrite,
                        Upsert, RecordFailure, DatabaseError, RecordError, Finish, TaskShape
    <3> QED BY <1>1, <2>1, <3>1
  <2>3. CASE t = Scheduler
    <3>1. task[t].pc # "idle"
      BY <1>6 DEF SyncStep, Snapshot, FetchOk, FetchFail, AbandonWrite, StaleWrite, Upsert,
                  RecordFailure, DatabaseError, RecordError
    <3>2. \/ task'[t].pc = "idle"
          \/ /\ task'[t].now = task[t].now
             /\ task'[t].expected = task[t].expected
      BY <1>0, <1>6, <2>3
      DEF SyncStep, Snapshot, FetchOk, FetchFail, AbandonWrite, StaleWrite, Upsert,
          RecordFailure, DatabaseError, RecordError, Finish, TaskShape, TaskState, IdleTask
    <3> QED BY <2>1, <2>3, <3>1, <3>2 DEF SchedulerTask
  <2> QED BY <2>2, <2>3
<1>7. ASSUME NEW t \in ManualTasks, (\E s \in Subs : StartManual(t, s)) \/ Cancel(t)
      PROVE  SchedulerTask'
  <2>1. t # Scheduler BY TaskAssumption
  <2>2. task'[Scheduler] = task[Scheduler] /\ round' = round
    BY <1>7, <2>1 DEF StartManual, Cancel, Finish, TaskShape
  <2> QED BY <1>1, <2>2
<1>8. CASE Restart BY <1>8 DEF Restart, SchedulerTask, IdleTask
<1> QED
  BY <1>1, <1>3, <1>4, <1>5, <1>6, <1>7, <1>8
  DEF Next, SchedulerStep, Create, Delete, Load, Store, EditNode, Tick, vars

LEMMA ScheduledWriteStep ==
    ASSUME Shape, SchedulerTask, [Next]_vars, NEW s \in Subs PROVE ScheduledWrite(s)
<1> USE DEF Shape
<1>1. CASE sub'[s] = sub[s] \/ task'[Scheduler] = task[Scheduler]
  BY <1>1 DEF ScheduledWrite
<1>2. ASSUME NEW t \in Tasks, t = Scheduler, Upsert(t) \/ (RecordFailure(t) /\ MayRecord(t)),
             sub'[s] # sub[s]
      PROVE  ScheduledWrite(s)
  <2>1. /\ task[t].pc # "idle"
        /\ sub[task[t].sub].exists /\ GuardOk(t, sub[task[t].sub])
    BY <1>2 DEF Upsert, RecordFailure, MayRecord
  <2>2. task[t].expected \in Nat /\ task[t].now = round.now
    BY <1>2, <2>1 DEF SchedulerTask
  <2>3. ScheduledGuardOk(sub[task[t].sub], task[t].expected, task[t].now)
    BY <2>1, <2>2, MarkAssumption DEF GuardOk
  <2>4. s = task[t].sub
    BY <1>2 DEF Upsert, RecordFailure, SubShape
  <2> QED BY <1>2, <2>1, <2>2, <2>3, <2>4 DEF ScheduledWrite, ScheduledGuardOk
<1>3. ASSUME NEW t \in Tasks, t # Scheduler, Upsert(t) \/ RecordFailure(t)
      PROVE  task'[Scheduler] = task[Scheduler]
  BY <1>3 DEF Upsert, RecordFailure, Finish, TaskShape, Tasks
<1> QED
  BY <1>1, <1>2, <1>3, QuietSteps DEF Create, Delete, Store, EditNode, Restart

\* No scheduled run, in whatever order edits and manual syncs overtake it,
\* writes to a subscription that is no longer the one its round selected.
THEOREM ScheduledWritesGuarded == Spec => ScheduledWritesOnlyIfStillDue
<1>1. Init => SchedulerTask BY DEF Init, SchedulerTask, Tasks, IdleTask
<1>2. Spec => [](Shape /\ SchedulerTask)
  BY <1>1, InitShape, NextShape, NextSchedulerTask, PTL DEF Spec
<1>3. Shape /\ SchedulerTask /\ [Next]_vars => [\A s \in Subs : ScheduledWrite(s)]_vars
  BY ScheduledWriteStep
<1> QED BY <1>2, <1>3, PTL DEF Spec, ScheduledWritesOnlyIfStillDue

\* An answer that reaches the write phase is not empty.
AnswerNotEmpty == \A t \in Tasks : task[t].pc = "write" => task[t].keys # {}

LEMMA NextAnswerNotEmpty == Shape /\ AnswerNotEmpty /\ [Next]_vars => AnswerNotEmpty'
<1> SUFFICES ASSUME Shape, AnswerNotEmpty, [Next]_vars, NEW t \in Tasks,
                    task'[t].pc = "write"
             PROVE  task'[t].keys # {}
  BY DEF AnswerNotEmpty
<1> USE DEF Shape
<1>0. task[t] \in TaskState BY DEF TaskShape
<1>1. CASE task'[t] = task[t] BY <1>1 DEF AnswerNotEmpty
<1>2. CASE task' = task BY <1>1, <1>2
<1>3. ASSUME NEW u \in Tasks, SyncStep(u) PROVE task'[t].keys # {}
  <2>1. CASE FetchOk(u)
    <3>1. PICK ks \in (SUBSET Keys) \ {{}} :
             task' = [task EXCEPT ![u].pc = "write", ![u].keys = ks]
      BY <2>1 DEF FetchOk
    <3>2. ks # {} OBVIOUS
    <3>3. CASE t = u
      <4>1. task'[t].keys = ks BY <1>0, <3>1, <3>3 DEF TaskShape, TaskState
      <4> QED BY <3>2, <4>1
    <3>4. CASE t # u
      <4>1. task'[t] = task[t] BY <3>1, <3>4 DEF TaskShape
      <4> QED BY <1>1, <4>1
    <3> QED BY <3>3, <3>4
  <2>2. CASE ~FetchOk(u)
    <3>1. task'[u].pc # "write"
      BY <1>3, <2>2 DEF SyncStep, Snapshot, FetchFail, AbandonWrite, StaleWrite, Upsert,
         RecordFailure, DatabaseError, RecordError, Finish, TaskShape, TaskState, IdleTask
    <3>2. t # u => task'[t] = task[t]
      BY <1>3, <2>2 DEF SyncStep, Snapshot, FetchFail, AbandonWrite, StaleWrite, Upsert,
         RecordFailure, DatabaseError, RecordError, Finish, TaskShape
    <3> QED BY <1>1, <3>1, <3>2
  <2> QED BY <2>1, <2>2
<1>4. ASSUME NEW u \in Tasks, NEW tk, tk.pc # "write", task' = [task EXCEPT ![u] = tk]
      PROVE  task'[t].keys # {}
  BY <1>1, <1>4 DEF TaskShape
<1>5. ASSUME NEW u \in ManualTasks, (\E s \in Subs : StartManual(u, s)) \/ Cancel(u)
      PROVE  task'[t].keys # {}
  BY <1>4, <1>5 DEF StartManual, Cancel, Finish, IdleTask, Tasks
<1>6. ASSUME NEW i \in round.due, NextItem(i) PROVE task'[t].keys # {}
  <2> DEFINE tk == [IdleTask EXCEPT !.pc = "snapshot", !.sub = i.sub, !.now = round.now,
                                    !.expected = i.next]
  <2>1. tk.pc # "write" BY DEF IdleTask
  <2>2. task' = [task EXCEPT ![Scheduler] = tk] BY <1>6 DEF NextItem
  <2> HIDE DEF tk
  <2> QED BY <1>4, <2>1, <2>2 DEF Tasks
<1>7. CASE Restart BY <1>7 DEF Restart, IdleTask
<1> QED
  BY <1>2, <1>3, <1>5, <1>6, <1>7
  DEF Next, SchedulerStep, BeginRound, SelectDue, SelectError, EndRound, ItemError,
      Create, Delete, Load, Store, EditNode, Tick, vars, Tasks

LEMMA AccountWriteStep ==
    ASSUME Shape, NodesAccounted, AnswerNotEmpty, [Next]_vars, NEW s \in Subs
    PROVE  AccountWrite(s)
<1> USE DEF Shape
<1>1. CASE /\ Stored(nodes'[s]) = Stored(nodes[s])
           /\ sub'[s].success = sub[s].success
           /\ sub'[s].count = sub[s].count
  BY <1>1 DEF AccountWrite
<1>2. ASSUME NEW t \in Tasks, Upsert(t) PROVE AccountWrite(s)
  <2> DEFINE r == task[t].sub
             new == SucceededRow(sub[r], task[t].now, task[t].keys)
             ns == UpsertedNodes(nodes[r], task[t].url, task[t].keys)
  <2>1. r \in Subs /\ task[t].keys \in SUBSET Keys /\ task[t].keys # {}
    BY <1>2 DEF Upsert, TaskShape, TaskFilled, TaskState, AnswerNotEmpty
  <2>2. sub[r] \in SubRow /\ sub[r].url \in Urls
    BY <1>2, <2>1 DEF Upsert, SubShape, RowFilled
  <2>3. Stored(ns) = task[t].keys
    BY <1>2, <2>1, <2>2, StoredUpserted DEF Upsert, SnapshotFresh, NodesShape
  <2>4. new.error = NULL /\ new.success = new.attempt
    BY <2>2 DEF SucceededRow, SubRow
  <2>5. sub' = [sub EXCEPT ![r] = new] /\ nodes' = [nodes EXCEPT ![r] = ns]
    BY <1>2 DEF Upsert
  <2>6. CASE s = r BY <2>1, <2>3, <2>4, <2>5, <2>6 DEF AccountWrite, SubShape, NodesShape
  <2>7. CASE s # r BY <1>1, <2>1, <2>5, <2>7 DEF SubShape, NodesShape
  <2> QED BY <2>6, <2>7
<1>3. ASSUME NEW t \in Tasks, RecordFailure(t), MayRecord(t) PROVE AccountWrite(s)
  <2>1. sub[task[t].sub] \in SubRow /\ task[t].sub \in Subs
    BY <1>3 DEF RecordFailure, TaskShape, TaskFilled, SubShape
  <2>2. sub'[s].success = sub[s].success /\ sub'[s].count = sub[s].count
    BY <1>3, <2>1 DEF RecordFailure, FailedRow, SubShape, SubRow
  <2> QED BY <1>1, <1>3, <2>2 DEF RecordFailure
<1>4. ASSUME NEW a \in Admins, NEW r \in Subs, Create(a, r) PROVE AccountWrite(s)
  <2>1. r \in Nat /\ ~(r < r) BY SubsAssumption
  <2>2. ~sub[r].exists BY <1>4, <2>1 DEF Create, FreshId
  <2>3. nodes' = nodes /\ (s # r => sub'[s] = sub[s]) BY <1>4 DEF Create, SubShape
  <2> QED BY <2>2, <2>3 DEF AccountWrite
<1>5. ASSUME NEW a \in Admins, NEW r \in Subs, Delete(a, r) PROVE AccountWrite(s)
  BY <1>5 DEF Delete, AccountWrite, SubShape, NodesShape, NoSub
<1>6. ASSUME NEW a \in Admins, Store(a) PROVE AccountWrite(s)
  <2>1. sub[admin[a].sub] \in SubRow BY <1>6 DEF Store, AdminShape, SubShape
  <2>2. sub'[s].success = sub[s].success /\ sub'[s].count = sub[s].count
    BY <1>6, <2>1 DEF Store, UpdatedRow, SubShape, SubRow
  <2> QED BY <1>1, <1>6, <2>2 DEF Store
<1>7. ASSUME NEW r \in Subs, NEW k \in Keys, EditNode(r, k) PROVE AccountWrite(s)
  <2>1. nodes[r][k] \in NodeRow BY <1>7 DEF EditNode, NodesShape
  <2>2. nodes'[r][k] \in NodeRow BY <1>7, <2>1 DEF EditNode, NodesShape, NodeRow
  <2>3. nodes'[r][k] # NULL /\ nodes[r][k] # NULL BY <2>1, <2>2, NodeAssumption
  <2>4. \A j \in Keys : s # r \/ j # k => nodes'[s][j] = nodes[s][j]
    BY <1>7 DEF EditNode, NodesShape
  <2>5. Stored(nodes'[s]) = Stored(nodes[s]) BY <2>3, <2>4 DEF Stored
  <2> QED BY <1>1, <1>7, <2>5 DEF EditNode
<1>8. CASE Restart BY <1>8 DEF Restart, AccountWrite
<1> QED BY <1>1, <1>2, <1>3, <1>4, <1>5, <1>6, <1>7, <1>8, QuietSteps

\* A failed, stale, skipped or cancelled sync never changes the usable nodes
\* of a living subscription nor what its row says of them.
THEOREM LastUsableNodesKept == Spec => OnlySuccessTouchesNodes
<1>1. Init => AnswerNotEmpty BY DEF Init, AnswerNotEmpty, IdleTask
<1>2. Spec => [](Shape /\ AnswerNotEmpty)
  BY <1>1, InitShape, NextShape, NextAnswerNotEmpty, PTL DEF Spec
<1>3. Spec => []NodesAccounted BY NodesStayAccounted
<1>4. Shape /\ AnswerNotEmpty /\ NodesAccounted /\ [Next]_vars
      => [\A s \in Subs : AccountWrite(s)]_vars
  BY AccountWriteStep
<1> QED BY <1>2, <1>3, <1>4, PTL DEF Spec, OnlySuccessTouchesNodes

LEMMA ManualKeptStep ==
    ASSUME Shape, [Next]_vars, NEW s \in Subs, NEW k \in Keys PROVE ManualKept(s, k)
<1> USE DEF Shape
<1>1. CASE nodes' = nodes BY <1>1 DEF ManualKept
<1>2. ASSUME NEW t \in Tasks, Upsert(t) PROVE ManualKept(s, k)
  <2> DEFINE r == task[t].sub
  <2>1. r \in Subs BY <1>2 DEF Upsert, TaskShape, TaskFilled
  <2>2. nodes' = [nodes EXCEPT ![r] = UpsertedNodes(@, task[t].url, task[t].keys)]
    BY <1>2 DEF Upsert
  <2>3. CASE s = r
    <3>1. nodes'[s] = UpsertedNodes(nodes[s], task[t].url, task[t].keys)
      BY <2>1, <2>2, <2>3 DEF NodesShape
    <3> QED BY <3>1 DEF ManualKept, UpsertedNodes
  <2>4. CASE s # r
    <3>1. nodes'[s] = nodes[s] BY <2>1, <2>2, <2>4 DEF NodesShape
    <3> QED BY <3>1 DEF ManualKept
  <2> QED BY <2>3, <2>4
<1>3. ASSUME NEW r \in Subs, NEW j \in Keys, EditNode(r, j) PROVE ManualKept(s, k)
  BY <1>3 DEF EditNode, ManualKept
<1>4. ASSUME NEW a \in Admins, NEW r \in Subs, Delete(a, r) PROVE ManualKept(s, k)
  BY <1>4 DEF Delete, ManualKept
<1>5. CASE Restart BY <1>5 DEF Restart, ManualKept, NodesShape, NoNodes
<1> QED BY <1>1, <1>2, <1>3, <1>4, <1>5, QuietSteps DEF RecordFailure, Create, Store

\* No sync, however many run and whatever fails, changes what a user set by hand
\* on a node that stays.
THEOREM ManualStateSurvives == Spec => ManualStatePreserved
<1>1. Spec => []Shape BY InitShape, NextShape, PTL DEF Spec
<1>2. Shape /\ [Next]_vars => [\A s \in Subs, k \in Keys : ManualKept(s, k)]_vars
  BY ManualKeptStep
<1> QED BY <1>1, <1>2, PTL DEF Spec, ManualStatePreserved
===============================================================================
