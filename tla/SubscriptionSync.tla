--------------------------- MODULE SubscriptionSync ---------------------------
(***************************************************************************)
(* The subscription life cycle of SurgeConf: the rows of `subscriptions`   *)
(* and `proxy_nodes`, the service function sync_subscription run by the    *)
(* scheduler loop and by manual requests, and the management requests that *)
(* edit, create and delete subscriptions while a sync is in flight.        *)
(*                                                                         *)
(* SQLite serialises write transactions.  A transaction opened with BEGIN  *)
(* IMMEDIATE reads and writes under the write lock, so it is one step; a   *)
(* SELECT outside it sees committed rows only and is a step of its own;    *)
(* so is every network fetch.  An ORM commit writes only the columns whose *)
(* value differs from the one loaded: see Load and Store.                  *)
(***************************************************************************)
EXTENDS Integers, FiniteSets

CONSTANTS
    Subs,         \* possible subscription ids, an initial segment of 1, 2, ...
    Urls,         \* provider addresses
    Keys,         \* stable node identities a provider may answer with
    Intervals,    \* legal values of update_interval
    RetryCap,     \* _FAILURE_RETRY_CAP
    ManualTasks,  \* concurrent requests that run a manual sync
    Scheduler,    \* the task that runs the items of a scheduler round
    Admins,       \* concurrent requests that write subscription rows
    Edits,        \* the PUT requests they send, a subset of Request
    Found,        \* what the first start may find of a subscription
    NULL,         \* SQL NULL, Python None
    Keep,         \* "column not part of this request / this UPDATE"
    MaxTime,      \* bound: the clock stops here
    MaxFaults     \* bound: database errors and restarts

ASSUME SubsAssumption == Subs \subseteq Nat \ {0}
ASSUME TimeAssumption ==
    /\ Intervals \subseteq Nat \ {0}
    /\ RetryCap \in Nat \ {0}
    /\ MaxTime \in Nat
    /\ MaxFaults \in Nat
ASSUME TaskAssumption == Scheduler \notin ManualTasks
ASSUME KeysAssumption == IsFiniteSet(Keys)
ASSUME MarkAssumption ==
    /\ NULL \notin Nat /\ Keep \notin Nat /\ NULL # Keep
    /\ Keep \notin BOOLEAN \cup Urls

VARIABLES
    clock,   \* _utc_naive()
    sub,     \* sub[s]: the row with id s (exists = FALSE: no such row)
    nodes,   \* nodes[s][k]: the proxy_nodes row (s, k), NULL when absent
    task,    \* task[t]: the locals of one run of sync_subscription
    round,   \* the locals of run_due_once in the scheduler loop
    admin,   \* admin[a]: a loaded row with its pending UPDATE
    faults   \* how many database errors and restarts happened

vars == <<clock, sub, nodes, task, round, admin, faults>>

-------------------------------------------------------------------------------
(* Rows *)

Tasks == ManualTasks \cup {Scheduler}
MaybeTime == Nat \cup {NULL}

\* last_error_code: every failure of fetch or parsing is "fetch", the rest
\* of the allowlist that the write path can produce is "internal_error".
ErrorCodes == {"fetch", "internal_error"}

SubRow == [exists: BOOLEAN, url: Urls \cup {NULL}, enabled: BOOLEAN,
           auto: BOOLEAN, interval: Intervals \cup {NULL}, next: MaybeTime,
           attempt: MaybeTime, success: MaybeTime,
           error: ErrorCodes \cup {NULL}, count: MaybeTime]

NoSub == [exists |-> FALSE, url |-> NULL, enabled |-> FALSE, auto |-> FALSE,
          interval |-> NULL, next |-> NULL, attempt |-> NULL,
          success |-> NULL, error |-> NULL, count |-> NULL]

\* src stands for the provider fields (which answer wrote them), manual for
\* region_manual, enabled and pinned_services.
NodeRow == [src: Urls, manual: BOOLEAN]
ASSUME NodeAssumption == NULL \notin NodeRow
NoNodes == [k \in Keys |-> NULL]
Stored(ns) == {k \in Keys : ns[k] # NULL}

Active(row) == row.enabled /\ row.auto

\* What 0006 leaves of a subscription: the last update becomes attempt and
\* success, the nodes are counted, also of one that has none and never had a
\* success; an active one is due an interval after that, or since it was made.
None == [row |-> NoSub, nodes |-> NoNodes]
AsUpgraded(old) ==
    /\ old.row \in SubRow /\ old.nodes \in [Keys -> NodeRow \cup {NULL}]
    /\ old.row.exists /\ NULL \notin {old.row.url, old.row.interval}
    /\ old.row.attempt = old.row.success /\ old.row.error = NULL
    /\ old.row.count = Cardinality(Stored(old.nodes))
    /\ old.row.next # NULL <=> Active(old.row)
ASSUME FoundAssumption ==
    /\ None \in Found
    /\ \A old \in Found : old = None \/ AsUpgraded(old)

Min2(a, b) == IF a < b THEN a ELSE b

-------------------------------------------------------------------------------
(* sync_subscription: one run per task *)
(* The operators named Bug_... are the mutants of the definition after them. *)

TaskPcs == {"idle", "snapshot", "fetch", "write", "record"}
TaskState == [pc: TaskPcs, sub: Subs \cup {NULL}, now: MaybeTime,
              expected: MaybeTime, url: Urls \cup {NULL}, keys: SUBSET Keys,
              code: ErrorCodes \cup {NULL}]
IdleTask == [pc |-> "idle", sub |-> NULL, now |-> NULL, expected |-> NULL,
             url |-> NULL, keys |-> {}, code |-> NULL]

\* enabled, auto_update, next unchanged since it was selected, and still due.
ScheduledGuardOk(row, expected, now) ==
    /\ Active(row)
    /\ row.next # NULL
    /\ row.next = expected
    /\ row.next <= now

\* A manual run carries no expected time and no guard.
GuardOk(t, row) ==
    task[t].expected = NULL \/ ScheduledGuardOk(row, task[t].expected, task[t].now)

\* The URL re-check of phase 3.
Bug_NoUrlCheck(t, row) == TRUE
SnapshotFresh(t, row) == row.url = task[t].url

Finish(t) == task' = [task EXCEPT ![t] = IdleTask]

Fault == faults < MaxFaults /\ faults' = faults + 1

\* POST /{id}/sync, or one item of POST /sync-all: now is read before the row.
StartManual(t, s) ==
    /\ t \in ManualTasks /\ task[t].pc = "idle"
    /\ task' = [task EXCEPT ![t] = [IdleTask EXCEPT
                    !.pc = "snapshot", !.sub = s, !.now = clock]]
    /\ UNCHANGED <<clock, sub, nodes, round, admin, faults>>

\* Phase 1: a short read; a missing row or a failed guard ends the run.
Snapshot(t) ==
    LET row == sub[task[t].sub] IN
    /\ task[t].pc = "snapshot"
    /\ \/ /\ row.exists /\ GuardOk(t, row)
          /\ task' = [task EXCEPT ![t].pc = "fetch", ![t].url = row.url]
       \/ /\ ~(row.exists /\ GuardOk(t, row))
          /\ Finish(t)
    /\ UNCHANGED <<clock, sub, nodes, round, admin, faults>>

\* Phase 2: the provider answers with at least one node ...
FetchOk(t) ==
    /\ task[t].pc = "fetch"
    /\ \E ks \in (SUBSET Keys) \ {{}} :
          task' = [task EXCEPT ![t].pc = "write", ![t].keys = ks]
    /\ UNCHANGED <<clock, sub, nodes, round, admin, faults>>

\* ... or not: timeout, HTTP status, network, unparsable or empty answer.
FetchFail(t) ==
    /\ task[t].pc = "fetch"
    /\ task' = [task EXCEPT ![t].pc = "record", ![t].code = "fetch"]
    /\ UNCHANGED <<clock, sub, nodes, round, admin, faults>>

\* Phase 3, BEGIN IMMEDIATE: the row is gone or was rescheduled meanwhile.
AbandonWrite(t) ==
    LET row == sub[task[t].sub] IN
    /\ task[t].pc = "write"
    /\ ~row.exists \/ ~GuardOk(t, row)
    /\ Finish(t)
    /\ UNCHANGED <<clock, sub, nodes, round, admin, faults>>

\* Phase 3: the URL changed under the fetch (_StaleSnapshotError).
StaleWrite(t) ==
    LET row == sub[task[t].sub] IN
    /\ task[t].pc = "write"
    /\ row.exists /\ GuardOk(t, row)
    /\ ~SnapshotFresh(t, row)
    /\ task' = [task EXCEPT ![t].pc = "record", ![t].code = "internal_error"]
    /\ UNCHANGED <<clock, sub, nodes, round, admin, faults>>

Bug_Reinserts(old, url, ks) ==
    [k \in Keys |->
        IF k \notin ks THEN NULL ELSE [src |-> url, manual |-> FALSE]]

\* Matched keys keep their manual state, new keys start without any, keys
\* missing from the answer are deleted.
UpsertedNodes(old, url, ks) ==
    [k \in Keys |->
        IF k \notin ks THEN NULL
        ELSE [src |-> url,
              manual |-> IF old[k] = NULL THEN FALSE ELSE old[k].manual]]

Bug_AlwaysReschedules(row, now, ks) ==
    [row EXCEPT !.attempt = now, !.success = now, !.error = NULL,
                !.count = Cardinality(ks), !.next = now + row.interval]

SucceededRow(row, now, ks) ==
    [row EXCEPT !.attempt = now, !.success = now, !.error = NULL,
                !.count = Cardinality(ks),
                !.next = IF Active(row) THEN now + row.interval ELSE NULL]

\* Phase 3: the single successful write transaction.
Upsert(t) ==
    LET s == task[t].sub
        row == sub[s]
    IN
    /\ task[t].pc = "write"
    /\ row.exists /\ GuardOk(t, row)
    /\ SnapshotFresh(t, row)
    /\ nodes' = [nodes EXCEPT ![s] = UpsertedNodes(@, task[t].url, task[t].keys)]
    /\ sub' = [sub EXCEPT ![s] = SucceededRow(@, task[t].now, task[t].keys)]
    /\ Finish(t)
    /\ UNCHANGED <<clock, round, admin, faults>>

\* A database error in phase 1 or phase 3: rolled back, then recorded.
DatabaseError(t) ==
    /\ task[t].pc \in {"snapshot", "write"}
    /\ Fault
    /\ task' = [task EXCEPT ![t].pc = "record", ![t].code = "internal_error"]
    /\ UNCHANGED <<clock, sub, nodes, round, admin>>

Bug_ForgetsCount(row, now, code) ==
    [row EXCEPT !.attempt = now, !.error = code, !.count = NULL,
                !.next = IF Active(row) THEN now + Min2(row.interval, RetryCap)
                         ELSE NULL]

FailedRow(row, now, code) ==
    [row EXCEPT !.attempt = now, !.error = code,
                !.next = IF Active(row) THEN now + Min2(row.interval, RetryCap)
                         ELSE NULL]

\* The row and the guard, read again under the write lock.
Bug_RecordsUnguarded(t) == sub[task[t].sub].exists

MayRecord(t) ==
    LET row == sub[task[t].sub] IN row.exists /\ GuardOk(t, row)

\* _record_failed_attempt, its own BEGIN IMMEDIATE.
RecordFailure(t) ==
    LET s == task[t].sub IN
    /\ task[t].pc = "record"
    /\ sub' = IF MayRecord(t)
              THEN [sub EXCEPT ![s] = FailedRow(@, task[t].now, task[t].code)]
              ELSE sub
    /\ Finish(t)
    /\ UNCHANGED <<clock, nodes, round, admin, faults>>

\* The failure record itself fails: nothing is written.
RecordError(t) ==
    /\ task[t].pc = "record"
    /\ Fault
    /\ Finish(t)
    /\ UNCHANGED <<clock, sub, nodes, round, admin>>

\* CancelledError in any phase: rolled back and propagated, nothing recorded.
Cancel(t) ==
    /\ t \in ManualTasks /\ task[t].pc # "idle"
    /\ Finish(t)
    /\ UNCHANGED <<clock, sub, nodes, round, admin, faults>>

SyncStep(t) ==
    \/ Snapshot(t) \/ FetchOk(t) \/ FetchFail(t) \/ AbandonWrite(t)
    \/ StaleWrite(t) \/ Upsert(t) \/ RecordFailure(t)
    \/ DatabaseError(t) \/ RecordError(t)

-------------------------------------------------------------------------------
(* SubscriptionScheduler._loop and run_due_once *)

Item == [sub: Subs, next: Nat]
RoundState == [pc: {"sleep", "select", "items"}, now: MaybeTime, due: SUBSET Item]
Sleeping == [pc |-> "sleep", now |-> NULL, due |-> {}]

\* The wait for `interval` seconds timed out: the round reads its clock once.
BeginRound ==
    /\ round.pc = "sleep"
    /\ round' = [round EXCEPT !.pc = "select", !.now = clock]
    /\ UNCHANGED <<clock, sub, nodes, task, admin, faults>>

Bug_StrictlyDue(now) ==
    {s \in Subs : /\ sub[s].exists /\ Active(sub[s])
                  /\ sub[s].next # NULL /\ sub[s].next < now}

DueAt(now) == {s \in Subs : /\ sub[s].exists /\ Active(sub[s])
                            /\ sub[s].next # NULL /\ sub[s].next <= now}

\* The selection query: a short session, with a snapshot of next_update_at.
SelectDue ==
    /\ round.pc = "select"
    /\ round' = [round EXCEPT !.pc = "items",
                    !.due = {[sub |-> s, next |-> sub[s].next] : s \in DueAt(round.now)}]
    /\ UNCHANGED <<clock, sub, nodes, task, admin, faults>>

\* The selection query fails: scheduler_cycle_error, wait for the next round.
SelectError ==
    /\ round.pc = "select"
    /\ Fault
    /\ round' = Sleeping
    /\ UNCHANGED <<clock, sub, nodes, task, admin>>

\* ORDER BY next_update_at, id
Earliest(i) == \A j \in round.due :
                  \/ i.next < j.next
                  \/ i.next = j.next /\ i.sub <= j.sub

NextItem(i) ==
    /\ round.pc = "items" /\ task[Scheduler].pc = "idle"
    /\ i \in round.due /\ Earliest(i)
    /\ round' = [round EXCEPT !.due = @ \ {i}]
    /\ task' = [task EXCEPT ![Scheduler] = [IdleTask EXCEPT
                    !.pc = "snapshot", !.sub = i.sub, !.now = round.now,
                    !.expected = i.next]]
    /\ UNCHANGED <<clock, sub, nodes, admin, faults>>

\* Opening the item's session fails: scheduler_item_error, go on with the rest.
ItemError(i) ==
    /\ round.pc = "items" /\ task[Scheduler].pc = "idle"
    /\ i \in round.due /\ Earliest(i)
    /\ Fault
    /\ round' = [round EXCEPT !.due = @ \ {i}]
    /\ UNCHANGED <<clock, sub, nodes, task, admin>>

EndRound ==
    /\ round.pc = "items" /\ round.due = {} /\ task[Scheduler].pc = "idle"
    /\ round' = Sleeping
    /\ UNCHANGED <<clock, sub, nodes, task, admin, faults>>

SchedulerStep ==
    \/ BeginRound \/ SelectDue \/ SelectError \/ EndRound
    \/ \E i \in round.due : NextItem(i) \/ ItemError(i)
    \/ SyncStep(Scheduler)

-------------------------------------------------------------------------------
(* The management API, /api/subscriptions and /api/nodes *)

\* A pending UPDATE: the new value of every column that changes.
AdminState == [pc: {"idle", "loaded"}, sub: Subs \cup {NULL},
               url: Urls \cup {Keep}, enabled: BOOLEAN \cup {Keep},
               auto: BOOLEAN \cup {Keep}, interval: Intervals \cup {Keep},
               next: MaybeTime \cup {Keep}]
IdleAdmin == [pc |-> "idle", sub |-> NULL, url |-> Keep, enabled |-> Keep,
              auto |-> Keep, interval |-> Keep, next |-> Keep]

Request == [url: Urls \cup {Keep}, enabled: BOOLEAN \cup {Keep},
            auto: BOOLEAN \cup {Keep}, interval: Intervals \cup {Keep}]
ASSUME EditsAssumption == Edits \subseteq Request

Put(old, new) == IF new = Keep THEN old ELSE new
Delta(old, new) == IF new = old THEN Keep ELSE new

\* SQLite hands out the largest id in use plus one: the id of the newest
\* subscription is reused once that subscription is deleted.
FreshId(s) ==
    /\ \A r \in Subs : sub[r].exists => r < s
    /\ s = 1 \/ (s - 1 \in Subs /\ sub[s - 1].exists)

Create(a, s) ==
    /\ admin[a].pc = "idle" /\ FreshId(s)
    /\ \E u \in Urls, on \in BOOLEAN, au \in BOOLEAN, iv \in Intervals :
          sub' = [sub EXCEPT ![s] = [NoSub EXCEPT
                    !.exists = TRUE, !.url = u, !.enabled = on, !.auto = au,
                    !.interval = iv, !.next = IF on /\ au THEN clock ELSE NULL]]
    /\ UNCHANGED <<clock, nodes, task, round, admin, faults>>

\* Deletes the nodes, then the row, in one transaction.
Delete(a, s) ==
    /\ admin[a].pc = "idle" /\ sub[s].exists
    /\ sub' = [sub EXCEPT ![s] = NoSub]
    /\ nodes' = [nodes EXCEPT ![s] = NoNodes]
    /\ UNCHANGED <<clock, task, round, admin, faults>>

\* next_update_at after the request's values are set on the loaded row.
RecomputedNext(row, on, au, iv) ==
    IF ~(on /\ au) THEN NULL
    ELSE IF ~Active(row) THEN clock
    ELSE IF iv # row.interval THEN clock + iv
    ELSE IF row.next = NULL THEN clock ELSE row.next

\* PUT /{id}, first half: load the row, set the request's values on it.
Load(a, s, r) ==
    LET row == sub[s]
        on == Put(row.enabled, r.enabled)
        au == Put(row.auto, r.auto)
        iv == Put(row.interval, r.interval)
    IN
    /\ admin[a].pc = "idle" /\ row.exists
    /\ admin' = [admin EXCEPT ![a] =
          [pc |-> "loaded", sub |-> s,
           url |-> Delta(row.url, Put(row.url, r.url)),
           enabled |-> Delta(row.enabled, on), auto |-> Delta(row.auto, au),
           interval |-> Delta(row.interval, iv),
           next |-> Delta(row.next, RecomputedNext(row, on, au, iv))]]
    /\ UNCHANGED <<clock, sub, nodes, task, round, faults>>


UpdatedRow(row, p) ==
    [row EXCEPT !.url = Put(row.url, p.url),
                !.enabled = Put(row.enabled, p.enabled),
                !.auto = Put(row.auto, p.auto),
                !.interval = Put(row.interval, p.interval),
                !.next = Put(row.next, p.next)]

\* PUT /{id}, second half: UPDATE of the changed columns of the row that is
\* there now (no row: the commit fails and nothing is written).
Store(a) ==
    LET s == admin[a].sub IN
    /\ admin[a].pc = "loaded"
    /\ sub' = IF sub[s].exists
              THEN [sub EXCEPT ![s] = UpdatedRow(@, admin[a])] ELSE sub
    /\ admin' = [admin EXCEPT ![a] = IdleAdmin]
    /\ UNCHANGED <<clock, nodes, task, round, faults>>

\* PUT /api/nodes/{id} and the batch requests: the manual fields of one node.
EditNode(s, k) ==
    /\ nodes[s][k] # NULL
    /\ nodes' = [nodes EXCEPT ![s][k].manual = ~@]
    /\ UNCHANGED <<clock, sub, task, round, admin, faults>>

-------------------------------------------------------------------------------
(* The process and its environment *)

\* The process dies and comes back: everything in memory is gone, the rows
\* stay, and lifespan runs cleanup_orphan_nodes before the scheduler starts.
Restart ==
    /\ Fault
    /\ task' = [t \in Tasks |-> IdleTask]
    /\ round' = Sleeping
    /\ admin' = [a \in Admins |-> IdleAdmin]
    /\ nodes' = [s \in Subs |-> IF sub[s].exists THEN nodes[s] ELSE NoNodes]
    /\ UNCHANGED <<clock, sub>>

Tick ==
    /\ clock < MaxTime
    /\ clock' = clock + 1
    /\ UNCHANGED <<sub, nodes, task, round, admin, faults>>

\* The database is empty or comes from the release before.
Init ==
    /\ clock = 0
    /\ \E old \in [Subs -> Found] :
          /\ sub = [s \in Subs |-> old[s].row]
          /\ nodes = [s \in Subs |-> old[s].nodes]
    /\ task = [t \in Tasks |-> IdleTask]
    /\ round = Sleeping
    /\ admin = [a \in Admins |-> IdleAdmin]
    /\ faults = 0

Next ==
    \/ SchedulerStep
    \/ \E t \in ManualTasks :
          \/ \E s \in Subs : StartManual(t, s)
          \/ SyncStep(t)
          \/ Cancel(t)
    \/ \E a \in Admins :
          \/ \E s \in Subs : \/ Create(a, s)
                             \/ Delete(a, s)
                             \/ \E r \in Edits : Load(a, s, r)
          \/ Store(a)
    \/ \E s \in Subs, k \in Keys : EditNode(s, k)
    \/ Restart
    \/ Tick

\* The loop is one asyncio task that never stops while the process runs, and its
\* steps are fair.  That a fetch ends is assumed: the HTTP client has a timeout
\* for a connection and for each read, none for the whole.
Spec == Init /\ [][Next]_vars /\ WF_vars(SchedulerStep)

-------------------------------------------------------------------------------
(* Properties *)

\* Every variable stays within its declared shape.
TypeOK ==
    /\ clock \in Nat
    /\ sub \in [Subs -> SubRow]
    /\ nodes \in [Subs -> [Keys -> NodeRow \cup {NULL}]]
    /\ task \in [Tasks -> TaskState]
    /\ round \in RoundState
    /\ admin \in [Admins -> AdminState]
    /\ faults \in Nat

\* The nodes of a subscription and the counters on its row never disagree,
\* whatever syncs, failed writes, failed records, deletions, id reuses and
\* restarts interleave, from an empty database or an upgraded one: no node
\* without its subscription, node_count is the number of nodes stored, while it
\* is unknown there are none, and it is known once a sync has succeeded.  (An
\* upgrade counts the nodes also of a row that never had a success.)
NodesAccounted ==
    \A s \in Subs :
        /\ ~sub[s].exists => Stored(nodes[s]) = {}
        /\ sub[s].success # NULL => sub[s].count # NULL
        /\ sub[s].count = NULL => Stored(nodes[s]) = {}
        /\ sub[s].count # NULL => sub[s].count = Cardinality(Stored(nodes[s]))

\* A subscription has a next time exactly when it is enabled with automatic
\* update, through manual and scheduled syncs, failures and edits.  (It needs
\* that management requests come one at a time: see SerialAdmin.)
ScheduleConsistent ==
    \A s \in Subs : sub[s].exists => (sub[s].next # NULL <=> Active(sub[s]))

\* No two management requests are ever in flight together.
SerialAdmin == \A a, b \in Admins : a = b

\* "never silently never scheduled" (routers/subscriptions.py:221): a
\* subscription that is enabled with automatic update has a next time.
EnabledIsScheduled ==
    \A s \in Subs : sub[s].exists /\ Active(sub[s]) => sub[s].next # NULL

\* Whatever a scheduled run writes, success or failure, it writes to a row
\* that is still enabled with automatic update and due, at the very time the
\* round selected: an edit or a manual sync made meanwhile is never overwritten.
ScheduledWrite(s) ==
    sub'[s] # sub[s] /\ task'[Scheduler] # task[Scheduler] =>
        /\ sub[s].exists /\ Active(sub[s])
        /\ sub[s].next = task[Scheduler].expected
        /\ sub[s].next <= round.now
ScheduledWritesOnlyIfStillDue == [][\A s \in Subs : ScheduledWrite(s)]_vars

\* The answer of a provider is only ever stored for a subscription that still
\* points at that provider: an old URL's answer never replaces or mixes with
\* the nodes of the new one.
AnswerWrite(s) ==
    (\E k \in Keys : /\ nodes'[s][k] # NULL
                     /\ nodes[s][k] = NULL \/ nodes[s][k].src # nodes'[s][k].src)
    => \A k \in Keys : nodes'[s][k] # NULL => nodes'[s][k].src = sub[s].url
StoredFromCurrentUrl == [][\A s \in Subs : AnswerWrite(s)]_vars

\* While a subscription lives, its nodes, last_success_at and last_node_count
\* change only by a success: a failed, stale or skipped sync keeps the last
\* usable nodes and their account.
AccountWrite(s) ==
    /\ sub[s].exists /\ sub'[s].exists
    /\ \/ Stored(nodes[s]) # Stored(nodes'[s])
       \/ sub[s].success # sub'[s].success
       \/ sub[s].count # sub'[s].count
    => /\ sub'[s].error = NULL
       /\ sub'[s].success = sub'[s].attempt
       /\ Stored(nodes'[s]) # {}
OnlySuccessTouchesNodes == [][\A s \in Subs : AccountWrite(s)]_vars

\* A sync never loses what a user set by hand on a node that the provider
\* still lists (only an edit changes the manual fields of a surviving node).
ManualKept(s, k) ==
    task' # task /\ nodes[s][k] # NULL /\ nodes'[s][k] # NULL
    => nodes'[s][k].manual = nodes[s][k].manual
ManualStatePreserved == [][\A s \in Subs, k \in Keys : ManualKept(s, k)]_vars

\* A due subscription does not stay due at the same time for ever: the loop
\* reaches it, whatever fails for it or for the others, unless it is edited.
DueIsServed ==
    \A s \in Subs : \A n \in 0..MaxTime :
        (sub[s].exists /\ Active(sub[s]) /\ sub[s].next = n /\ n <= clock)
        ~> (sub[s].next # n)

===============================================================================
