# SurgeConf: TLA+ models and proofs

SurgeConf is a single-user FastAPI service over one SQLite file.  It keeps proxy
subscriptions and their nodes, synchronises them by hand and on a schedule,
renders Surge configurations from them, can back up, restore and reset its
database, and installs itself as a launchd job.  These modules model the parts in
which several things happen at once, a step can fail halfway, or rows written by
one part must make sense to another, check them with TLC on small instances, and
prove the main invariants for every size with TLAPS.

    tlc -workers 2 -config SyncRaces.cfg MCSubscriptionSync   # one of the runs
    tlapm SubscriptionSyncProofs.tla                          # one of the proofs

## 1. Inventory

| Part (source) | State | Operations | Works with |
|---|---|---|---|
| Subscription synchronisation (`services/subscription.py`) | rows of `subscriptions`, `proxy_nodes` | snapshot, fetch, write or record a failure; sync all; remove orphans | scheduler, requests, barrier (every transaction is a session) |
| Requests on subscriptions and nodes (`routers/subscriptions.py`, `nodes.py`) | the same rows | create, update, delete, pin, set region | synchronisation |
| Automatic update (`services/subscription_scheduler.py`) | leader lock, loop task, wake event | start, round, item, stop | lifespan, synchronisation, other processes (flock) |
| Lifespan (`bootstrap.py`) | ready flag, engine, event log | start, fail, shut down | migration, scheduler |
| Database runtime (`database.py`) | engine, gate, session count | session, maintenance, bind, dispose | every handler; restore and reset |
| Publication chain (`services/database_migration.py`) | live file, write-ahead log, staging file | prepare at start, rebuild from a source, checkpoint, replace | lifespan, restore, reset |
| Backups (`services/backups.py`) | backup directory | back up, prune, restore, reset, recover | barrier, publication chain, worker threads |
| Installation (`launchd_lib.sh`, `surgeconf.sh`) | control file, plist, their candidates and backups, the loaded job | prepare, switch, wait, commit, roll back | launchd, signals, the started service |
| Schema 0006 (`migrations/versions/0006_subscription_lifecycle.py`) | node and subscription rows | merge duplicates, bound intervals, schedule | publication chain |
| Seeds (`bootstrap.py`, `default_config.py`) | none | fill an empty database | between schema and data migrations |
| Data migrations (`services/data_migrations.py`) | ledger of applied keys | apply what is pending, in order | publication chain, the rows of every page |
| Groups (`routers/groups.py`) | regions and services, named by rules, sources and nodes | create, rename, switch, delete | generation |
| Profiles, tokens, rules, UDP exceptions (`routers/configs.py`, `udp.py`) | rows | create, edit, reorder, set default, rotate | each other, the generator |
| Generation (`services/generator.py`, `config_validation.py`, `profile_resolution.py`) | none | rows to text, or a list of errors | profiles, rules, nodes |
| Node identity (`services/node_identity.py`) | none | node to stable key | synchronisation |
| Access (`security.py`, `routers/auth.py`) | settings rows, key file, failed logins, sessions in browsers | decide on a request, log in and out, change the settings | every request opens a session for it first |
| Event log (`logging_config.py`) | rotated files | append, rotate under a file lock | all, other processes |
| Runtime paths (`runtime_paths.py`) | directories, modes | create, check, harden | all |
| Pages, texts, browser scripts | none on the server | render | API |

What is hard in it:

* **Interleaving.**  One event loop, but a handler gives it up at every `await`:
  between the read of a URL and the write of its answer anything may happen to the
  row.  Backups run in threads.  A second process may be started on the directory.
* **Replacing a live SQLite file** under open connections, with a write-ahead log
  beside it, and failing at each step of it.
* **Cancellation and shutdown** while something waits for a gate, a lock or a task.
* **Rows that name rows.**  Rules, groups and nodes refer to each other by name, in
  two languages, with no foreign key: a rename, a switch or a migration elsewhere
  decides whether a configuration can be generated at all.
* **Crashes** between two renames, and signals between a rename and the variable of
  the script that remembers it.

What makes each part correct: nodes and counters of a subscription agree and come
from its current URL; what a user set by hand survives; what is due is served; a
maintenance is alone and atomic; an acknowledged commit is in the live file; the
live file is at a version boundary; the backup a recovery needs exists; there is
one update loop, inside the life of its resources; a switch is a switch or
nothing; a configuration that is served fits its target, refers only to what it
defines, and its rules are ordered; an upgrade takes nothing away that the user
set; management in the network has a password.  `PROJECT.json` lists the hazards,
each at its line, with the property that covers it or the reason why none does.

## 2. Modules

| Module | Models |
|---|---|
| `SubscriptionSync` | synchronisation, automatic rounds and the requests beside them, over the rows |
| `MaintenanceBarrier` | sessions, gate, drain, and restore and reset behind it |
| `AtomicStore` | what the barrier promises: a store replaced in one step while nobody reads |
| `PublishChain` | the files: main, log, staging, backups, the file an engine has open |
| `BackupRetention` | the backup directory under several threads and restores |
| `ServiceLifecycle` | lifespans and scheduler leaders of several processes |
| `LaunchdSwitch` | one installation, with launchd, signals and the user |
| `ConfigStore` | profiles, UDP exceptions, rule sources, the requests on them, generation |
| `AccessControl` | access settings, sessions, the decision on a request, logins and their throttle |
| `GeneratedConfig` | groups, rules, references and validations of one generation, as functions of the rows |
| `DataMigrations` | 0006, seeds and data migrations of one start, the edits of the pages, the reads of a generation |
| `*Proofs` | the theorems about the module of that name; `LaunchdSwitchProofs` extends also `ServiceLifecycle`, whose names therefore begin with `Life` where both have one |
| `MC*` | the sets and symmetries of the instances |

Restore and reset appear in three modules, each with the state its questions are
about and the same control flow (safety backup, dispose, rebuild, bind, recover):
in `MaintenanceBarrier` the sessions, with the file reduced to a generation and a
content; in `PublishChain` the file, with the sessions reduced to one handle; in
`BackupRetention` the backups, with the file reduced to a rebuild that works or
not.  `PublishChain` has an upgrade as a number of steps and `DataMigrations` has
them as functions on rows, with the files reduced to the live database and the
staging one.  `ServiceLifecycle` has the start-up migration as one step
(`PrepareDatabase`), and the loop of `SubscriptionSync` as one that selects and runs items.

### SubscriptionSync

`sub[s]` is a row, `nodes[s][k]` the node with stable key `k` (`src` is the URL it
was last stored from, `manual` stands for region and pin), `task[t]` a running
`sync_subscription`, `round` the scheduler's round, `admin[a]` a PUT in flight.
`Found` is what a start may find of each subscription: nothing, or a row and nodes
as 0006 leaves them (`AsUpgraded`).  0006 counts the nodes of every row, so such a
row has a number of nodes, 0 included, before it has had a success.

| Action | Code |
|---|---|
| `StartManual`, `Snapshot`, `FetchOk`, `FetchFail` | phases 1 and 2 of `sync_subscription` |
| `Upsert`, `AbandonWrite`, `StaleWrite`, `DatabaseError` | phase 3, a write transaction taken with BEGIN IMMEDIATE, hence one step |
| `RecordFailure`, `RecordError`, `Cancel` | `_record_failed_attempt`, cancellation |
| `BeginRound`, `SelectDue`, `SelectError`, `EndRound`, items | `_loop`, `run_due_once` |
| `Load`, `Store` | `update_subscription`: the row is read without a write lock, the commit writes the columns that differ from what was read |
| `Create`, `Delete`, `EditNode`, `Restart`, `Tick` | the other requests, a restart with its orphan cleanup, the clock |

Ids of deleted rows are used again (`FreshId`), as SQLite does.  A PUT either keeps
a field or gives it a value; an explicit null is not enumerated.  `EditNode` is one
step: it writes only manual columns of one node by its id.  A fetch that returns no
node is a failure, as in the code.

### MaintenanceBarrier and AtomicStore

Every body under `_state_lock` has no `await`, so it is one step.  Each request is
two sessions in turn: that of the access check, then its own (or, for restore and
reset, the maintenance).  `engine` is the generation of the file it is bound to, so
a session on a replaced file is one whose `handle` is not `live.gen`.  The
refinement mapping shows the store as it was `before` while a body runs; the proof
and the run `barrier` show that sessions cannot tell the difference.

### PublishChain

`main` and `wal` are what the live file and its log hold, a content being a version
of the data and a level of upgrades; `staged` and `stagedWal` are the same of the
staging file.  A crash is possible between any two steps; a new release raises the
level that a start requires.  A reader outside the engine (`reader`) is what can
make a checkpoint busy.  The engine has the file open that had the name when it was
bound (`handle` against `inode`).  Schema revisions and data migrations are both
`Steps`.  Pruning is left to `BackupRetention`; the staging file always has a log.

### BackupRetention

A name is a millisecond and a tag.

| Action | Code |
|---|---|
| `CreateBackup`, `ChooseName` | `create_backup` hands the work to a thread, which chooses the name when it gets to run, perhaps while a restore has the event loop |
| `Publish`, `CopyFails` | `backup_database` up to `os.replace`; the directory, the copy or its check fails |
| `List`, `Unlink`, `Pruned`, `PruneFails` | `prune_backups`, file by file; an error in it after the publication |
| `Select`, `Enter` | `restore_backup` looks its name up, then enters the maintenance and backs up on the event loop, with that name protected |
| `Rebuild`, `RebuildFails`, `Bind`, `BindFails`, `Recover` | the rest of `restore_backup` and `reset_database` |

`beside` and `overdue` are history: the manual backups named since the restore in
maintenance named its safety backup, and whether a prune has failed since a
directory was listed last.  Numbers of one millisecond are compared as numbers; the
code compares names, which is the same below ten.

### ServiceLifecycle

`phase` walks `lifespan`; `fd` and `flock` are the descriptor of a process and the
holder in the kernel, which a crash releases.  `start()` of the scheduler is three
actions: `Lead` takes the lock, `CreateTask` creates the loop, and `TaskFails` gives
the lock back when that is not possible; what fails after the task is there leads to
the cleanup with a task.  Any other start-up step may fail, a stop may be cancelled
(`CancelStop`), and the cleanup goes on.

### LaunchdSwitch

`file`, `cand` and `bak` are the disk, `loaded` and `job` what launchd has, the rest
the variables of the script.  One command is one step, a rename and its flag are
two.  What a signal does depends on `pc` through the traps in force (`OnSignal`).
Process ids are not reused; making the private name of a backup is part of the
step before the rename; the user may stop the job at any time.

### ConfigStore

`profile`, `exception` and `rule` are the tables, `req[r]` the locals of a handler
between two of its statements, `out` the configuration that was served last.

| Action | Code |
|---|---|
| `Begin`, `CheckTarget`, `UpdateProfile` | `update_profile`: the row, the exceptions, the commit |
| `CreateProfile`, `DeleteProfile`, `SetDefault` | the other requests on profiles |
| `CreateException`, `LoadException`, `UpdateException`, `DeleteException` | `routers/udp.py` |
| `BeginEdit`, `LoadRule`, `CommitRules` | `update_rule` and `reorder_rules` with the validation |
| `CreateRule`, `DeleteRule` | insert and validate; delete |
| `Resolve`, `ReadRules`, `ReadExceptions` | `subscribe_config`, `generate_surge_config` |
| `Abandon` | an error of the database or a stop of the process: rolled back |

A SELECT before the first write is a snapshot of its own, hence a step; what
follows the first write has SQLite's write lock, hence is one.  `Merge` is what an
ORM commit writes: the columns that differ from what was loaded.  `SessionView` is
what a later SELECT of the same session shows: the rows the database selects, but
those that the session holds with the values it has for them.  `raced` remembers
that a commit was decided on rows that had changed since, `chosen` that some
request other than set-default wrote or deleted the default flag; both are history,
and no action reads them.

A rule source is reduced to one of the identities that the order speaks of; a match
value to a stored address, another way to write it, or a name.  Columns that nobody
else reads (names, locale, texts, tokens) are left out, and an explicit null for the
default flag is not enumerated.

### AccessControl

`setting` are the rows, `cookie[p]` the session in the browser of a peer, `req[r]`
what a login or an update has read and where it waits, `kdf` the free verification
slots, `failures[p]` and `block[p]` the throttle's tables with ages instead of times.

| Action | Code |
|---|---|
| `SendLogin`, `CheckThrottle`, `Load`, `Acquire`, `LoginWrong`, `LoginRight` | `login`: throttle, settings, the slot, the thread's answer, the record of it |
| `SendUpdate`, `Load`, `Acquire`, `UpdateVerified`, `Select`, `Commit` | `update_access`: settings, the verification, the second read and the commit of the rows that differ |
| `Visit`, `Logout`, `Expire`, `Tick` | the middleware, which may issue a session to this machine; logout; the end of a session; time |

`Decide` is `require_admin_request` and `Admits` the middleware around it.  Each
`await` is a step of its own.  `raced` remembers that a change was decided on another
password than the one stored when it was committed.  `recent` has the wrong passwords
of each age that were counted for a peer, `missed` those that nobody counts: of a new
peer that was let in while the table had room and is answered when it is full
(`security.py:508-511`).  No action reads them.  A password and its hash are the same
value.
The installation role, which nobody here reads, and the key file are left out.

### GeneratedConfig and DataMigrations

A name is a base name and the mark of the manual group of a region; `En` translates
the base name.  `Groups` is `_build_proxy_groups`, `Available` and `Resolve` are the
two sides of a reference, `InvalidReference` and `Misplaced` the two validations,
`Output` what is handed out.  Sources keep the identities and the `sort_order` the
order speaks of.

`db` is the live database, `stage` the one being upgraded, `registry` the keys of
`DATA_MIGRATIONS`, `gen` a generation between its reads.

| Action | Code |
|---|---|
| `Start`, `SyncSchema` | `prepare_database`, `upgrade_staging`: 0006 merges nodes of one connection, bounds intervals and schedules |
| `SeedDefaults` | `seed_defaults` in one transaction: the default rows beside what is there, when there is no region; a name that is taken makes the start fail |
| `ApplyKey` | one migration with its record; `Effect` is its function on the rows |
| `Publish`, `Stop`, `NewRelease` | the staging file becomes the live one; the process stops anywhere; a release with one more migration |
| `CreateRegion` .. `DeleteRule` | the edits of the pages, with the checks they make and no others |
| `CreateSource`, `DeleteSource` | one transaction: the insertion takes the write lock before the order is validated |
| `UpdateSource`, `ReorderSources`, `CommitSource` | the row is loaded (`Load`) before the lock is taken; then the flush writes the columns that the session changed, and the validation sees the enabled rows, its own with the values the session has |
| `CreateProfile`, `RenameProfile`, `UpdateFinal`, `DeleteProfile` | the requests on the profile that is followed, whose own rules go with it |
| `Generate`, `Read`, `Answer`, `Close` | `generate_surge_config`: each table is read by a statement of its own, and edits come between |

An update writes one field at a time, a reordering moves one row.  Of the profiles
one is followed, with the name of the default profile or another, or there is none.
A node is shown under its own name.  `Seeds` stands for the literal defaults, cut to
a few rows of each kind.  `disturbed` is history, no action reads it: since the order
of the sources was repaired, something was written to it that no validation saw as it
was stored, that is, on a row another edit had changed since it was loaded, or default
rows beside those of the user; and it is true of a database that is found misplaced.

## 3. Runs

| Run | Instance | Shows |
|---|---|---|
| `sync_races` | 1 subscription, new or upgraded, 2 URLs, 1 key, every PUT, a manual and a scheduled run, times 0..1, no database error | answers, manual state, schedule and guards of the synchronisation |
| `due_served` | 2 subscriptions, new or upgraded with or without a node, 2 keys, times 0..2, 2 database errors or restarts | rows account for nodes over failures and restarts; what is due is served |
| `edit_race` (violation) | 2 overlapping PUTs | finding 1 |
| `barrier` | 1 client, 2 maintainers, 1 write, 2 runs, 2 failures | exclusion, no stale handle, refinement of `AtomicStore`; waiters get in, maintenance ends |
| `lifecycle` | 2 processes, 3 starts, 2 failures, 1 crash | a loop has its resources and, by the lock, is the only one; no lock without use; shutdown ends |
| `publish` | 1 process, 2 releases of 2 steps, 1 commit, 1 restore or reset, 2 failures, 1 crash, 1 reader | nothing lost, no half upgrade, a start serves in the end |
| `retention` | 2 workers, 2 restores, Keep = 3, 2 milliseconds, 1 failure | what prunes may delete, how many files stay, that a restore keeps its safety backup |
| `launchd_switch` | every earlier state, 2 failures, 2 signals, 3 processes, 1 stop | old files, no mix, all or nothing, readiness, end |
| `config` | 2 profiles, 2 exceptions, 2 rules of the kinds ai and global, 3 requests, 2 at a time | rows stay consistent, a served configuration is |
| `access` | 2 browsers, one on this machine, 2 requests in flight, any number of logins or 2 updates, 1 slot, a table of 1 peer, limit 2 | who is admitted, what changes need, that attempts are bounded and nobody stays locked out |
| `upgrade` | 10 databases, 1 stop, 1 further release, 2 requests at a time (edits or a generation), none begun after an edit is committed | what upgrades keep, and that what is handed out is sound |
| `upgrade_dangling` (violation) | 1 database | finding 2 |

The bounds are the counters named in each module (`MaxFaults`, `MaxCrashes`, ...);
they end an exploration and are in no property.  They are large enough for the
cases that matter: two runs of one subscription, so that each can overtake the
other; two maintainers, so that one queues behind the other; a failure inside the
recovery from a failure; two manual backups and `Keep` one more, so that these two
push out the safety backup of a restore, whose own prune reaches one further; a
second release, so that an upgrade is pending on a file that was already upgraded; a
process that dies and is started again twice before the commit.  One key and no
database error suffice in `sync_races` because no property of it relates two keys or
is about what is left of a failed write, which is rolled back; the counters are, and
they are checked in `due_served`, with two keys, two failures (a write and then its
record) and upgraded rows, and proved also for manual runs and PUTs beside it.  One
client suffices beside two maintainers because a maintainer too has a session of its
own for its access check, and exclusion is proved for any number of both.  In `config`
three requests are one that reads, one that changes what it read, and one that uses or
adds to it.
In `access` the table has room for one peer, so that the second one finds it full,
and one slot, so that everyone queues; two updates are enough for each to overtake
the other.  The databases of `upgrade` are: one of the release before with an old row
of every kind that a migration touches, and user rows that look like them (`Old`); an
empty one; one in use for a while; one whose order the repair cannot put right; one
where a node has the English name of a region, and one where another region has it;
one with a node that cannot be read; one without regions; one emptied by hand, which a
start takes for new; and one with a rule no page would take today.  Two requests at a
time are an edit on a row that another edit changes, or an edit between the reads of a
generation; each read comes before or after it.  `ServedAlwaysSound`,
`OrderStaysRepaired` and `DeletedNeverReturns` are proved for any number of both.
One retry interval below the regular one and time up to 1 or 2 let a row be due,
served, due again.

Deadlock is checked for the synchronisation, the barrier and the chain, which
always have a next step.  It is not for `LaunchdSwitch`, whose script ends, nor for
`BackupRetention`, `ServiceLifecycle`, `ConfigStore`, `AccessControl` and
`DataMigrations`, whose bounded requests, starts, edits and stops run out.

### Fairness

* `SubscriptionSync`: weak fairness of the scheduler's steps.  The loop is one
  asyncio task; a write waits for the lock of SQLite at most for its busy timeout,
  and a fetch for each connection and read at most 30 seconds.  There is no limit on
  a whole fetch: that a provider ends its answer is assumed.  Nothing is assumed of
  requests.
* `MaintenanceBarrier`: weak fairness of each actor's next step: an event loop runs
  every ready task, and a handler closes its session.  None for new arrivals.  The
  scheduler holds the session of an item across its fetch
  (`subscription_scheduler.py:135`), so that this session ends is the same assumption
  on providers: one that sends a byte every 29 seconds keeps a maintenance waiting.
* `PublishChain`: a process that is down is started (launchd's KeepAlive), its steps
  go on, and an outside reader closes its snapshot in the end.
* `ServiceLifecycle`: start-up, cleanup and loop go on, and with them a running item,
  on the same assumption.  None for stops.
* `LaunchdSwitch`: the script goes on (weak), and a wait that pauses again and again
  passes its deadline (strong fairness of `Timeout`: the clock does not stop).
* `AccessControl`: time passes, the event loop runs every handler that can go on
  (weak), and a handler that waits for a slot gets one if slots keep coming free
  (strong: `asyncio.Semaphore` serves its waiters in order).  Nothing is assumed of
  the arrival of requests.
* `ConfigStore`, `BackupRetention`, `DataMigrations`: none, only safety is stated.

## 4. Findings

1. `edit_race`: two overlapping PUTs, one switching `enabled` on and one
   `auto_update`, each decide from the row they read that there is nothing to
   schedule.  The row ends enabled with automatic update and without a next time.
2. `upgrade_dangling`: the repair of dangling actions keeps a source whose region has
   any group, but the action names the automatic one.  A region with only a manual
   group stays dangling, the repair is recorded, and every generation is refused.

Each quotes in `PROJECT.json` the sentence of the code it disagrees with.

### Limits of the code that the properties leave out

Each was found with TLC by dropping the condition or the bound that is named; the
configuration that shows it is small and follows from the text.

* *Two processes* (`PublishChain`, two instances): the barrier of a restore is inside
  one process.  A second process on the same directory, which is documented as a
  standby that serves (`docs/RUNTIME_OPERATIONS.md`), keeps its engine on the replaced
  file, and what it commits afterwards is acknowledged and lost: `NothingLost` fails.
* *Restore beside a manual backup* (`BackupRetention`): the name a restore was asked
  for is protected from its own prune only (`backups.py:277`).  A manual backup that
  finishes meanwhile prunes without it: the restore fails and the backup is gone.
* *Keep manual backups beside one restore* (`SafetyKept` without `beside < Reach(r)`):
  manual backups may begin again once a restore has pruned, and the last of Keep newer
  ones prunes the safety backup while the restore may still need it.  Threads that were
  asked before the restore may choose their names while it copies, on the event loop;
  with Keep - 1 of them the prune of the restore itself takes its safety backup,
  because it spares the name it protects instead.  A safety backup that
  is not the newest name when it is chosen, because restores of that millisecond were
  pruned and their numbers are free, counts as pushed out from the start.
* *Signal during a rollback* (`LaunchdSwitch`, `MaxSignals = 1`): the flag that makes
  the rollback happen once is set when it begins (`launchd_lib.sh:632`), so the trap
  returns at once and the script exits with the files half restored.  Their old bytes
  are still in the backups, which is what `OldKept` says.
* *Changes decided on rows that changed* (`RowsFit` without `~raced`): a PUT that
  enables a rule is validated with the row it loaded, and commits only `enabled`,
  while another request has moved that rule; and an exception is checked against a
  target that is changed before it is written.  Generation looks again at both, so
  what is then refused is the configuration (422), which `OutputFits` shows.
* *Three overlapping updates of the access settings* (`LanHasPassword` without
  `~raced`): one that saw no password writes that back over the first password
  another has set, while a third has set the mode; the result is `lan_authenticated`
  without a password.
* *Order of the user across the built-in one* (`Interleaved`): with two AI rules
  around an Apple rule only the crossing rows are reset, the recheck at
  `data_migrations.py:307` raises, and so does every start after it.
* *No regions* (`NoRegions`, `Emptied`): `seed_defaults` takes a database without
  regions for an empty one (`bootstrap.py:39`).  It fails on the names that exist, at
  every start.  When the default services are gone as well and no profile has the
  default name, it puts all default rows beside those that are there: rules the user
  deleted are back (`DeletedStayDeleted` names this exception), and the order of the
  sources may be misplaced after its repair.
* *Rule edits on rows that changed* (`OrderOnceRepaired` without `~disturbed`): an
  update loads its row (`configs.py:394`, `410`) before the flush takes the write lock,
  and the validation sees the values of the session (`configs.py:372-373`), not those
  another request has stored since.  Two overlapping edits of one row, one of its place
  and one of its action or switch, can commit a misplaced order; every generation is refused
  until the order is put right.  The repair is recorded by then and does not run again.
* *Wrong passwords that nobody counts* (`ThrottleHolds`, whose `missed` begins
  anew when the table gets room): a login of a new peer is let in while the table
  of peers has room, and its failure is dropped when the table is full by then
  (`security.py:508-511`).  While the table stays full those are fewer than the requests
  in flight, of all peers together, because a new peer is refused; but each time the table
  gets room and fills anew there may be as many again, and no limit holds for their sum.
* *An error while pruning* (`Bounded` without `~overdue`): the new backup is there, the
  request ends in an error, and the names in excess stay until the next backup.
* *Names the repair does not look at* (`EnglishRegion`): a region the user has stored
  as "United Kingdom" makes the Chinese action resolve in English configurations, but
  the repair looks only at the region of the Chinese name and at nodes and services,
  and rewrites it; `config_validation.py:119-120` says that nothing may be rewritten
  whose output may be valid in any locale.  `RepairsOnlyDangling` names this exception.
* *References to what the pages let go*: 0006 may remove the node a rule refers to;
  the group for manual choice always lists the service of the mainland, so deleting it makes
  every generation refused, and so does the pin of a node that only carries
  information.  The validation refuses then (`ServedIsSound`), and
  `UpgradeKeepsServing` is stated for databases at 0006 with these services.
* *Equal names of groups*: a service named like a region makes two groups of one name,
  which no validation notices.

## 5. Proofs

Every theorem is for all values of the constants: any number of subscriptions,
keys, tasks, clients, processes, and no bound on failures.

* **SubscriptionSyncProofs.**  `Shape` strengthens the type invariant with what is
  not NULL when (a row that exists has a URL and an interval, a running task has a
  subscription and a time), without which no arithmetic on times is typed.  On it
  rest `NodesStayAccounted`, with two lemmas on the cardinality of an upsert and one on
  what a start finds (`FoundRow`, from `FoundAssumption`), and
  the action properties `AnswersFromCurrentUrl`, `ScheduledWritesGuarded` (the
  scheduler's task expects what its round selected), `LastUsableNodesKept` (an
  answer to be written is not empty) and `ManualStateSurvives`.  `ScheduleStaysConsistent` assumes
  `SerialAdmin`, that PUTs do not overlap: finding 1 shows it is needed.  Its
  invariant says of a loaded PUT what its commit will leave.
* **MaintenanceBarrierProofs.**  `Inv` says that the counter is the number of open
  sessions (`Counted`), that the gate is closed while the lock is held (`Gate`),
  that drained stays drained (`Quiet`) and that a bound engine is on the live file
  (`Current`).  Exclusion and the absence of stale handles follow.  `Story` adds
  where a body is with its file, which gives `UnboundMeansBroken` and
  `ImplementsAtomicStore`: each step is a step of `AtomicStore` or a stutter.
* **PublishChainProofs.**  Assumes one process (section 4 says why).  `Sourced`
  follows an operation from its start to its recovery: what it builds from has the
  right data; `Staged` says the staging file holds that and its log is merged before
  the rename.  `CommittedDataKept` follows.  `LInv` does the same for levels and
  backups: nothing is above the target of the process, what is staged reaches it
  before the rename, what is live is at a boundary between releases (`LevelsAt`), and
  while a file is built the one it replaces is in a backup (`BackedAt`).  From these
  `UpgradesAreAtomic` and `ReplacedAlwaysBackedUp`.
* **BackupRetentionProofs.**  What a prune deletes is decided when it lists and
  happens later, so `Inv` speaks of the victims of every prune under way.  `Fits`: unless
  somebody is about to list, at most Keep names are nobody's victims
  (`PruneFits`: the eldest name a listing spares has all it takes before it), or a prune
  has failed since the last listing.  `Ranked`:
  every victim has Keep newer names, or one less after a restore, and keeps them, since
  a deleted newer name had as many of its own (`NewerRemains`).  `Safe`: no more names
  newer than the safety backup are there or on their way than manual backups were named
  after it, so it is no victim of another prune, and of the restore's own one only if
  the protected name made it reach further (`Reach`).  `DirectoryStaysBounded`,
  `PrunesOnlyExcess` and
  `SafetyBackupKept` follow, for any number of threads and restores.  `KeepAssumption`
  asks for room for two, the backup a restore was asked for and its own; the code keeps
  ten.
* **LaunchdSwitchProofs.**  `Disk` reads the flags of the script as a description of
  the files, `Progress` says how far the swap has come, `Job` which plist may be
  loaded where.  All four safety invariants follow.  `Heard` says that an answer the
  script decides on is one of the process it has noted, because a process that is gone
  never comes back under its number; `ReadyWhenCommitted` follows.
  The last section is about the process that a switch starts, with the variables of
  `ServiceLifecycle`.  `Owner` (descriptor and kernel agree) and `PhasesFit` (when a
  process may have the lock, a loop, a wake-up, the ready flag; between the lock and the
  task it is `leading`) give all five safety
  properties, for any number of processes.
* **ConfigStoreProofs.**  `Ready` says what a handler holds: a profile whose mode
  fits and, after the validation, rules in a valid order.  `ModesAlwaysFit` follows
  from the column constraint, which sees the row after the merge;
  `ServedOutputFits` from `Ready` and from the fact that a normalised value is its
  own normal form.  Neither needs `raced`.  `RowsAlwaysFit` does: `ChecksOK` says of a
  PUT that has passed the check that it knows exceptions which its new target admits,
  and a commit beside which they have changed sets `raced`.  `SeedsAssumption` says
  that the default rules are in a valid order.

* **AccessControlProofs.**  `AccessInvariant` says of a request in flight what its
  decision rests on: an update that will leave `lan_authenticated` either brings a
  password or saw one, and one that passed the verification gave the one it saw.
  `LanAlwaysHasPassword` and `ChangesVerified` follow at the commit, where `raced`
  is what separates the password seen from the one stored.  `OnlyAdminsAdmitted` needs
  no more than the types; `TableAlwaysBounded` counts the known peers with the
  theorems on finite sets.  `ThrottleAlwaysHolds` rests on
  `PeerInv`: the table of failures has all of the window that is younger than the last
  block and fewer than the limit, and the failures of the window and the logins that
  have passed the check are together fewer than the limit and the requests.  The check
  is where a login joins them; a failure takes it out and is counted instead.  `recent`
  is a function of ages, so its total is an induction over data (below).  `MissInv` is
  about the logins that a full table would not record (`Strangers`): they were let in
  before it filled, and the login that filled it is answered, so they and those already
  missed are fewer than the requests.
* **DataMigrationsProofs.**  `GenInv` says what each read of a generation found, and
  `ValidIsSound` that what passes `Invalid` is sound.  For the migrations `DInv` has
  four parts: the registry keeps its order, so a recorded key has its predecessors
  recorded; live and staging database are well formed; a live order that is misplaced
  after its repair (`Misordered`) was disturbed; and the staging database is `Copied`
  from the live one until it is seeded and then `Upgraded` from it: the same ledger or
  more, absent rows of recorded keys still absent, an order that is right if the live
  one was, unless the live database was taken for a new one (`Vacant`).  An edit of a
  source that writes on the row it loaded validates what it stores, whatever the other
  sessions hold (`SessionOk`).  From these `OrderStaysRepaired` and
  `DeletedNeverReturns`, with the exceptions of their statements.
  `DatabasesAssumption` says what a stored database is: `WellFormed`, that is, the
  columns and a ledger in the order of the registry, with a profile or without; a found
  order may be right or not; `Numbered` and `Stored`, that ids and places
  are numbers and the columns 0006 reads have their types.  TLC evaluates it for every
  instance.
  * `UpgradeAlwaysServes`: `ServeInv` says that the staging database is refused for no
    reference the live one was not refused for.  It rests on `Alike` (no migration
    writes nodes, regions, services or FINAL), on `RowsServe` (rows that are as they
    were, or new with a policy that exists in both languages, are not refused) and on
    the groups AI and Mainland, which `DefaultsAssumption` ties to the inserted rows.
    The order of the sources is apart: DouYin may disturb it, the later repair
    rechecks it.
  * `MergeNeverLoses`: among the rows of one connection the rank and then the id decide
    (`WeightOrder`, `OneSurvivor`), and the survivor has a region if any has.
  * `OwnRowsAlwaysKept`: `NumberedInv` keeps ids finite numbers, so that the next id is
    not used (`InsertIsFresh`), and moving the places by one from there on keeps which
    own source is before which (`ShiftKeeps`).
  * `RepairsAlwaysDangling`: what the groups are named (`GroupNames`), and that another
    name than that of an old group has another translation (`OtherTranslation`, from
    `LegacyAssumption`: the English names of these groups are their own), leave one way
    in which a dangling action can resolve, a region stored under that English name
    (section 4).

Proved, and not checked by a run of their own: the type invariants of all but
`BackupRetention`, `OneLoop` and `ReadyMeansUp` of `ServiceLifecycle`,
`OnlySuccessTouchesNodes` of `SubscriptionSync` and `UnboundOnlyIfBroken` of
`MaintenanceBarrier`.

Some of these are inductions over data, which the library's theorems of induction
cannot give here because they take an operator as a parameter.  They are done by the
least counterexample instead: `LeastNatural` (from the well-foundedness of `<`) says
that a set of numbers has a least element, and the set of the sizes at which a
statement fails is one (`TotalIsSum`, `FiniteIsBounded`).  Where conditions overlap
the modules use IF and not CASE: of two arms that both hold the model checker takes
the first, the proof system may take either.

Model-checked only: the liveness properties (`DueIsServed`, `NobodyStaysWaiting`,
`StartsInTheEnd`, `ShutdownEnds`, `SwitchEnds`, `NobodyLockedOut`), because fairness
and ENABLED are beyond the proof system.

## 6. Not modelled

Parsing of provider formats, the text of generated configurations, HTML and texts:
conversions without state.  Signing, hashing and the address checks of a fetch:
library calls that pass or raise.  File modes, directory checks and the key file:
each caller has the failure.  Rotation of the event log under its file lock.  The
recognition of historical schemas, a function of tables and columns.  The start
scripts, which exec one process.  The dialogs in the browser.

Not a property: the order of `last_attempt_at` when a slow manual run ends after a
faster one; the name of a backup when two start in one millisecond, because both are
copies of that moment; the answer of a backup request whose file another prune has
already taken; that a standby process takes over when the leader dies, which the
documentation rules out.  The wall clock does not go back in any module; the age of a
backup is in its name and depends on that.

## 7. Plan

Done: the synchronisation first, because everything users see depends on it; then
the barrier with its abstract store; the files; the backups; the processes; the
installation; the configuration; access; the generation and the upgrades before it;
and proofs of the safety of all of them.

Open, in this order: the recognition of historical schemas, as a function of tables
and columns; rotation of the event log by several processes; the browser's request
counters against late answers.
