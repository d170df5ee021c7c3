----------------------------- MODULE PublishChain -----------------------------
(***************************************************************************)
(* The files of the database and the chain that replaces them              *)
(* (services/database_migration.py, 609-798): prepare_database at startup, *)
(* and rebuild_from_source for restore, reset and their recovery.  A live  *)
(* file is a main file plus a write-ahead log whose committed pages are    *)
(* not in the main file yet; a new database is built in a staging file and *)
(* renamed over main.  The process may die between any two steps.          *)
(***************************************************************************)
EXTENDS Integers

CONSTANTS
    Instances,    \* processes that use the data directory
    NULL,
    Steps,        \* schema revisions and data migrations of one release
    MaxReleases,  \* bound: releases installed
    MaxCommits,   \* bound: commits by the application
    MaxOps,       \* bound: restores and resets
    MaxFaults,    \* bound: failing steps
    MaxCrashes,   \* bound: crashes
    MaxReaders    \* bound: snapshots taken by readers outside the engine

ASSUME StepsAssumption == Steps \in Nat \ {0}
ASSUME NullAssumption == NULL \notin Instances /\ NULL \notin [data: Nat, level: Nat]
ASSUME BoundsAssumption ==
    /\ MaxReleases \in Nat /\ MaxCommits \in Nat /\ MaxOps \in Nat
    /\ MaxFaults \in Nat /\ MaxCrashes \in Nat /\ MaxReaders \in Nat

\* What a file says: which data, and how many steps of the upgrade it has.
Content == [data: Nat, level: Nat]
Maybe == Content \cup {NULL}
Fresh == [data |-> 0, level |-> 0]

VARIABLES
    main, wal,          \* live and live-wal
    inode,              \* which file bears the name live
    staged, stagedWal,  \* the staging file
    legacy,             \* the repository's old database, only ever read
    backups,            \* contents of published backups
    reader,             \* somebody outside the engine holds a snapshot of live
    head,               \* level the installed release requires
    pc, op,             \* where each process is, and in which operation
    source, safety,     \* what it builds from, and its safety backup
    handle,             \* inode its engine is bound to
    target,             \* level its code upgrades to
    truth,              \* history: data that live must have
    was,                \* history: truth before the current restore or reset
    lastData,           \* last data identifier given out
    commits, ops, faults, crashes, readers  \* counters for the bounds

liveVars == <<main, wal, inode>>
stagingVars == <<staged, stagedWal>>
procVars == <<op, source, safety, handle, target>>
history == <<truth, was, lastData>>
bounds == <<commits, ops, faults, crashes, readers>>
vars == <<liveVars, stagingVars, legacy, backups, reader, head, pc, procVars, history, bounds>>

Logical(m, w) == IF w # NULL THEN w ELSE m
Live == Logical(main, wal)
Staging == Logical(staged, stagedWal)

Goto(i, l) == pc' = [pc EXCEPT ![i] = l]
Fault == faults < MaxFaults /\ faults' = faults + 1

StartOps == {"legacy", "live", "fresh"}
BuildPcs == {"discard", "discardWal", "fill", "upgrade", "checkpoint", "replace"}
Pcs == {"down", "backup", "bind", "serving", "abort", "broken"} \cup BuildPcs

-------------------------------------------------------------------------------
(* prepare_database *)

\* The path is chosen by what exists; a complete live file is used as it is.
NothingPending == Live.level = head

Boot(i) ==
    /\ pc[i] = "down"
    /\ target' = [target EXCEPT ![i] = head]
    /\ \/ /\ main = NULL /\ legacy # NULL
          /\ op' = [op EXCEPT ![i] = "legacy"]
          /\ source' = [source EXCEPT ![i] = legacy]
          /\ Goto(i, "backup")
       \/ /\ main # NULL
          /\ op' = [op EXCEPT ![i] = "live"]
          /\ source' = [source EXCEPT ![i] = NULL]
          /\ Goto(i, IF NothingPending THEN "bind" ELSE "backup")
       \/ /\ main = NULL /\ legacy = NULL
          /\ op' = [op EXCEPT ![i] = "fresh"]
          /\ source' = [source EXCEPT ![i] = NULL]
          /\ Goto(i, "discard")
    /\ UNCHANGED <<liveVars, stagingVars, legacy, backups, reader, head, safety, handle,
                   history, bounds>>

\* restore_backup and reset_database enter behind the maintenance barrier.  A
\* restore builds from a backup, a reset from nothing; the reset disposes the
\* engine before its safety backup, the restore after it.
Begin(i, o, b) ==
    /\ pc[i] = "serving" /\ ops < MaxOps /\ ops' = ops + 1
    /\ b \in IF o = "restore" THEN backups ELSE {NULL}
    /\ op' = [op EXCEPT ![i] = o]
    /\ source' = [source EXCEPT ![i] = b]
    /\ safety' = [safety EXCEPT ![i] = NULL]
    /\ handle' = [handle EXCEPT ![i] = IF o = "reset" THEN NULL ELSE @]
    /\ was' = truth
    /\ Goto(i, "backup")
    /\ UNCHANGED <<liveVars, stagingVars, legacy, backups, reader, head, target,
                   truth, lastData, commits, faults, crashes, readers>>

\* The backup of what is about to be replaced is published before anything
\* else is touched.
Bug_NoBackup(i) == backups
BackedUp(i) == backups \cup {IF op[i] = "legacy" THEN legacy ELSE Live}

Backup(i) ==
    /\ pc[i] = "backup"
    /\ backups' = BackedUp(i)
    /\ source' = [source EXCEPT ![i] = IF op[i] = "live" THEN Live ELSE @]
    /\ safety' = [safety EXCEPT ![i] = IF op[i] \in StartOps THEN NULL ELSE Live]
    /\ handle' = [handle EXCEPT ![i] = NULL]
    /\ Goto(i, "discard")
    /\ UNCHANGED <<liveVars, stagingVars, legacy, reader, head, op, target, history, bounds>>

\* Without its backup a startup ends, a restore leaves with the engine still
\* bound, and a reset goes through its recovery.
AfterBackupFails(i) ==
    IF op[i] \in StartOps THEN "down" ELSE IF op[i] = "restore" THEN "serving" ELSE "abort"

BackupFails(i) ==
    /\ pc[i] = "backup"
    /\ Fault
    /\ Goto(i, AfterBackupFails(i))
    /\ UNCHANGED <<liveVars, stagingVars, legacy, backups, reader, head, procVars, history,
                   commits, ops, crashes, readers>>

-------------------------------------------------------------------------------
(* rebuild_from_source *)

\* discard_staging unlinks the file, then its sidecars: a crash in between
\* leaves a log behind that must not reach the next staging file.
Discard(i) ==
    /\ pc[i] = "discard"
    /\ staged' = NULL
    /\ Goto(i, "discardWal")
    /\ UNCHANGED <<liveVars, stagedWal, legacy, backups, reader, head, procVars, history, bounds>>

NoWal == NULL

DiscardWal(i) ==
    /\ pc[i] = "discardWal"
    /\ stagedWal' = NoWal
    /\ Goto(i, "fill")
    /\ UNCHANGED <<liveVars, staged, legacy, backups, reader, head, procVars, history, bounds>>

\* reserve_private_file (O_EXCL), then the copy of the source.
Fill(i) ==
    /\ pc[i] = "fill" /\ staged = NULL
    /\ staged' = IF source[i] = NULL THEN Fresh ELSE source[i]
    /\ Goto(i, "upgrade")
    /\ UNCHANGED <<liveVars, stagedWal, legacy, backups, reader, head, procVars, history, bounds>>

\* upgrade_staging: every schema revision, seed and data migration commits.
Bug_StopsEarly(i) == Staging.level >= target[i] - 1
Upgraded(i) == Staging.level >= target[i]

Upgrade(i) ==
    /\ pc[i] = "upgrade" /\ staged # NULL /\ ~Upgraded(i)
    /\ stagedWal' = [Staging EXCEPT !.level = @ + 1]
    /\ UNCHANGED <<liveVars, staged, legacy, backups, reader, head, pc, procVars, history, bounds>>

\* The log of staging goes into its main file, which is then verified.
Collapse(i) ==
    /\ pc[i] = "upgrade" /\ staged # NULL /\ Upgraded(i)
    /\ staged' = Staging /\ stagedWal' = NULL
    /\ Goto(i, "checkpoint")
    /\ UNCHANGED <<liveVars, legacy, backups, reader, head, procVars, history, bounds>>

\* _prepare_live_for_replacement: the log of live is merged into main, and
\* only then removed.  A reader's snapshot makes the checkpoint busy.
Bug_RemovesFirst == main
Merged == IF main = NULL THEN NULL ELSE Live

Checkpoint(i) ==
    /\ pc[i] = "checkpoint" /\ (main # NULL => ~reader)
    /\ main' = Merged /\ wal' = NULL
    /\ Goto(i, "replace")
    /\ UNCHANGED <<inode, stagingVars, legacy, backups, reader, head, procVars, history, bounds>>

CheckpointBusy(i) ==
    /\ pc[i] = "checkpoint" /\ main # NULL /\ reader
    /\ Goto(i, "abort")
    /\ UNCHANGED <<liveVars, stagingVars, legacy, backups, reader, head, procVars, history, bounds>>

\* os.replace.  A startup must not change the data; a restore and a reset are
\* meant to, and their recovery is meant to undo that.
Replace(i) ==
    /\ pc[i] = "replace" /\ staged # NULL
    /\ main' = staged /\ staged' = NULL
    /\ inode' = inode + 1
    /\ truth' = CASE op[i] \in {"restore", "reset"} -> staged.data
                  [] op[i] = "recover" -> was
                  [] OTHER -> truth
    /\ Goto(i, "bind")
    /\ UNCHANGED <<wal, stagedWal, legacy, backups, reader, head, procVars, was, lastData, bounds>>

\* Another process discarded or created the staging file meanwhile.
Stolen(i) ==
    \/ pc[i] = "fill" /\ staged # NULL
    \/ pc[i] \in {"upgrade", "replace"} /\ staged = NULL

\* Any step raises: the exception discards staging on its way out.
StepFails(i) ==
    /\ pc[i] \in BuildPcs
    /\ IF Stolen(i) THEN UNCHANGED faults ELSE Fault
    /\ Goto(i, "abort")
    /\ UNCHANGED <<liveVars, stagingVars, legacy, backups, reader, head, procVars, history,
                   commits, ops, crashes, readers>>

\* A failed startup ends the process; a failed restore or reset binds the
\* live file again, which was not replaced; a failed recovery gives up.
Bug_KeepsRunning(i) == IF op[i] \in StartOps \cup {"recover"} THEN "broken" ELSE "bind"
AfterAbort(i) ==
    IF op[i] \in StartOps THEN "down" ELSE IF op[i] = "recover" THEN "broken" ELSE "bind"

Abort(i) ==
    /\ pc[i] = "abort"
    /\ staged' = NULL /\ stagedWal' = NULL
    /\ Goto(i, AfterAbort(i))
    /\ source' = [source EXCEPT ![i] = NULL]
    /\ op' = [op EXCEPT ![i] = IF @ \in StartOps THEN @ ELSE "rebind"]
    /\ UNCHANGED <<liveVars, legacy, backups, reader, head, safety, handle, target,
                   history, bounds>>

-------------------------------------------------------------------------------
(* bind, and the application on top *)

Bind(i) ==
    /\ pc[i] = "bind" /\ main # NULL
    /\ handle' = [handle EXCEPT ![i] = inode]
    /\ source' = [source EXCEPT ![i] = NULL]
    /\ safety' = [safety EXCEPT ![i] = NULL]
    /\ op' = [op EXCEPT ![i] = "rebind"]
    /\ Goto(i, "serving")
    /\ UNCHANGED <<liveVars, stagingVars, legacy, backups, reader, head, target, history, bounds>>

\* With live replaced, the safety backup is rebuilt into it; a bind that
\* fails at startup or in a recovery is final.
RecoverySource(i) == safety[i]

BindFails(i) ==
    /\ pc[i] = "bind"
    /\ Fault
    /\ IF op[i] \in {"restore", "reset"}
       THEN /\ op' = [op EXCEPT ![i] = "recover"]
            /\ source' = [source EXCEPT ![i] = RecoverySource(i)]
            /\ Goto(i, "discard")
       ELSE /\ Goto(i, IF op[i] \in StartOps THEN "down" ELSE "broken")
            /\ UNCHANGED <<op, source>>
    /\ UNCHANGED <<liveVars, stagingVars, legacy, backups, reader, head, safety, handle, target,
                   history, commits, ops, crashes, readers>>

\* An acknowledged commit goes to the log of the file the engine has open: of
\* a file that lost its name it is never seen again.
Commit(i) ==
    /\ pc[i] = "serving" /\ commits < MaxCommits /\ commits' = commits + 1
    /\ lastData' = lastData + 1 /\ truth' = lastData'
    /\ wal' = IF handle[i] = inode THEN [Live EXCEPT !.data = lastData'] ELSE wal
    /\ UNCHANGED <<main, inode, stagingVars, legacy, backups, reader, head, pc, procVars, was,
                   ops, faults, crashes, readers>>

\* SQLite merges the log on its own while it serves.
AutoCheckpoint(i) ==
    /\ pc[i] = "serving" /\ handle[i] = inode /\ ~reader /\ wal # NULL
    /\ main' = Merged /\ wal' = NULL
    /\ UNCHANGED <<inode, stagingVars, legacy, backups, reader, head, pc, procVars, history, bounds>>

\* A regular end: the engine is disposed.
Shutdown(i) ==
    /\ pc[i] \in {"serving", "broken"}
    /\ handle' = [handle EXCEPT ![i] = NULL]
    /\ Goto(i, "down")
    /\ UNCHANGED <<liveVars, stagingVars, legacy, backups, reader, head, op, source, safety,
                   target, history, bounds>>

Crash(i) ==
    /\ pc[i] # "down" /\ crashes < MaxCrashes /\ crashes' = crashes + 1
    /\ handle' = [handle EXCEPT ![i] = NULL]
    /\ Goto(i, "down")
    /\ UNCHANGED <<liveVars, stagingVars, legacy, backups, reader, head, op, source, safety,
                   target, history, commits, ops, faults, readers>>

\* A reader outside the engine: a backup thread, another tool.
ReaderOpens ==
    /\ main # NULL /\ ~reader /\ readers < MaxReaders
    /\ reader' = TRUE /\ readers' = readers + 1
    /\ UNCHANGED <<liveVars, stagingVars, legacy, backups, head, pc, procVars, history,
                   commits, ops, faults, crashes>>

ReaderCloses ==
    /\ reader /\ reader' = FALSE
    /\ UNCHANGED <<liveVars, stagingVars, legacy, backups, head, pc, procVars, history, bounds>>

\* A release with further steps is installed; running processes keep theirs.
Release ==
    /\ head < Steps * MaxReleases
    /\ \E i \in Instances : pc[i] = "down"
    /\ head' = head + Steps
    /\ UNCHANGED <<liveVars, stagingVars, legacy, backups, reader, pc, procVars, history, bounds>>

-------------------------------------------------------------------------------

\* The data directory before the first start: nothing but perhaps an orphaned
\* log, the repository's old database, or a live file of an earlier release.
Init ==
    /\ \/ main = NULL /\ wal \in {NULL, [data |-> 9, level |-> 0]} /\ legacy \in {NULL, [data |-> 1, level |-> 0]}
       \/ main = [data |-> 1, level |-> 0] /\ wal \in {NULL, [data |-> 2, level |-> 0]} /\ legacy = NULL
    /\ inode = 0
    /\ staged = NULL /\ stagedWal = NULL
    /\ backups = {} /\ reader = FALSE
    /\ head = Steps
    /\ pc = [i \in Instances |-> "down"]
    /\ op = [i \in Instances |-> "rebind"]
    /\ source = [i \in Instances |-> NULL] /\ safety = [i \in Instances |-> NULL]
    /\ handle = [i \in Instances |-> NULL]
    /\ target = [i \in Instances |-> 0]
    /\ truth = IF main # NULL THEN Live.data ELSE IF legacy # NULL THEN legacy.data ELSE 0
    /\ was = 0 /\ lastData = 2
    /\ commits = 0 /\ ops = 0 /\ faults = 0 /\ crashes = 0 /\ readers = 0

\* What a process does on its own.
Run(i) ==
    \/ Backup(i) \/ BackupFails(i) \/ Discard(i) \/ DiscardWal(i) \/ Fill(i) \/ Upgrade(i) \/ Collapse(i)
    \/ Checkpoint(i) \/ CheckpointBusy(i) \/ Replace(i) \/ StepFails(i)
    \/ Abort(i) \/ Bind(i) \/ BindFails(i)

Next ==
    \/ \E i \in Instances :
          \/ Boot(i) \/ Run(i)
          \/ \E o \in {"restore", "reset"} : \E b \in backups \cup {NULL} : Begin(i, o, b)
          \/ Commit(i) \/ AutoCheckpoint(i) \/ Shutdown(i) \/ Crash(i)
    \/ ReaderOpens \/ ReaderCloses \/ Release

\* launchd starts the process again (KeepAlive), a started process goes on,
\* and a reader ends.
Spec ==
    /\ Init /\ [][Next]_vars
    /\ \A i \in Instances : WF_vars(Boot(i)) /\ WF_vars(Run(i))
    /\ WF_vars(ReaderCloses)

-------------------------------------------------------------------------------
(* Properties *)

\* Every variable stays within its declared shape.
TypeOK ==
    /\ main \in Maybe /\ wal \in Maybe /\ inode \in Nat
    /\ staged \in Maybe /\ stagedWal \in Maybe
    /\ legacy \in Maybe /\ backups \subseteq Content
    /\ reader \in BOOLEAN /\ head \in Nat
    /\ pc \in [Instances -> Pcs]
    /\ op \in [Instances -> StartOps \cup {"restore", "reset", "recover", "rebind"}]
    /\ source \in [Instances -> Maybe] /\ safety \in [Instances -> Maybe]
    /\ handle \in [Instances -> Nat \cup {NULL}] /\ target \in [Instances -> Nat]
    /\ truth \in Nat /\ was \in Nat /\ lastData \in Nat
    /\ commits \in Nat /\ ops \in Nat /\ faults \in Nat /\ crashes \in Nat /\ readers \in Nat

\* Wherever a start, restore, reset or recovery fails or dies, the live file
\* and its log say exactly what was committed last (rebuild_from_source,
\* "committed data is not lost"); before it exists the old database does.
NothingLost ==
    /\ main # NULL => Live.data = truth
    /\ main = NULL /\ legacy # NULL => legacy.data = truth

\* An upgrade is seen whole or not at all: the live file is never one whose
\* upgrade stopped half way, at no point of a crash either, and a process only
\* serves a file upgraded to what its own code requires.
UpgradeIsAtomic ==
    /\ main # NULL => Live.level % Steps = 0
    /\ \A i \in Instances : pc[i] = "serving" => Live.level >= target[i]

\* What a start, restore or reset replaces has been backed up as it is.
ReplacedIsBackedUp ==
    [][\A i \in Instances : Replace(i) /\ main # NULL /\ op[i] # "recover" => Live \in backups]_vars

\* Whatever failed, was interrupted or was busy, a process that starts serves
\* in the end.
StartsInTheEnd == \A i \in Instances : pc[i] = "down" ~> pc[i] = "serving"

===============================================================================
