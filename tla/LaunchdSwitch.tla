----------------------------- MODULE LaunchdSwitch -----------------------------
(***************************************************************************)
(* Installing a new configuration under launchd (launchd_lib.sh): prepare  *)
(* writes candidates, switch unloads the old job, swaps the control file   *)
(* and the plist by renames, loads the new job, waits until its process    *)
(* answers, and commits; anything else is rolled back.                     *)
(*                                                                         *)
(* Between any two commands launchd may start or lose the process of the   *)
(* loaded job, the user may stop the job, and a signal may arrive.         *)
(***************************************************************************)
EXTENDS Integers

CONSTANTS
    NULL,
    MaxPids,     \* bound: incarnations of the job's process
    MaxFaults,   \* bound: failing commands and dying processes
    MaxSignals,  \* bound: HUP, INT and TERM
    MaxStops     \* bound: surgeconf.sh stop

ASSUME BoundsAssumption ==
    MaxPids \in Nat /\ MaxFaults \in Nat /\ MaxSignals \in Nat /\ MaxStops \in Nat

Files == {"control", "plist"}
Gens == {"old", "new"}
ASSUME NullAssumption == NULL \notin Gens

VARIABLES
    file,      \* what each file holds under its own name
    cand,      \* files whose candidate is still there
    bak,       \* what the backup of each file holds
    loaded,    \* the plist of the loaded job
    job,       \* the PID column of its process, 0 for "-"
    pids,      \* processes started so far
    answered,  \* processes that answer on the readiness endpoint
    existed, wasLoaded,     \* recorded by prepare: SC_OLD_..._EXISTED, SC_WAS_LOADED
    moved, switched,        \* files with SC_..._MOVED, SC_..._SWITCHED
    done, committed,        \* SC_ROLLBACK_DONE, SC_COMMITTED
    alive, lost,            \* candidate_alive, restore_failed
    pid, saw, readyPid,     \* of the wait: pid, saw_pid, SC_READY_PID
    pending,                \* SC_PENDING_SIGNAL
    pc, at,                 \* the next command, and for which file
    faults, signals, stops  \* counters for the bounds

disk == <<file, cand, bak>>
launchd == <<loaded, job, pids, answered>>
record == <<existed, wasLoaded>>
flags == <<moved, switched, done, committed, alive, lost>>
wait == <<pid, saw, readyPid>>
place == <<pc, at>>
bounds == <<faults, signals, stops>>
vars == <<disk, launchd, record, flags, wait, pending, place, bounds>>

Critical == {"moved", "placed", "confirmed"}
Working == {"unload", "backup", "move", "place", "load", "list", "probe", "curl",
            "recheck", "pause", "confirm", "rollback"}
RollingBack == {"stopJob", "restore", "report", "reload"}
Ended == {"refused", "committed", "rolledBack", "incomplete", "killed"}
Pcs == {"prepare", "arm", "clean"} \cup Working \cup Critical \cup RollingBack \cup Ended

Goto(l) == pc' = l /\ at' = at
Fault == faults < MaxFaults /\ faults' = faults + 1 /\ UNCHANGED <<signals, stops>>

\* sc_discard_candidates
Discard == cand' = {} /\ bak' = [x \in Files |-> NULL]

-------------------------------------------------------------------------------
(* sc_prepare_launchd *)

Record ==
    /\ existed' = {x \in Files : file[x] # NULL}
    /\ wasLoaded' = (loaded # NULL)

Prepare ==
    /\ pc = "prepare"
    /\ Record
    /\ cand' = Files
    /\ Goto("arm")
    /\ UNCHANGED <<file, bak, launchd, flags, wait, pending, bounds>>

\* A value, a directory or a generated file is refused: the job keeps running.
PrepareFails ==
    /\ pc = "prepare" /\ Fault
    /\ Record
    /\ Goto("refused")
    /\ UNCHANGED <<disk, launchd, flags, wait, pending>>

-------------------------------------------------------------------------------
(* sc_switch_launchd: unload, swap, load *)

Arm ==
    /\ pc = "arm"
    /\ Goto("unload")
    /\ UNCHANGED <<disk, launchd, record, flags, wait, pending, bounds>>

Unload ==
    /\ pc = "unload"
    /\ IF wasLoaded THEN loaded' = NULL /\ job' = 0 ELSE UNCHANGED <<loaded, job>>
    /\ Goto("backup")
    /\ UNCHANGED <<disk, pids, answered, record, flags, wait, pending, bounds>>

UnloadFails ==
    /\ pc = "unload" /\ wasLoaded /\ Fault
    /\ Discard
    /\ Goto("refused")
    /\ UNCHANGED <<file, launchd, record, flags, wait, pending>>

NeedsBackup == at \in existed

Backup ==
    /\ pc = "backup"
    /\ Goto(IF NeedsBackup THEN "move" ELSE "place")
    /\ UNCHANGED <<disk, launchd, record, flags, wait, pending, bounds>>

BackupFails ==
    /\ pc = "backup" /\ NeedsBackup /\ Fault
    /\ Goto("rollback")
    /\ UNCHANGED <<disk, launchd, record, flags, wait, pending>>

\* The rename and the flag that records it are two steps of one critical section.
Move ==
    /\ pc = "move"
    /\ bak' = [bak EXCEPT ![at] = file[at]]
    /\ file' = [file EXCEPT ![at] = NULL]
    /\ Goto("moved")
    /\ UNCHANGED <<cand, launchd, record, flags, wait, pending, bounds>>

Place ==
    /\ pc = "place"
    /\ file' = [file EXCEPT ![at] = "new"]
    /\ cand' = cand \ {at}
    /\ Goto("placed")
    /\ UNCHANGED <<bak, launchd, record, flags, wait, pending, bounds>>

RenameFails ==
    /\ pc \in {"move", "place"} /\ Fault
    /\ Goto("rollback")
    /\ UNCHANGED <<disk, launchd, record, flags, wait, pending>>

\* sc_critical_leave: a signal that arrived meanwhile is handled now.
AfterCritical(l) == IF pending THEN "rollback" ELSE l

Moved ==
    /\ pc = "moved"
    /\ moved' = moved \cup {at}
    /\ Goto(AfterCritical("place"))
    /\ UNCHANGED <<disk, launchd, record, switched, done, committed, alive, lost,
                   wait, pending, bounds>>

Placed ==
    /\ pc = "placed"
    /\ switched' = switched \cup {at}
    /\ pc' = AfterCritical(IF at = "control" THEN "backup" ELSE "load")
    /\ at' = "plist"
    /\ UNCHANGED <<disk, launchd, record, moved, done, committed, alive, lost,
                   wait, pending, bounds>>

Load ==
    /\ pc = "load"
    /\ loaded' = file["plist"] /\ job' = 0
    /\ Goto("list")
    /\ UNCHANGED <<disk, pids, answered, record, flags, wait, pending, bounds>>

\* A load that reports failure may still have loaded the job.
LoadFails ==
    /\ pc = "load" /\ Fault
    /\ loaded' \in {loaded, file["plist"]}
    /\ Goto("rollback")
    /\ UNCHANGED <<disk, job, pids, answered, record, flags, wait, pending>>

-------------------------------------------------------------------------------
(* sc_wait_candidate_ready *)

List ==
    /\ pc = "list"
    /\ Goto(IF loaded = NULL THEN "rollback" ELSE "probe")
    /\ UNCHANGED <<disk, launchd, record, flags, wait, pending, bounds>>

\* No row for the label, or a process that was seen and is gone, is final.
Probe ==
    /\ pc = "probe"
    /\ IF loaded # NULL /\ job # 0
       THEN pid' = job /\ saw' = TRUE /\ Goto("curl")
       ELSE /\ UNCHANGED <<pid, saw>>
            /\ Goto(IF loaded = NULL \/ saw THEN "rollback" ELSE "pause")
    /\ UNCHANGED <<disk, launchd, record, flags, readyPid, pending, bounds>>

\* --max-time: no answer is not yet a failure.
Curl ==
    /\ pc = "curl"
    /\ Goto(IF job \in answered THEN "recheck" ELSE "pause")
    /\ UNCHANGED <<disk, launchd, record, flags, wait, pending, bounds>>

Bug_AnyProcess == TRUE
SameProcess == job = pid

\* The answer counts only for the process that was seen before and after it.
Recheck ==
    /\ pc = "recheck"
    /\ IF loaded # NULL /\ job # 0 /\ SameProcess
       THEN readyPid' = job /\ Goto("confirm")
       ELSE /\ readyPid' = 0
            /\ Goto(IF loaded = NULL \/ job = 0 THEN "rollback" ELSE "pause")
    /\ UNCHANGED <<disk, launchd, record, flags, pid, saw, pending, bounds>>

Pause ==
    /\ pc = "pause"
    /\ Goto("list")
    /\ UNCHANGED <<disk, launchd, record, flags, wait, pending, bounds>>

\* SC_READINESS_TIMEOUT
Bug_Never == FALSE
DeadlinePassed == TRUE

Timeout ==
    /\ pc = "pause" /\ DeadlinePassed
    /\ Goto("rollback")
    /\ UNCHANGED <<disk, launchd, record, flags, wait, pending, bounds>>

-------------------------------------------------------------------------------
(* Commit *)

CandidateRunning == job # 0 /\ job = readyPid

Confirm ==
    /\ pc = "confirm"
    /\ Goto(IF CandidateRunning THEN "confirmed" ELSE "rollback")
    /\ UNCHANGED <<disk, launchd, record, flags, wait, pending, bounds>>

\* SC_COMMITTED=1; a pending signal now cleans up and exits.
Confirmed ==
    /\ pc = "confirmed"
    /\ committed' = TRUE
    /\ IF pending THEN Discard /\ Goto("committed")
                  ELSE UNCHANGED <<cand, bak>> /\ Goto("clean")
    /\ UNCHANGED <<file, launchd, record, moved, switched, done, alive, lost, wait,
                   pending, bounds>>

Clean ==
    /\ pc = "clean"
    /\ Discard
    /\ Goto("committed")
    /\ UNCHANGED <<file, launchd, record, flags, wait, pending, bounds>>

-------------------------------------------------------------------------------
(* sc_rollback_launchd *)

\* The candidate stops before its files go.
Bug_KeepsJob == "restore"
FirstOfRollback == "stopJob"
Begin == done' = TRUE /\ pc' = FirstOfRollback /\ at' = "control"

Rollback ==
    /\ pc = "rollback"
    /\ Begin
    /\ UNCHANGED <<disk, launchd, record, moved, switched, committed, alive, lost,
                   wait, pending, bounds>>

StopJob ==
    /\ pc = "stopJob"
    /\ loaded' = NULL /\ job' = 0
    /\ Goto("restore")
    /\ UNCHANGED <<disk, pids, answered, record, flags, wait, pending, bounds>>

StopJobFails ==
    /\ pc = "stopJob" /\ loaded # NULL /\ Fault
    /\ alive' = TRUE
    /\ Goto("restore")
    /\ UNCHANGED <<disk, launchd, record, moved, switched, done, committed, lost,
                   wait, pending>>

NextFile ==
    /\ pc' = IF at = "control" THEN "restore" ELSE "report"
    /\ at' = "plist"

\* MOVED decides: what is in a backup goes back, what was not there before goes.
Bug_BySwitched == at \in switched
FromBackup == at \in moved

Restore ==
    /\ pc = "restore"
    /\ \/ /\ FromBackup
          /\ file' = [file EXCEPT ![at] = bak[at]]
          /\ bak' = [bak EXCEPT ![at] = NULL]
       \/ /\ ~FromBackup /\ at \in switched
          /\ file' = [file EXCEPT ![at] = NULL]
          /\ UNCHANGED bak
       \/ /\ ~FromBackup /\ at \notin switched
          /\ UNCHANGED <<file, bak>>
    /\ NextFile
    /\ UNCHANGED <<cand, launchd, record, flags, wait, pending, bounds>>

RestoreFails ==
    /\ pc = "restore" /\ at \in moved \cup switched /\ Fault
    /\ lost' = TRUE
    /\ NextFile
    /\ UNCHANGED <<disk, launchd, record, moved, switched, done, committed, alive,
                   wait, pending>>

Bug_NoReload == FALSE
MustReload == wasLoaded

\* With a file lost the backups stay for repair by hand.
Report ==
    /\ pc = "report"
    /\ IF lost THEN cand' = {} /\ UNCHANGED bak /\ Goto("incomplete")
       ELSE IF alive THEN Discard /\ Goto("incomplete")
       ELSE IF MustReload THEN UNCHANGED <<cand, bak>> /\ Goto("reload")
       ELSE Discard /\ Goto("rolledBack")
    /\ UNCHANGED <<file, launchd, record, flags, wait, pending, bounds>>

Reload ==
    /\ pc = "reload"
    /\ loaded' = file["plist"] /\ job' = 0
    /\ Discard
    /\ Goto("rolledBack")
    /\ UNCHANGED <<file, pids, answered, record, flags, wait, pending, bounds>>

ReloadFails ==
    /\ pc = "reload" /\ Fault
    /\ loaded' \in {NULL, file["plist"]}
    /\ Discard
    /\ Goto("incomplete")
    /\ UNCHANGED <<file, job, pids, answered, record, flags, wait, pending>>

-------------------------------------------------------------------------------
(* Signals, launchd and the user *)

\* The traps: none before switch, pending in a critical section, respect of the
\* commit after it, otherwise rollback - which a second entry only leaves.
OnSignal ==
    \/ /\ pc \in {"prepare", "arm"}
       /\ Goto("killed")
       /\ UNCHANGED <<cand, bak, done, pending>>
    \/ /\ pc \in Critical
       /\ pending' = TRUE
       /\ UNCHANGED <<cand, bak, done, place>>
    \/ /\ pc \in Working
       /\ Begin
       /\ UNCHANGED <<cand, bak, pending>>
    \/ /\ pc \in RollingBack
       /\ Goto("killed")
       /\ UNCHANGED <<cand, bak, done, pending>>
    \/ /\ pc = "clean"
       /\ Discard \/ UNCHANGED <<cand, bak>>
       /\ Goto("committed")
       /\ UNCHANGED <<done, pending>>

Signal ==
    /\ signals < MaxSignals /\ signals' = signals + 1
    /\ OnSignal
    /\ UNCHANGED <<file, launchd, record, moved, switched, committed, alive, lost,
                   wait, faults, stops>>

\* RunAtLoad and KeepAlive.
Spawn ==
    /\ loaded # NULL /\ job = 0 /\ pids < MaxPids
    /\ pids' = pids + 1 /\ job' = pids + 1
    /\ UNCHANGED <<disk, loaded, answered, record, flags, wait, pending, place, bounds>>

Answer ==
    /\ job # 0 /\ answered' = answered \cup {job}
    /\ UNCHANGED <<disk, loaded, job, pids, record, flags, wait, pending, place, bounds>>

Die ==
    /\ job # 0 /\ job' = 0 /\ Fault
    /\ UNCHANGED <<disk, loaded, pids, answered, record, flags, wait, pending, place>>

UserStop ==
    /\ loaded # NULL /\ stops < MaxStops /\ stops' = stops + 1
    /\ loaded' = NULL /\ job' = 0
    /\ UNCHANGED <<disk, pids, answered, record, flags, wait, pending, place, faults, signals>>

-------------------------------------------------------------------------------

\* A first install, or files of an earlier one with or without its job loaded.
Init ==
    /\ file \in [Files -> {"old", NULL}]
    /\ loaded \in {NULL, file["plist"]}
    /\ cand = {} /\ bak = [x \in Files |-> NULL]
    /\ job = 0 /\ pids = 0 /\ answered = {}
    /\ existed = {} /\ wasLoaded = FALSE
    /\ moved = {} /\ switched = {}
    /\ done = FALSE /\ committed = FALSE /\ alive = FALSE /\ lost = FALSE
    /\ pid = 0 /\ saw = FALSE /\ readyPid = 0 /\ pending = FALSE
    /\ pc = "prepare" /\ at = "control"
    /\ faults = 0 /\ signals = 0 /\ stops = 0

Script ==
    \/ Prepare \/ Arm \/ Unload \/ Backup \/ Move \/ Moved \/ Place \/ Placed \/ Load
    \/ List \/ Probe \/ Curl \/ Recheck \/ Pause \/ Confirm \/ Confirmed \/ Clean
    \/ Rollback \/ StopJob \/ Restore \/ Report \/ Reload

Failure ==
    \/ PrepareFails \/ UnloadFails \/ BackupFails \/ RenameFails \/ LoadFails
    \/ StopJobFails \/ RestoreFails \/ ReloadFails

Next == Script \/ Timeout \/ Failure \/ Signal \/ Spawn \/ Answer \/ Die \/ UserStop

\* The script always runs on, and the clock reaches the deadline of the wait.
Spec == Init /\ [][Next]_vars /\ WF_vars(Script) /\ SF_vars(Timeout)

-------------------------------------------------------------------------------
(* Properties *)

\* What prepare found under each name.
Original(x) == IF x \in existed THEN "old" ELSE NULL

DataOK ==
    /\ file \in [Files -> Gens \cup {NULL}] /\ bak \in [Files -> Gens \cup {NULL}]
    /\ cand \subseteq Files /\ existed \subseteq Files
    /\ moved \subseteq Files /\ switched \subseteq Files
    /\ loaded \in Gens \cup {NULL}
    /\ pids \in Nat /\ job \in 0..pids /\ answered \subseteq 1..pids
    /\ pid \in 0..pids /\ readyPid \in 0..pids
    /\ pc \in Pcs /\ at \in Files
    /\ faults \in Nat /\ signals \in Nat /\ stops \in Nat

SwitchesOK ==
    /\ wasLoaded \in BOOLEAN /\ done \in BOOLEAN /\ committed \in BOOLEAN
    /\ alive \in BOOLEAN /\ lost \in BOOLEAN /\ saw \in BOOLEAN /\ pending \in BOOLEAN

\* Every variable stays within its declared shape.
TypeOK == DataOK /\ SwitchesOK /\ moved \subseteq existed

\* Until the commit a file that was there before is there or in its backup,
\* whatever fails and whenever a signal arrives.
OldKept == ~committed => \A x \in existed : "old" \in {file[x], bak[x]}

\* launchd never starts a process of one configuration on the control file of
\* the other, unless an unload failed and the rollback says so.
NeverMixed == ~alive /\ loaded # NULL => (loaded = "new") = (file["control"] = "new")

\* A switch that reports success has switched everything, one that reports a
\* full rollback or a refusal has changed nothing.
AllOrNothing ==
    /\ pc = "committed" => \A x \in Files : file[x] = "new"
    /\ pc \in {"rolledBack", "refused"} =>
          /\ \A x \in Files : file[x] = Original(x) /\ bak[x] = NULL
          /\ stops = 0 => (loaded # NULL) = wasLoaded
          /\ loaded # "new" /\ cand = {}

\* The commit is decided while the process that answered is the one running.
ReadyWhenCommitted ==
    [][pc = "confirm" /\ pc' = "confirmed" => loaded = "new" /\ job \in answered]_vars

\* Every switch ends.
SwitchEnds == <>(pc \in Ended)

===============================================================================
