---------------------------- MODULE BackupRetention ----------------------------
(***************************************************************************)
(* The backup directory (services/backups.py): manual backups in worker    *)
(* threads, the safety backups of restores and resets, and the pruning     *)
(* each of them does after publishing its own file.                        *)
(*                                                                         *)
(* Threads interleave at every file operation.  A restore runs its backup  *)
(* on the event loop itself: meanwhile no request starts, but the threads   *)
(* of earlier requests run, and may only then choose a name.               *)
(***************************************************************************)
EXTENDS Integers, FiniteSetsExt

CONSTANTS
    Workers,     \* POST /settings/backups, each in a thread of its own
    Restorers,   \* restore and reset requests
    NULL,
    Keep,        \* BACKUP_KEEP
    MaxClock,    \* bound: milliseconds
    MaxBackups,  \* bound: manual backups
    MaxRestores, \* bound: restores and resets
    MaxFaults    \* bound: failing copies, prunes, rebuilds and binds

Procs == Workers \cup Restorers
\* Two at least: next to the backup it was asked for, a restore has its own.
ASSUME KeepAssumption == Keep \in Nat \ {0, 1} /\ MaxClock \in Nat \ {0}

VARIABLES
    files,       \* names in the directory
    clock,       \* the wall clock
    pc, target,  \* per request: where it is, the name it publishes
    victims,     \* what its prune will still delete
    selected,    \* the backup a restore was asked for, NULL for a reset
    lock,        \* who is in maintenance
    beside,      \* history: manual backups named since it named its safety backup
    overdue,     \* history: a prune has failed since the last listing
    made, restored, faults  \* counters for the bounds

bounds == <<made, restored, faults>>
vars == <<files, clock, pc, target, victims, selected, lock, beside, overdue, bounds>>

Tags == {"manual", "pre_restore"}
Name == [t: 0..MaxClock, tag: Tags, seq: Nat \ {0}]
ASSUME ProcsAssumption ==
    Workers \cap Restorers = {} /\ NULL \notin Procs /\ NULL \notin Name

\* Directory order: the timestamp, then the reason, then the __sequence.
Older(a, b) ==
    \/ a.t < b.t
    \/ a.t = b.t /\ a.tag = "manual" /\ b.tag = "pre_restore"
    \/ a.t = b.t /\ a.tag = b.tag /\ a.seq < b.seq

Goto(p, l) == pc' = [pc EXCEPT ![p] = l]
Fault == faults < MaxFaults /\ faults' = faults + 1

\* The event loop is free: no restore is in its synchronous backup.
LoopFree == \A r \in Restorers : pc[r] \notin {"copying", "listing", "pruning"}

-------------------------------------------------------------------------------
(* backup_database *)

\* unique_path looks for a name nobody has published yet.
Bug_FromZero(tag) ==
    LET At(s) == [t |-> clock, tag |-> tag, seq |-> s]
    IN At(Min({s \in 0..Cardinality(files) : At(s) \notin files}))

UniquePath(tag) ==
    LET At(s) == [t |-> clock, tag |-> tag, seq |-> s]
    IN At(Min({s \in 1..(Cardinality(files) + 1) : At(s) \notin files}))

\* create_backup hands the work to a thread ...
CreateBackup(w) ==
    /\ pc[w] = "idle" /\ LoopFree
    /\ made < MaxBackups /\ made' = made + 1
    /\ Goto(w, "requested")
    /\ UNCHANGED <<files, clock, target, victims, selected, lock, beside, overdue, restored, faults>>

\* ... which chooses the name, whatever the event loop does by then.
ChooseName(w) ==
    /\ pc[w] = "requested"
    /\ target' = [target EXCEPT ![w] = UniquePath("manual")]
    /\ beside' = beside + 1
    /\ Goto(w, "copying")
    /\ UNCHANGED <<files, clock, victims, selected, lock, overdue, bounds>>

\* The copy is complete and verified: os.replace gives it its name.
Publish(p) ==
    /\ pc[p] = "copying"
    /\ files' = files \cup {target[p]}
    /\ Goto(p, "listing")
    /\ UNCHANGED <<clock, target, victims, selected, lock, beside, overdue, bounds>>

\* An error ends the request, and the maintenance of a restore.
Fail(p) ==
    /\ Fault
    /\ Goto(p, "idle")
    /\ lock' = IF lock = p THEN NULL ELSE lock

\* The directory, the copy or its check fails, the temporary file is removed.
CopyFails(p) ==
    /\ pc[p] \in {"requested", "copying"}
    /\ Fail(p)
    /\ UNCHANGED <<files, clock, target, victims, selected, beside, overdue, made, restored>>

\* prune_backups lists the directory and picks the oldest unprotected names
\* beyond Keep, then unlinks them one by one; a missing one is no error.
Bug_Newest(a, b) == Older(b, a)
PrunedBefore(a, b) == Older(a, b)

Bug_OneTooMany == Cardinality(files) - Keep + 1
Excess == Cardinality(files) - Keep

Protected(p) == IF p \in Restorers THEN {selected[p]} ELSE {}

Bug_KeepsExcess(candidates) == {}
Oldest(candidates) ==
    {n \in candidates : Cardinality({k \in candidates : PrunedBefore(k, n)}) < Excess}

List(p) ==
    /\ pc[p] = "listing"
    /\ victims' = [victims EXCEPT ![p] = Oldest(files \ Protected(p))]
    /\ Goto(p, "pruning")
    /\ overdue' = FALSE
    /\ UNCHANGED <<files, clock, target, selected, lock, beside, bounds>>

Unlink(p) ==
    /\ pc[p] = "pruning"
    /\ \E n \in victims[p] :
          /\ \A k \in victims[p] : k # n => PrunedBefore(n, k)
          /\ files' = files \ {n}
          /\ victims' = [victims EXCEPT ![p] = @ \ {n}]
    /\ UNCHANGED <<clock, pc, target, selected, lock, beside, overdue, bounds>>

Pruned(p) ==
    /\ pc[p] = "pruning" /\ victims[p] = {}
    /\ Goto(p, IF p \in Workers THEN "idle" ELSE "rebuild")
    /\ UNCHANGED <<files, clock, target, victims, selected, lock, beside, overdue, bounds>>

\* The listing or an unlink fails: the backup is published, the request ends in
\* an error, a restore before it touched anything; what is left is left.
PruneFails(p) ==
    /\ pc[p] = "listing" \/ (pc[p] = "pruning" /\ victims[p] # {})
    /\ Fail(p)
    /\ victims' = [victims EXCEPT ![p] = {}]
    /\ overdue' = TRUE
    /\ UNCHANGED <<files, clock, target, selected, beside, made, restored>>

-------------------------------------------------------------------------------
(* restore_backup, reset_database *)

\* The name is looked up before the maintenance barrier is entered.
Select(r, n) ==
    /\ pc[r] = "idle" /\ LoopFree
    /\ restored < MaxRestores /\ restored' = restored + 1
    /\ n \in files \cup {NULL}
    /\ selected' = [selected EXCEPT ![r] = n]
    /\ Goto(r, "queued")
    /\ UNCHANGED <<files, clock, target, victims, lock, beside, overdue, made, faults>>

\* An own name that is not the newest, because restores of this very millisecond
\* were pruned and their numbers are free again, counts as Keep newer ones.
Enter(r) ==
    /\ pc[r] = "queued" /\ lock = NULL
    /\ lock' = r
    /\ LET own == UniquePath("pre_restore") IN
        /\ target' = [target EXCEPT ![r] = own]
        /\ beside' = IF \E k \in files : Older(own, k) THEN Keep ELSE 0
    /\ Goto(r, "copying")
    /\ UNCHANGED <<files, clock, victims, selected, overdue, bounds>>

Leave(r) == lock' = NULL /\ Goto(r, "idle")

\* The restore reads its selected backup and publishes it.
Rebuild(r) ==
    /\ pc[r] = "rebuild" /\ selected[r] \in files \cup {NULL}
    /\ Goto(r, "binding")
    /\ UNCHANGED <<files, clock, target, victims, selected, lock, beside, overdue, bounds>>

\* It is gone, or a step of the chain fails: live is as it was.
RebuildFails(r) ==
    /\ pc[r] = "rebuild"
    /\ IF selected[r] \in files \cup {NULL} THEN Fault ELSE UNCHANGED faults
    /\ Leave(r)
    /\ UNCHANGED <<files, clock, target, victims, selected, beside, overdue, made, restored>>

Bind(r) ==
    /\ pc[r] = "binding"
    /\ Leave(r)
    /\ UNCHANGED <<files, clock, target, victims, selected, beside, overdue, bounds>>

\* The old content must now come from the safety backup.
BindFails(r) ==
    /\ pc[r] = "binding"
    /\ Fault
    /\ Goto(r, "recover")
    /\ UNCHANGED <<files, clock, target, victims, selected, lock, beside, overdue, made, restored>>

Recover(r) ==
    /\ pc[r] = "recover"
    /\ Leave(r)
    /\ UNCHANGED <<files, clock, target, victims, selected, beside, overdue, bounds>>

Tick ==
    /\ clock < MaxClock /\ clock' = clock + 1
    /\ UNCHANGED <<files, pc, target, victims, selected, lock, beside, overdue, bounds>>

-------------------------------------------------------------------------------

\* Some backups of earlier days may be there; the clock only goes forward.
Init ==
    /\ \E n \in 0..Keep : files = [t: {0}, tag: {"manual"}, seq: 1..n]
    /\ clock = 1
    /\ pc = [p \in Procs |-> "idle"]
    /\ target = [p \in Procs |-> NULL]
    /\ victims = [p \in Procs |-> {}]
    /\ selected = [p \in Procs |-> NULL]
    /\ lock = NULL
    /\ beside = 0 /\ overdue = FALSE
    /\ made = 0 /\ restored = 0 /\ faults = 0

Next ==
    \/ \E w \in Workers : CreateBackup(w) \/ ChooseName(w)
    \/ \E p \in Procs :
          \/ Publish(p) \/ CopyFails(p)
          \/ List(p) \/ Unlink(p) \/ Pruned(p) \/ PruneFails(p)
    \/ \E r \in Restorers :
          \/ \E n \in files \cup {NULL} : Select(r, n)
          \/ Enter(r) \/ Rebuild(r) \/ RebuildFails(r) \/ Bind(r) \/ BindFails(r) \/ Recover(r)
    \/ Tick

Spec == Init /\ [][Next]_vars

-------------------------------------------------------------------------------
(* Properties *)

\* Every variable stays within its declared shape.
TypeOK ==
    /\ files \subseteq Name
    /\ clock \in 0..MaxClock
    /\ pc \in [Procs -> {"idle", "requested", "queued", "copying", "listing", "pruning",
                         "rebuild", "binding", "recover"}]
    /\ target \in [Procs -> Name \cup {NULL}]
    /\ victims \in [Procs -> SUBSET Name]
    /\ selected \in [Procs -> Name \cup {NULL}]
    /\ lock \in Restorers \cup {NULL}
    /\ overdue \in BOOLEAN
    /\ beside \in Nat /\ made \in Nat /\ restored \in Nat /\ faults \in Nat

\* However prunes overlap, a file is only deleted when Keep newer ones remain,
\* or one less after a restore: the name that restore protects makes its own
\* prune reach one further, even when another prune deletes that name meanwhile.
OnlyExcessPruned ==
    [][\A n \in files \ files' :
          Cardinality({k \in files' : Older(n, k)}) >= IF restored = 0 THEN Keep ELSE Keep - 1]_vars

\* ... and once every request has finished no more than Keep are left.  A prune
\* that fails leaves its excess to the next listing, which makes up for it.
Bounded ==
    (\A p \in Procs : pc[p] = "idle") /\ ~overdue => Cardinality(files) <= Keep

\* How many names must follow a safety backup before a prune may take it: one
\* less if the restore protects another name from its own prune.
Reach(r) == IF selected[r] = NULL THEN Keep ELSE Keep - 1

\* As long as fewer manual backups than that were named after its safety backup,
\* a restore or reset has it whenever its recovery may need it: threads that
\* were asked earlier may choose a later name while it copies, lists and prunes.
SafetyKept ==
    \A r \in Restorers :
        pc[r] \in {"rebuild", "binding", "recover"} /\ beside < Reach(r)
            => target[r] \in files

===============================================================================
