-------------------------- MODULE PublishChainProofs --------------------------
(* What is proved of PublishChain for a single process, any number of steps  *)
(* per release and any bounds.                                               *)
EXTENDS PublishChain, TLAPS

(***************************************************************************)
(* The inductive invariant.  The data of the live file is right because    *)
(* whatever is built is built from the right data (Sourced), because the   *)
(* staging file that is renamed holds exactly that and its log has been    *)
(* merged (Staged), and because the log of live is empty when main is      *)
(* replaced.  Sourced follows an operation from its start to its recovery. *)
(***************************************************************************)
Wanted(i) == IF source[i] = NULL THEN 0 ELSE source[i].data

\* The one process, wherever it is.
SourcedAt(i) ==
    /\ pc[i] = "backup" =>
          \/ op[i] = "legacy" /\ main = NULL /\ legacy # NULL /\ source[i] = legacy
          \/ op[i] = "live" /\ main # NULL
          \/ op[i] \in {"restore", "reset"} /\ main # NULL /\ truth = was
    /\ pc[i] \in BuildPcs =>
          \/ op[i] \in {"legacy", "live"} /\ source[i] # NULL /\ source[i].data = truth
          \/ op[i] = "fresh" /\ source[i] = NULL /\ truth = 0
          \/ /\ op[i] \in {"restore", "reset"} /\ main # NULL /\ truth = was
             /\ safety[i] # NULL /\ safety[i].data = was
          \/ op[i] = "recover" /\ main # NULL /\ source[i] # NULL /\ source[i].data = was
    /\ pc[i] = "bind" =>
          /\ main # NULL
          /\ op[i] \in {"restore", "reset"} => safety[i] # NULL /\ safety[i].data = was
    /\ pc[i] = "abort" /\ op[i] \notin StartOps => main # NULL
    /\ pc[i] \in {"serving", "broken"} => main # NULL
    /\ pc[i] = "serving" => handle[i] = inode
    /\ pc[i] = "backup" /\ op[i] = "restore" => handle[i] = inode

StagedAt(i) ==
    /\ pc[i] = "discardWal" => staged = NULL
    /\ pc[i] = "fill" => staged = NULL /\ stagedWal = NULL
    /\ pc[i] = "upgrade" => /\ staged # NULL /\ staged.data = Wanted(i)
                            /\ stagedWal # NULL => stagedWal.data = Wanted(i)
    /\ pc[i] \in {"checkpoint", "replace"} =>
          staged # NULL /\ staged.data = Wanted(i) /\ stagedWal = NULL
    /\ pc[i] = "replace" => wal = NULL

Sourced == \A i \in Instances : SourcedAt(i)
Staged == \A i \in Instances : StagedAt(i)

FreshIsZero == main = NULL /\ legacy = NULL => truth = 0

Inv == TypeOK /\ NothingLost /\ Sourced /\ Staged /\ FreshIsZero

\* The results are about a data directory that one process uses.
OneProcess == \A i, j \in Instances : i = j

USE NullAssumption DEF StartOps, BuildPcs, Pcs, Content, Maybe

LEMMA FreshContent == Fresh \in Content /\ Fresh.data = 0 /\ Fresh # NULL
BY DEF Fresh

LEMMA InitInv == Init => Inv
<1> SUFFICES ASSUME Init PROVE Inv OBVIOUS
<1>1. \A d, l \in Nat : [data |-> d, level |-> l] \in Content OBVIOUS
<1>2. main \in Maybe /\ wal \in Maybe /\ legacy \in Maybe BY <1>1 DEF Init
<1>3. truth \in Nat BY <1>2 DEF Init, Live, Logical
<1>4. TypeOK BY <1>2, <1>3, StepsAssumption DEF Init, TypeOK
<1>5. NothingLost BY DEF Init, NothingLost, Live, Logical
<1>6. Sourced BY DEF Init, Sourced, SourcedAt
<1>7. Staged BY DEF Init, Staged, StagedAt
<1>8. FreshIsZero BY DEF Init, FreshIsZero
<1> QED BY <1>4, <1>5, <1>6, <1>7, <1>8 DEF Inv

LEMMA StepInv ==
    ASSUME OneProcess, Inv, NEW i \in Instances,
           \/ Boot(i) \/ Run(i)
           \/ \E o \in {"restore", "reset"} : \E b \in backups \cup {NULL} : Begin(i, o, b)
           \/ Commit(i) \/ AutoCheckpoint(i) \/ Shutdown(i) \/ Crash(i)
    PROVE  Inv'
<1> USE DEF Inv
<1>0. /\ SourcedAt(i) /\ StagedAt(i)
      /\ SourcedAt(i)' => Sourced'
      /\ StagedAt(i)' => Staged'
  BY DEF OneProcess, Sourced, Staged
<1>1. CASE Boot(i)
  <2>1. TypeOK'
    BY <1>1 DEF Boot, Goto, NothingPending, Live, Logical, TypeOK, liveVars, stagingVars,
       history, bounds
  <2>2. NothingLost'
    BY <1>0, <1>1 DEF Boot, Goto, NothingPending, Live, Logical, NothingLost, SourcedAt,
       StagedAt, Wanted, TypeOK, liveVars, stagingVars, history, bounds
  <2>3. SourcedAt(i)'
    BY <1>0, <1>1 DEF Boot, Goto, NothingPending, Live, Logical, NothingLost, FreshIsZero,
       SourcedAt, TypeOK, liveVars, stagingVars, history, bounds
  <2>4. StagedAt(i)'
    BY <1>0, <1>1 DEF Boot, Goto, NothingPending, Live, Logical, StagedAt, Wanted, TypeOK,
       liveVars, stagingVars, history, bounds
  <2>5. FreshIsZero'
    BY <1>0, <1>1 DEF Boot, Goto, NothingPending, Live, Logical, FreshIsZero, SourcedAt, TypeOK,
       liveVars, stagingVars, history, bounds
  <2> QED BY <1>0, <2>1, <2>2, <2>3, <2>4, <2>5
<1>2. CASE Backup(i)
  <2>0. source[i] # NULL \/ main # NULL
    BY <1>0, <1>2 DEF Backup, SourcedAt
  <2>0a. (op[i] = "legacy" => legacy # NULL) /\ (op[i] # "legacy" => main # NULL)
    BY <1>0, <1>2 DEF Backup, SourcedAt
  <2>0b. backups' \subseteq Content /\ (op[i] # "legacy" => Live \in Content)
    BY <1>2, <2>0a DEF Backup, BackedUp, Live, Logical, TypeOK
  <2>0c. source' \in [Instances -> Maybe] /\ safety' \in [Instances -> Maybe]
    BY <1>2, <2>0a, <2>0b DEF Backup, TypeOK
  <2>1. TypeOK'
    BY <1>2, <2>0b, <2>0c DEF Backup, Goto, TypeOK, liveVars, stagingVars, history, bounds
  <2>2. NothingLost'
    BY <1>0, <1>2 DEF Backup, Goto, BackedUp, Live, Logical, NothingLost, SourcedAt, StagedAt,
       Wanted, TypeOK, liveVars, stagingVars, history, bounds
  <2>3. SourcedAt(i)'
    BY <1>0, <1>2 DEF Backup, Goto, BackedUp, Live, Logical, NothingLost, FreshIsZero,
       SourcedAt, TypeOK, liveVars, stagingVars, history, bounds
  <2>4. StagedAt(i)'
    BY <1>0, <1>2 DEF Backup, Goto, BackedUp, Live, Logical, StagedAt, Wanted, TypeOK, liveVars,
       stagingVars, history, bounds
  <2>5. FreshIsZero'
    BY <1>0, <1>2 DEF Backup, Goto, BackedUp, Live, Logical, FreshIsZero, SourcedAt, TypeOK,
       liveVars, stagingVars, history, bounds
  <2> QED BY <1>0, <2>1, <2>2, <2>3, <2>4, <2>5
<1>3. CASE BackupFails(i)
  <2>1. TypeOK'
    BY <1>3 DEF BackupFails, Goto, Fault, AfterBackupFails, TypeOK, liveVars, stagingVars,
       procVars, history
  <2>2. NothingLost'
    BY <1>0, <1>3 DEF BackupFails, Goto, Fault, AfterBackupFails, NothingLost, SourcedAt,
       StagedAt, Wanted, TypeOK, Live, Logical, liveVars, stagingVars, procVars, history
  <2>3. SourcedAt(i)'
    BY <1>0, <1>3 DEF BackupFails, Goto, Fault, AfterBackupFails, NothingLost, FreshIsZero,
       SourcedAt, TypeOK, Live, Logical, liveVars, stagingVars, procVars, history
  <2>4. StagedAt(i)'
    BY <1>0, <1>3 DEF BackupFails, Goto, Fault, AfterBackupFails, StagedAt, Wanted, TypeOK,
       liveVars, stagingVars, procVars, history
  <2>5. FreshIsZero'
    BY <1>0, <1>3 DEF BackupFails, Goto, Fault, AfterBackupFails, FreshIsZero, SourcedAt,
       TypeOK, liveVars, stagingVars, procVars, history
  <2> QED BY <1>0, <2>1, <2>2, <2>3, <2>4, <2>5
<1>4. CASE Discard(i)
  <2>1. TypeOK' BY <1>4 DEF Discard, Goto, TypeOK, liveVars, procVars, history, bounds
  <2>2. NothingLost'
    BY <1>0, <1>4 DEF Discard, Goto, NothingLost, SourcedAt, StagedAt, Wanted, TypeOK, Live,
       Logical, liveVars, procVars, history, bounds
  <2>3. SourcedAt(i)'
    BY <1>0, <1>4 DEF Discard, Goto, NothingLost, FreshIsZero, SourcedAt, TypeOK, Live, Logical,
       liveVars, procVars, history, bounds
  <2>4. StagedAt(i)'
    BY <1>0, <1>4 DEF Discard, Goto, StagedAt, Wanted, TypeOK, liveVars, procVars, history,
       bounds
  <2>5. FreshIsZero'
    BY <1>0, <1>4 DEF Discard, Goto, FreshIsZero, SourcedAt, TypeOK, liveVars, procVars,
       history, bounds
  <2> QED BY <1>0, <2>1, <2>2, <2>3, <2>4, <2>5
<1>5. CASE DiscardWal(i)
  <2>1. TypeOK' BY <1>5 DEF DiscardWal, Goto, NoWal, TypeOK, liveVars, procVars, history, bounds
  <2>2. NothingLost'
    BY <1>0, <1>5 DEF DiscardWal, Goto, NoWal, NothingLost, SourcedAt, StagedAt, Wanted, TypeOK,
       Live, Logical, liveVars, procVars, history, bounds
  <2>3. SourcedAt(i)'
    BY <1>0, <1>5 DEF DiscardWal, Goto, NoWal, NothingLost, FreshIsZero, SourcedAt, TypeOK,
       Live, Logical, liveVars, procVars, history, bounds
  <2>4. StagedAt(i)'
    BY <1>0, <1>5 DEF DiscardWal, Goto, NoWal, StagedAt, Wanted, TypeOK, liveVars, procVars,
       history, bounds
  <2>5. FreshIsZero'
    BY <1>0, <1>5 DEF DiscardWal, Goto, NoWal, FreshIsZero, SourcedAt, TypeOK, liveVars,
       procVars, history, bounds
  <2> QED BY <1>0, <2>1, <2>2, <2>3, <2>4, <2>5
<1>6. CASE Fill(i)
  <2>1. TypeOK' BY <1>6, FreshContent DEF Fill, Goto, TypeOK, liveVars, procVars, history, bounds
  <2>2. NothingLost'
    BY <1>0, <1>6, FreshContent DEF Fill, Goto, NothingLost, SourcedAt, StagedAt, Wanted,
       TypeOK, Live, Logical, liveVars, procVars, history, bounds
  <2>3. SourcedAt(i)'
    BY <1>0, <1>6, FreshContent DEF Fill, Goto, NothingLost, FreshIsZero, SourcedAt, TypeOK,
       Live, Logical, liveVars, procVars, history, bounds
  <2>4. StagedAt(i)'
    BY <1>0, <1>6, FreshContent DEF Fill, Goto, StagedAt, Wanted, TypeOK, liveVars, procVars,
       history, bounds
  <2>5. FreshIsZero'
    BY <1>0, <1>6, FreshContent DEF Fill, Goto, FreshIsZero, SourcedAt, TypeOK, liveVars,
       procVars, history, bounds
  <2> QED BY <1>0, <2>1, <2>2, <2>3, <2>4, <2>5
<1>7. CASE Upgrade(i)
  <2>1. TypeOK'
    BY <1>7 DEF Upgrade, Upgraded, Staging, Logical, TypeOK, liveVars, procVars, history, bounds
  <2>2. NothingLost'
    BY <1>0, <1>7 DEF Upgrade, Upgraded, Staging, Logical, NothingLost, SourcedAt, StagedAt,
       Wanted, TypeOK, Live, liveVars, procVars, history, bounds
  <2>3. SourcedAt(i)'
    BY <1>0, <1>7 DEF Upgrade, Upgraded, Staging, Logical, NothingLost, FreshIsZero, SourcedAt,
       TypeOK, Live, liveVars, procVars, history, bounds
  <2>4. StagedAt(i)'
    BY <1>0, <1>7 DEF Upgrade, Upgraded, Staging, Logical, StagedAt, Wanted, TypeOK, liveVars,
       procVars, history, bounds
  <2>5. FreshIsZero'
    BY <1>0, <1>7 DEF Upgrade, Upgraded, Staging, Logical, FreshIsZero, SourcedAt, TypeOK,
       liveVars, procVars, history, bounds
  <2> QED BY <1>0, <2>1, <2>2, <2>3, <2>4, <2>5
<1>8. CASE Collapse(i)
  <2>1. TypeOK'
    BY <1>8 DEF Collapse, Goto, Upgraded, Staging, Logical, TypeOK, liveVars, procVars, history,
       bounds
  <2>2. NothingLost'
    BY <1>0, <1>8 DEF Collapse, Goto, Upgraded, Staging, Logical, NothingLost, SourcedAt,
       StagedAt, Wanted, TypeOK, Live, liveVars, procVars, history, bounds
  <2>3. SourcedAt(i)'
    BY <1>0, <1>8 DEF Collapse, Goto, Upgraded, Staging, Logical, NothingLost, FreshIsZero,
       SourcedAt, TypeOK, Live, liveVars, procVars, history, bounds
  <2>4. StagedAt(i)'
    BY <1>0, <1>8 DEF Collapse, Goto, Upgraded, Staging, Logical, StagedAt, Wanted, TypeOK,
       liveVars, procVars, history, bounds
  <2>5. FreshIsZero'
    BY <1>0, <1>8 DEF Collapse, Goto, Upgraded, Staging, Logical, FreshIsZero, SourcedAt,
       TypeOK, liveVars, procVars, history, bounds
  <2> QED BY <1>0, <2>1, <2>2, <2>3, <2>4, <2>5
<1>9. CASE Checkpoint(i)
  <2>1. TypeOK'
    BY <1>9 DEF Checkpoint, Goto, Merged, Live, Logical, TypeOK, stagingVars, procVars, history,
       bounds
  <2>2. NothingLost'
    BY <1>0, <1>9 DEF Checkpoint, Goto, Merged, Live, Logical, NothingLost, SourcedAt, StagedAt,
       Wanted, TypeOK, stagingVars, procVars, history, bounds
  <2>3. SourcedAt(i)'
    BY <1>0, <1>9 DEF Checkpoint, Goto, Merged, Live, Logical, NothingLost, FreshIsZero,
       SourcedAt, TypeOK, stagingVars, procVars, history, bounds
  <2>4. StagedAt(i)'
    BY <1>0, <1>9 DEF Checkpoint, Goto, Merged, Live, Logical, StagedAt, Wanted, TypeOK,
       stagingVars, procVars, history, bounds
  <2>5. FreshIsZero'
    BY <1>0, <1>9 DEF Checkpoint, Goto, Merged, Live, Logical, FreshIsZero, SourcedAt, TypeOK,
       stagingVars, procVars, history, bounds
  <2> QED BY <1>0, <2>1, <2>2, <2>3, <2>4, <2>5
<1>10. CASE CheckpointBusy(i)
  <2>1. TypeOK'
    BY <1>10 DEF CheckpointBusy, Goto, TypeOK, liveVars, stagingVars, procVars, history, bounds
  <2>2. NothingLost'
    BY <1>0, <1>10 DEF CheckpointBusy, Goto, NothingLost, SourcedAt, StagedAt, Wanted, TypeOK,
       Live, Logical, liveVars, stagingVars, procVars, history, bounds
  <2>3. SourcedAt(i)'
    BY <1>0, <1>10 DEF CheckpointBusy, Goto, NothingLost, FreshIsZero, SourcedAt, TypeOK, Live,
       Logical, liveVars, stagingVars, procVars, history, bounds
  <2>4. StagedAt(i)'
    BY <1>0, <1>10 DEF CheckpointBusy, Goto, StagedAt, Wanted, TypeOK, liveVars, stagingVars,
       procVars, history, bounds
  <2>5. FreshIsZero'
    BY <1>0, <1>10 DEF CheckpointBusy, Goto, FreshIsZero, SourcedAt, TypeOK, liveVars,
       stagingVars, procVars, history, bounds
  <2> QED BY <1>0, <2>1, <2>2, <2>3, <2>4, <2>5
<1>11. CASE Replace(i)
  <2>1. TypeOK' BY <1>11 DEF Replace, Goto, TypeOK, procVars, bounds
  <2>2. NothingLost'
    BY <1>0, <1>11 DEF Replace, Goto, NothingLost, SourcedAt, StagedAt, Wanted, TypeOK, Live,
       Logical, procVars, bounds
  <2>3. SourcedAt(i)'
    BY <1>0, <1>11 DEF Replace, Goto, NothingLost, FreshIsZero, SourcedAt, TypeOK, Live,
       Logical, procVars, bounds
  <2>4. StagedAt(i)' BY <1>0, <1>11 DEF Replace, Goto, StagedAt, Wanted, TypeOK, procVars, bounds
  <2>5. FreshIsZero'
    BY <1>0, <1>11 DEF Replace, Goto, FreshIsZero, SourcedAt, TypeOK, procVars, bounds
  <2> QED BY <1>0, <2>1, <2>2, <2>3, <2>4, <2>5
<1>12. CASE StepFails(i)
  <2>1. TypeOK'
    BY <1>12 DEF StepFails, Goto, Fault, TypeOK, liveVars, stagingVars, procVars, history
  <2>2. NothingLost'
    BY <1>0, <1>12 DEF StepFails, Goto, Fault, NothingLost, SourcedAt, StagedAt, Wanted, TypeOK,
       Live, Logical, liveVars, stagingVars, procVars, history
  <2>3. SourcedAt(i)'
    BY <1>0, <1>12 DEF StepFails, Goto, Fault, NothingLost, FreshIsZero, SourcedAt, TypeOK,
       Live, Logical, liveVars, stagingVars, procVars, history
  <2>4. StagedAt(i)'
    BY <1>0, <1>12 DEF StepFails, Goto, Fault, StagedAt, Wanted, TypeOK, liveVars, stagingVars,
       procVars, history
  <2>5. FreshIsZero'
    BY <1>0, <1>12 DEF StepFails, Goto, Fault, FreshIsZero, SourcedAt, TypeOK, liveVars,
       stagingVars, procVars, history
  <2> QED BY <1>0, <2>1, <2>2, <2>3, <2>4, <2>5
<1>13. CASE Abort(i)
  <2>1. TypeOK' BY <1>13 DEF Abort, Goto, AfterAbort, TypeOK, liveVars, history, bounds
  <2>2. NothingLost'
    BY <1>0, <1>13 DEF Abort, Goto, AfterAbort, NothingLost, SourcedAt, StagedAt, Wanted,
       TypeOK, Live, Logical, liveVars, history, bounds
  <2>3. SourcedAt(i)'
    BY <1>0, <1>13 DEF Abort, Goto, AfterAbort, NothingLost, FreshIsZero, SourcedAt, TypeOK,
       Live, Logical, liveVars, history, bounds
  <2>4. StagedAt(i)'
    BY <1>0, <1>13 DEF Abort, Goto, AfterAbort, StagedAt, Wanted, TypeOK, liveVars, history,
       bounds
  <2>5. FreshIsZero'
    BY <1>0, <1>13 DEF Abort, Goto, AfterAbort, FreshIsZero, SourcedAt, TypeOK, liveVars,
       history, bounds
  <2> QED BY <1>0, <2>1, <2>2, <2>3, <2>4, <2>5
<1>14. CASE Bind(i)
  <2>1. TypeOK' BY <1>14 DEF Bind, Goto, TypeOK, liveVars, stagingVars, history, bounds
  <2>2. NothingLost'
    BY <1>0, <1>14 DEF Bind, Goto, NothingLost, SourcedAt, StagedAt, Wanted, TypeOK, Live,
       Logical, liveVars, stagingVars, history, bounds
  <2>3. SourcedAt(i)'
    BY <1>0, <1>14 DEF Bind, Goto, NothingLost, FreshIsZero, SourcedAt, TypeOK, Live, Logical,
       liveVars, stagingVars, history, bounds
  <2>4. StagedAt(i)'
    BY <1>0, <1>14 DEF Bind, Goto, StagedAt, Wanted, TypeOK, liveVars, stagingVars, history,
       bounds
  <2>5. FreshIsZero'
    BY <1>0, <1>14 DEF Bind, Goto, FreshIsZero, SourcedAt, TypeOK, liveVars, stagingVars,
       history, bounds
  <2> QED BY <1>0, <2>1, <2>2, <2>3, <2>4, <2>5
<1>15. CASE BindFails(i)
  <2>1. TypeOK'
    BY <1>15 DEF BindFails, Goto, Fault, RecoverySource, TypeOK, liveVars, stagingVars, history
  <2>2. NothingLost'
    BY <1>0, <1>15 DEF BindFails, Goto, Fault, RecoverySource, NothingLost, SourcedAt, StagedAt,
       Wanted, TypeOK, Live, Logical, liveVars, stagingVars, history
  <2>3. SourcedAt(i)'
    BY <1>0, <1>15 DEF BindFails, Goto, Fault, RecoverySource, NothingLost, FreshIsZero,
       SourcedAt, TypeOK, Live, Logical, liveVars, stagingVars, history
  <2>4. StagedAt(i)'
    BY <1>0, <1>15 DEF BindFails, Goto, Fault, RecoverySource, StagedAt, Wanted, TypeOK,
       liveVars, stagingVars, history
  <2>5. FreshIsZero'
    BY <1>0, <1>15 DEF BindFails, Goto, Fault, RecoverySource, FreshIsZero, SourcedAt, TypeOK,
       liveVars, stagingVars, history
  <2> QED BY <1>0, <2>1, <2>2, <2>3, <2>4, <2>5
<1>16. CASE Commit(i)
  <2>0. main # NULL /\ lastData' \in Nat BY <1>0, <1>16 DEF Commit, SourcedAt, TypeOK
  <2>0a. Live \in Content BY <2>0 DEF Live, Logical, TypeOK
  <2>0b. wal' \in Maybe BY <1>16, <2>0, <2>0a DEF Commit, TypeOK
  <2>1. TypeOK' BY <1>16, <2>0, <2>0b DEF Commit, TypeOK, stagingVars, procVars
  <2>2. NothingLost'
    BY <1>0, <1>16 DEF Commit, Live, Logical, NothingLost, SourcedAt, StagedAt, Wanted, TypeOK,
       stagingVars, procVars
  <2>3. SourcedAt(i)'
    BY <1>0, <1>16 DEF Commit, Live, Logical, NothingLost, FreshIsZero, SourcedAt, TypeOK,
       stagingVars, procVars
  <2>4. StagedAt(i)'
    BY <1>0, <1>16 DEF Commit, Live, Logical, StagedAt, Wanted, TypeOK, stagingVars, procVars
  <2>5. FreshIsZero'
    BY <1>0, <1>16 DEF Commit, Live, Logical, FreshIsZero, SourcedAt, TypeOK, stagingVars,
       procVars
  <2> QED BY <1>0, <2>1, <2>2, <2>3, <2>4, <2>5
<1>17. CASE AutoCheckpoint(i)
  <2>1. TypeOK'
    BY <1>17 DEF AutoCheckpoint, Merged, Live, Logical, TypeOK, stagingVars, procVars, history,
       bounds
  <2>2. NothingLost'
    BY <1>0, <1>17 DEF AutoCheckpoint, Merged, Live, Logical, NothingLost, SourcedAt, StagedAt,
       Wanted, TypeOK, stagingVars, procVars, history, bounds
  <2>3. SourcedAt(i)'
    BY <1>0, <1>17 DEF AutoCheckpoint, Merged, Live, Logical, NothingLost, FreshIsZero,
       SourcedAt, TypeOK, stagingVars, procVars, history, bounds
  <2>4. StagedAt(i)'
    BY <1>0, <1>17 DEF AutoCheckpoint, Merged, Live, Logical, StagedAt, Wanted, TypeOK,
       stagingVars, procVars, history, bounds
  <2>5. FreshIsZero'
    BY <1>0, <1>17 DEF AutoCheckpoint, Merged, Live, Logical, FreshIsZero, SourcedAt, TypeOK,
       stagingVars, procVars, history, bounds
  <2> QED BY <1>0, <2>1, <2>2, <2>3, <2>4, <2>5
<1>18. CASE Shutdown(i)
  <2>1. TypeOK' BY <1>18 DEF Shutdown, Goto, TypeOK, liveVars, stagingVars, history, bounds
  <2>2. NothingLost'
    BY <1>0, <1>18 DEF Shutdown, Goto, NothingLost, SourcedAt, StagedAt, Wanted, TypeOK, Live,
       Logical, liveVars, stagingVars, history, bounds
  <2>3. SourcedAt(i)'
    BY <1>0, <1>18 DEF Shutdown, Goto, NothingLost, FreshIsZero, SourcedAt, TypeOK, Live,
       Logical, liveVars, stagingVars, history, bounds
  <2>4. StagedAt(i)'
    BY <1>0, <1>18 DEF Shutdown, Goto, StagedAt, Wanted, TypeOK, liveVars, stagingVars, history,
       bounds
  <2>5. FreshIsZero'
    BY <1>0, <1>18 DEF Shutdown, Goto, FreshIsZero, SourcedAt, TypeOK, liveVars, stagingVars,
       history, bounds
  <2> QED BY <1>0, <2>1, <2>2, <2>3, <2>4, <2>5
<1>19. CASE Crash(i)
  <2>1. TypeOK' BY <1>19 DEF Crash, Goto, TypeOK, liveVars, stagingVars, history
  <2>2. NothingLost'
    BY <1>0, <1>19 DEF Crash, Goto, NothingLost, SourcedAt, StagedAt, Wanted, TypeOK, Live,
       Logical, liveVars, stagingVars, history
  <2>3. SourcedAt(i)'
    BY <1>0, <1>19 DEF Crash, Goto, NothingLost, FreshIsZero, SourcedAt, TypeOK, Live, Logical,
       liveVars, stagingVars, history
  <2>4. StagedAt(i)'
    BY <1>0, <1>19 DEF Crash, Goto, StagedAt, Wanted, TypeOK, liveVars, stagingVars, history
  <2>5. FreshIsZero'
    BY <1>0, <1>19 DEF Crash, Goto, FreshIsZero, SourcedAt, TypeOK, liveVars, stagingVars,
       history
  <2> QED BY <1>0, <2>1, <2>2, <2>3, <2>4, <2>5
<1>20. ASSUME NEW o \in {"restore", "reset"}, NEW b \in backups \cup {NULL}, Begin(i, o, b)
      PROVE  Inv'
  <2>1. TypeOK' BY <1>20 DEF Begin, Goto, TypeOK, liveVars, stagingVars
  <2>2. NothingLost'
    BY <1>0, <1>20 DEF Begin, Goto, NothingLost, SourcedAt, StagedAt, Wanted, TypeOK, Live,
       Logical, liveVars, stagingVars
  <2>3. SourcedAt(i)'
    BY <1>0, <1>20 DEF Begin, Goto, NothingLost, FreshIsZero, SourcedAt, TypeOK, Live, Logical,
       liveVars, stagingVars
  <2>4. StagedAt(i)'
    BY <1>0, <1>20 DEF Begin, Goto, StagedAt, Wanted, TypeOK, liveVars, stagingVars
  <2>5. FreshIsZero'
    BY <1>0, <1>20 DEF Begin, Goto, FreshIsZero, SourcedAt, TypeOK, liveVars, stagingVars
  <2> QED BY <1>0, <2>1, <2>2, <2>3, <2>4, <2>5
<1> QED BY <1>1, <1>2, <1>3, <1>4, <1>5, <1>6, <1>7, <1>8, <1>9, <1>10, <1>11, <1>12, <1>13, <1>14, <1>15, <1>16, <1>17, <1>18, <1>19, <1>20 DEF Run

LEMMA NextInv ==
    ASSUME OneProcess, Inv, [Next]_vars
    PROVE  Inv'
<1>1. CASE \E i \in Instances :
               \/ Boot(i) \/ Run(i)
               \/ \E o \in {"restore", "reset"} : \E b \in backups \cup {NULL} : Begin(i, o, b)
               \/ Commit(i) \/ AutoCheckpoint(i) \/ Shutdown(i) \/ Crash(i)
  BY <1>1, StepInv
<1>2. CASE ReaderOpens
  <2>1. TypeOK' BY <1>2 DEF Inv, ReaderOpens, TypeOK, liveVars, stagingVars, procVars, history
  <2>2. NothingLost' /\ FreshIsZero'
    BY <1>2 DEF Inv, ReaderOpens, NothingLost, FreshIsZero, Live, Logical, liveVars, stagingVars,
       procVars, history
  <2>3. Sourced' /\ Staged'
    BY <1>2 DEF Inv, ReaderOpens, Sourced, SourcedAt, Staged, StagedAt, Wanted, liveVars,
       stagingVars, procVars, history
  <2> QED BY <2>1, <2>2, <2>3 DEF Inv
<1>3. CASE ReaderCloses
  <2>1. TypeOK'
    BY <1>3 DEF Inv, ReaderCloses, TypeOK, liveVars, stagingVars, procVars, history, bounds
  <2>2. NothingLost' /\ FreshIsZero'
    BY <1>3 DEF Inv, ReaderCloses, NothingLost, FreshIsZero, Live, Logical, liveVars, stagingVars,
       procVars, history
  <2>3. Sourced' /\ Staged'
    BY <1>3 DEF Inv, ReaderCloses, Sourced, SourcedAt, Staged, StagedAt, Wanted, liveVars,
       stagingVars, procVars, history
  <2> QED BY <2>1, <2>2, <2>3 DEF Inv
<1>4. CASE Release
  <2>1. TypeOK'
    BY <1>4, StepsAssumption DEF Inv, Release, TypeOK, liveVars, stagingVars, procVars, history, bounds
  <2>2. NothingLost' /\ FreshIsZero'
    BY <1>4 DEF Inv, Release, NothingLost, FreshIsZero, Live, Logical, liveVars, stagingVars,
       procVars, history
  <2>3. Sourced' /\ Staged'
    BY <1>4 DEF Inv, Release, Sourced, SourcedAt, Staged, StagedAt, Wanted, liveVars,
       stagingVars, procVars, history
  <2> QED BY <2>1, <2>2, <2>3 DEF Inv
<1>5. CASE UNCHANGED vars
  <2>1. TypeOK'
    BY <1>5 DEF Inv, vars, TypeOK, liveVars, stagingVars, procVars, history, bounds
  <2>2. NothingLost' /\ FreshIsZero'
    BY <1>5 DEF Inv, vars, NothingLost, FreshIsZero, Live, Logical, liveVars, stagingVars,
       procVars, history
  <2>3. Sourced' /\ Staged'
    BY <1>5 DEF Inv, vars, Sourced, SourcedAt, Staged, StagedAt, Wanted, liveVars,
       stagingVars, procVars, history
  <2> QED BY <2>1, <2>2, <2>3 DEF Inv
<1> QED BY <1>1, <1>2, <1>3, <1>4, <1>5 DEF Next

LEMMA AlwaysInv == ASSUME OneProcess PROVE Spec => []Inv
<1>1. Inv /\ [Next]_vars => Inv' BY NextInv
<1> QED BY InitInv, <1>1, PTL DEF Spec

\* No variable ever leaves its shape.
THEOREM TypeCorrect == ASSUME OneProcess PROVE Spec => []TypeOK
<1>1. Inv => TypeOK BY DEF Inv
<1> QED BY <1>1, AlwaysInv, PTL

\* Whatever fails, is busy or dies in a start, restore, reset or recovery,
\* the live file and its log say what was committed last (NothingLost).
THEOREM CommittedDataKept == ASSUME OneProcess PROVE Spec => []NothingLost
<1>1. Inv => NothingLost BY DEF Inv
<1> QED BY <1>1, AlwaysInv, PTL

-------------------------------------------------------------------------------
(* Levels and backups *)

Whole(n) == \E k \in Nat : n = k * Steps
Below(c, n) == c # NULL => c.level <= n

\* Nothing is above the target of the process, what is staged reaches it before
\* it goes live, and what is live is at a boundary: that of the target as soon
\* as the process has an engine on it or has had one.
LevelsAt(i) ==
    /\ target[i] <= head /\ Whole(target[i])
    /\ Below(source[i], target[i]) /\ Below(safety[i], target[i]) /\ Below(legacy, target[i])
    /\ \A b \in backups : b.level <= target[i]
    /\ main # NULL => Live.level <= target[i] /\ Whole(Live.level)
    /\ pc[i] \in {"bind", "serving"} => Live.level = target[i]
    /\ pc[i] \in {"backup", "abort"} \cup BuildPcs /\ op[i] \notin StartOps =>
          op[i] # "rebind" /\ Live.level = target[i]
    /\ pc[i] = "upgrade" => Staging.level <= target[i]
    /\ pc[i] \in {"checkpoint", "replace"} => staged.level = target[i]

\* While the next file is built, what it will replace is in a backup.
BackedAt(i) ==
    pc[i] \in BuildPcs /\ main # NULL /\ op[i] # "recover" =>
        op[i] \notin {"legacy", "fresh"} /\ Live \in backups

LInv == /\ Whole(head) /\ (main # NULL => Whole(Live.level))
        /\ \A i \in Instances : LevelsAt(i) /\ BackedAt(i)

LEMMA WholeSum == ASSUME NEW n \in Nat, Whole(n) PROVE Whole(n + Steps)
<1>1. PICK k \in Nat : n = k * Steps BY DEF Whole
<1>2. n + Steps = (k + 1) * Steps BY <1>1, StepsAssumption
<1> QED BY <1>2 DEF Whole

LEMMA WholeIsBoundary == ASSUME NEW n, Whole(n) PROVE n % Steps = 0
<1>1. PICK k \in Nat : n = k * Steps BY DEF Whole
<1>2. (k * Steps) % Steps = 0 BY StepsAssumption
<1> QED BY <1>1, <1>2

LEMMA LevelInit == Init => LInv
<1> SUFFICES ASSUME Init PROVE LInv OBVIOUS
<1>1. Whole(0) /\ Whole(Steps)
  <2>1. 0 = 0 * Steps /\ Steps = 1 * Steps BY StepsAssumption
  <2> QED BY <2>1 DEF Whole
<1>2. ASSUME NEW i \in Instances PROVE LevelsAt(i) /\ BackedAt(i)
  BY <1>1, StepsAssumption DEF Init, LevelsAt, BackedAt, Below, Live, Logical
<1>3. main # NULL => Whole(Live.level) BY <1>1 DEF Init, Live, Logical
<1> QED BY <1>1, <1>2, <1>3 DEF LInv, Init

LEMMA LevelStep ==
    ASSUME OneProcess, Inv, LInv, NEW i \in Instances,
           \/ Boot(i) \/ Run(i)
           \/ \E o \in {"restore", "reset"} : \E b \in backups \cup {NULL} : Begin(i, o, b)
           \/ Commit(i) \/ AutoCheckpoint(i) \/ Shutdown(i) \/ Crash(i)
    PROVE  LInv'
<1>0. /\ SourcedAt(i) /\ StagedAt(i) /\ TypeOK /\ Whole(head) /\ LevelsAt(i) /\ BackedAt(i)
      /\ LevelsAt(i)' /\ BackedAt(i)' /\ Whole(head)' => LInv'
  BY DEF OneProcess, Inv, Sourced, Staged, LInv, LevelsAt
<1>00. head' = head /\ Whole(head)'
  BY <1>0 DEF Boot, Run, Begin, Commit, AutoCheckpoint, Shutdown, Crash, Backup, BackupFails,
     Discard, DiscardWal, Fill, Upgrade, Collapse, Checkpoint, CheckpointBusy, Replace, StepFails,
     Abort, Bind, BindFails, Whole
<1> USE DEF Goto, Live, Staging, Logical, Below
<1>1. CASE Boot(i)
  <2>1. LevelsAt(i)'
    BY <1>0, <1>00, <1>1 DEF Boot, NothingPending, liveVars, stagingVars, history, bounds, TypeOK, SourcedAt, StagedAt, LevelsAt
  <2>2. BackedAt(i)'
    BY <1>0, <1>1 DEF Boot, NothingPending, liveVars, stagingVars, history, bounds, TypeOK, SourcedAt, StagedAt, BackedAt
  <2> QED BY <1>0, <1>00, <2>1, <2>2
<1>2. CASE Backup(i)
  <2>1. LevelsAt(i)'
    BY <1>0, <1>00, <1>2 DEF Backup, BackedUp, liveVars, stagingVars, history, bounds, TypeOK, SourcedAt, StagedAt, LevelsAt
  <2>2. BackedAt(i)'
    BY <1>0, <1>2 DEF Backup, BackedUp, liveVars, stagingVars, history, bounds, TypeOK, SourcedAt, StagedAt, BackedAt
  <2> QED BY <1>0, <1>00, <2>1, <2>2
<1>3. CASE BackupFails(i)
  <2>1. LevelsAt(i)'
    BY <1>0, <1>00, <1>3 DEF BackupFails, AfterBackupFails, liveVars, stagingVars, procVars, TypeOK, SourcedAt, StagedAt, LevelsAt
  <2>2. BackedAt(i)'
    BY <1>0, <1>3 DEF BackupFails, AfterBackupFails, liveVars, stagingVars, procVars, TypeOK, SourcedAt, StagedAt, BackedAt
  <2> QED BY <1>0, <1>00, <2>1, <2>2
<1>4. CASE Discard(i)
  <2>1. LevelsAt(i)'
    BY <1>0, <1>00, <1>4 DEF Discard, liveVars, procVars, TypeOK, SourcedAt, StagedAt, LevelsAt
  <2>2. BackedAt(i)'
    BY <1>0, <1>4 DEF Discard, liveVars, procVars, TypeOK, SourcedAt, StagedAt, BackedAt
  <2> QED BY <1>0, <1>00, <2>1, <2>2
<1>5. CASE DiscardWal(i)
  <2>1. LevelsAt(i)'
    BY <1>0, <1>00, <1>5 DEF DiscardWal, liveVars, procVars, TypeOK, SourcedAt, StagedAt, LevelsAt
  <2>2. BackedAt(i)'
    BY <1>0, <1>5 DEF DiscardWal, liveVars, procVars, TypeOK, SourcedAt, StagedAt, BackedAt
  <2> QED BY <1>0, <1>00, <2>1, <2>2
<1>6. CASE Fill(i)
  <2>1. LevelsAt(i)'
    BY <1>0, <1>00, <1>6 DEF Fill, Fresh, liveVars, procVars, TypeOK, SourcedAt, StagedAt, LevelsAt
  <2>2. BackedAt(i)'
    BY <1>0, <1>6 DEF Fill, Fresh, liveVars, procVars, TypeOK, SourcedAt, StagedAt, BackedAt
  <2> QED BY <1>0, <1>00, <2>1, <2>2
<1>7. CASE Upgrade(i)
  <2>1. LevelsAt(i)'
    BY <1>0, <1>00, <1>7 DEF Upgrade, Upgraded, liveVars, procVars, TypeOK, SourcedAt, StagedAt, LevelsAt
  <2>2. BackedAt(i)'
    BY <1>0, <1>7 DEF Upgrade, Upgraded, liveVars, procVars, TypeOK, SourcedAt, StagedAt, BackedAt
  <2> QED BY <1>0, <1>00, <2>1, <2>2
<1>8. CASE Collapse(i)
  <2>1. LevelsAt(i)'
    <3>1. staged' = Staging /\ Staging \in Content /\ target[i] \in Nat
      BY <1>0, <1>8 DEF Collapse, TypeOK
    <3>2. staged'.level = target[i]
      BY <1>0, <1>8, <3>1 DEF Collapse, Upgraded, LevelsAt
    <3>3. pc'[i] = "checkpoint" /\ UNCHANGED <<liveVars, legacy, backups, head, procVars>>
      BY <1>0, <1>8 DEF Collapse, TypeOK
    <3> QED BY <1>0, <1>00, <1>8, <3>2, <3>3 DEF Collapse, LevelsAt, liveVars, procVars
  <2>2. BackedAt(i)'
    BY <1>0, <1>8 DEF Collapse, Upgraded, liveVars, procVars, TypeOK, SourcedAt, StagedAt, BackedAt
  <2> QED BY <1>0, <1>00, <2>1, <2>2
<1>9. CASE Checkpoint(i)
  <2>1. LevelsAt(i)'
    BY <1>0, <1>00, <1>9 DEF Checkpoint, Merged, stagingVars, procVars, TypeOK, SourcedAt, StagedAt, LevelsAt
  <2>2. BackedAt(i)'
    BY <1>0, <1>9 DEF Checkpoint, Merged, stagingVars, procVars, TypeOK, SourcedAt, StagedAt, BackedAt
  <2> QED BY <1>0, <1>00, <2>1, <2>2
<1>10. CASE CheckpointBusy(i)
  <2>1. LevelsAt(i)'
    BY <1>0, <1>00, <1>10 DEF CheckpointBusy, liveVars, stagingVars, procVars, TypeOK, SourcedAt, StagedAt, LevelsAt
  <2>2. BackedAt(i)'
    BY <1>0, <1>10 DEF CheckpointBusy, liveVars, stagingVars, procVars, TypeOK, SourcedAt, StagedAt, BackedAt
  <2> QED BY <1>0, <1>00, <2>1, <2>2
<1>11. CASE Replace(i)
  <2>1. LevelsAt(i)'
    BY <1>0, <1>00, <1>11 DEF Replace, procVars, TypeOK, SourcedAt, StagedAt, LevelsAt
  <2>2. BackedAt(i)'
    BY <1>0, <1>11 DEF Replace, procVars, TypeOK, SourcedAt, StagedAt, BackedAt
  <2> QED BY <1>0, <1>00, <2>1, <2>2
<1>12. CASE StepFails(i)
  <2>1. LevelsAt(i)'
    BY <1>0, <1>00, <1>12 DEF StepFails, liveVars, stagingVars, procVars, TypeOK, SourcedAt, StagedAt, LevelsAt
  <2>2. BackedAt(i)'
    BY <1>0, <1>12 DEF StepFails, liveVars, stagingVars, procVars, TypeOK, SourcedAt, StagedAt, BackedAt
  <2> QED BY <1>0, <1>00, <2>1, <2>2
<1>13. CASE Abort(i)
  <2>1. LevelsAt(i)'
    BY <1>0, <1>00, <1>13 DEF Abort, AfterAbort, liveVars, TypeOK, SourcedAt, StagedAt, LevelsAt
  <2>2. BackedAt(i)'
    BY <1>0, <1>13 DEF Abort, AfterAbort, liveVars, TypeOK, SourcedAt, StagedAt, BackedAt
  <2> QED BY <1>0, <1>00, <2>1, <2>2
<1>14. CASE Bind(i)
  <2>1. LevelsAt(i)'
    BY <1>0, <1>00, <1>14 DEF Bind, liveVars, stagingVars, TypeOK, SourcedAt, StagedAt, LevelsAt
  <2>2. BackedAt(i)'
    BY <1>0, <1>14 DEF Bind, liveVars, stagingVars, TypeOK, SourcedAt, StagedAt, BackedAt
  <2> QED BY <1>0, <1>00, <2>1, <2>2
<1>15. CASE BindFails(i)
  <2>1. LevelsAt(i)'
    BY <1>0, <1>00, <1>15 DEF BindFails, RecoverySource, liveVars, stagingVars, TypeOK, SourcedAt, StagedAt, LevelsAt
  <2>2. BackedAt(i)'
    BY <1>0, <1>15 DEF BindFails, RecoverySource, liveVars, stagingVars, TypeOK, SourcedAt, StagedAt, BackedAt
  <2> QED BY <1>0, <1>00, <2>1, <2>2
<1>16. CASE Commit(i)
  <2>1. LevelsAt(i)'
    BY <1>0, <1>00, <1>16 DEF Commit, stagingVars, procVars, TypeOK, SourcedAt, StagedAt, LevelsAt
  <2>2. BackedAt(i)'
    BY <1>0, <1>16 DEF Commit, stagingVars, procVars, TypeOK, SourcedAt, StagedAt, BackedAt
  <2> QED BY <1>0, <1>00, <2>1, <2>2
<1>17. CASE AutoCheckpoint(i)
  <2>1. LevelsAt(i)'
    BY <1>0, <1>00, <1>17 DEF AutoCheckpoint, Merged, stagingVars, procVars, TypeOK, SourcedAt, StagedAt, LevelsAt
  <2>2. BackedAt(i)'
    BY <1>0, <1>17 DEF AutoCheckpoint, Merged, stagingVars, procVars, TypeOK, SourcedAt, StagedAt, BackedAt
  <2> QED BY <1>0, <1>00, <2>1, <2>2
<1>18. CASE Shutdown(i)
  <2>1. LevelsAt(i)'
    BY <1>0, <1>00, <1>18 DEF Shutdown, liveVars, stagingVars, TypeOK, SourcedAt, StagedAt, LevelsAt
  <2>2. BackedAt(i)'
    BY <1>0, <1>18 DEF Shutdown, liveVars, stagingVars, TypeOK, SourcedAt, StagedAt, BackedAt
  <2> QED BY <1>0, <1>00, <2>1, <2>2
<1>19. CASE Crash(i)
  <2>1. LevelsAt(i)'
    BY <1>0, <1>00, <1>19 DEF Crash, liveVars, stagingVars, TypeOK, SourcedAt, StagedAt, LevelsAt
  <2>2. BackedAt(i)'
    BY <1>0, <1>19 DEF Crash, liveVars, stagingVars, TypeOK, SourcedAt, StagedAt, BackedAt
  <2> QED BY <1>0, <1>00, <2>1, <2>2
<1>20. ASSUME NEW o \in {"restore", "reset"}, NEW b \in backups \cup {NULL}, Begin(i, o, b)
      PROVE  LInv'
  <2>1. LevelsAt(i)'
    BY <1>0, <1>00, <1>20 DEF Begin, liveVars, stagingVars, TypeOK, SourcedAt, LevelsAt
  <2>2. BackedAt(i)'
    BY <1>0, <1>20 DEF Begin, liveVars, stagingVars, TypeOK, BackedAt
  <2> QED BY <1>0, <1>00, <2>1, <2>2
<1> QED BY <1>1, <1>2, <1>3, <1>4, <1>5, <1>6, <1>7, <1>8, <1>9, <1>10, <1>11, <1>12, <1>13,
           <1>14, <1>15, <1>16, <1>17, <1>18, <1>19, <1>20 DEF Run

LEMMA AlwaysLevels == ASSUME OneProcess PROVE Spec => [](Inv /\ LInv)
<1>1. Inv /\ LInv /\ [Next]_vars => LInv'
  <2> SUFFICES ASSUME Inv, LInv, [Next]_vars PROVE LInv' OBVIOUS
  <2>1. CASE \E i \in Instances :
               \/ Boot(i) \/ Run(i)
               \/ \E o \in {"restore", "reset"} : \E b \in backups \cup {NULL} : Begin(i, o, b)
               \/ Commit(i) \/ AutoCheckpoint(i) \/ Shutdown(i) \/ Crash(i)
    BY <2>1, LevelStep
  <2>2. CASE Release
    <3>1. head \in Nat /\ head' = head + Steps BY <2>2 DEF Inv, TypeOK, Release
    <3>2. Whole(head') BY <3>1, WholeSum DEF LInv
    <3>3. ASSUME NEW i \in Instances PROVE LevelsAt(i)' /\ BackedAt(i)'
      <4>1. LevelsAt(i) /\ BackedAt(i) BY DEF LInv
      <4>2. target[i] \in Nat /\ target[i] <= head' BY <3>1, <4>1, StepsAssumption DEF Inv, TypeOK, LevelsAt
      <4>3. UNCHANGED <<main, wal, staged, stagedWal, legacy, backups, pc, op, source, safety, target>>
        BY <2>2 DEF Release, liveVars, stagingVars, procVars
      <4>4. LevelsAt(i)'
        BY <4>1, <4>2, <4>3 DEF LevelsAt, Live, Staging, Logical, Below, Whole
      <4>5. BackedAt(i)'
        BY <4>1, <4>3 DEF BackedAt, Live, Logical
      <4> QED BY <4>4, <4>5
    <3> QED BY <2>2, <3>2, <3>3 DEF Release, LInv, Live, Logical, Whole, liveVars
  <2>3. CASE ReaderOpens \/ ReaderCloses \/ UNCHANGED vars
    BY <2>3 DEF ReaderOpens, ReaderCloses, vars, LInv, LevelsAt, BackedAt, Live, Staging,
       Logical, Below, Whole, liveVars, stagingVars, procVars
  <2> QED BY <2>1, <2>2, <2>3 DEF Next
<1>2. Inv /\ [Next]_vars => Inv' BY NextInv
<1> QED BY InitInv, LevelInit, <1>1, <1>2, PTL DEF Spec

\* At no point of a failure or a crash is the live file between two versions,
\* and a process serves only what its own code requires (UpgradeIsAtomic).
THEOREM UpgradesAreAtomic == ASSUME OneProcess PROVE Spec => []UpgradeIsAtomic
<1>1. Inv /\ LInv => UpgradeIsAtomic
  <2> SUFFICES ASSUME Inv, LInv PROVE UpgradeIsAtomic OBVIOUS
  <2>1. main # NULL => Live.level % Steps = 0
    BY WholeIsBoundary DEF LInv
  <2>2. ASSUME NEW i \in Instances, pc[i] = "serving" PROVE Live.level >= target[i]
    BY <2>2 DEF Inv, TypeOK, LInv, LevelsAt
  <2> QED BY <2>1, <2>2 DEF UpgradeIsAtomic
<1> QED BY <1>1, AlwaysLevels, PTL

\* What a start, restore or reset renames away is in a backup as it is then
\* (ReplacedIsBackedUp).
THEOREM ReplacedAlwaysBackedUp == ASSUME OneProcess PROVE Spec => ReplacedIsBackedUp
<1>1. LInv => [\A i \in Instances :
                 Replace(i) /\ main # NULL /\ op[i] # "recover" => Live \in backups]_vars
  BY DEF LInv, BackedAt, Replace
<1> QED BY <1>1, AlwaysLevels, PTL DEF ReplacedIsBackedUp
===============================================================================
