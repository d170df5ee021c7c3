------------------------- MODULE LaunchdSwitchProofs -------------------------
(***************************************************************************)
(* What holds of a switch for any number of failing commands, signals and  *)
(* incarnations of the process.  The flags of the script describe the disk *)
(* (Disk): outside of a rollback each file is as MOVED and SWITCHED say,   *)
(* and the rollback turns the files one by one back into what prepare saw. *)
(*                                                                         *)
(* The last section is about the process itself (ServiceLifecycle).        *)
(***************************************************************************)
EXTENDS LaunchdSwitch, ServiceLifecycle, TLAPS

Waiting == {"list", "probe", "curl", "recheck", "pause", "confirm", "confirmed"}
Swapping == {"backup", "move", "moved", "place", "placed"}

-------------------------------------------------------------------------------
(* Types *)

LEMMA InitType == Init => DataOK /\ SwitchesOK
<1> SUFFICES ASSUME Init PROVE DataOK /\ SwitchesOK
  OBVIOUS
<1>1. DataOK
  BY NullAssumption DEF Init, DataOK, Files, Gens, Pcs, Working, Critical, RollingBack, Ended
<1>2. SwitchesOK
  BY Zenon DEF Init, SwitchesOK
<1> QED BY <1>1, <1>2

LEMMA NextData == DataOK /\ [Next]_vars => DataOK'
<1> SUFFICES ASSUME DataOK, [Next]_vars PROVE DataOK'
  OBVIOUS
<1> USE NullAssumption DEF DataOK, Goto, Fault, Discard, Pcs, Working, Critical, RollingBack, Ended,
        disk, launchd, record, flags, wait, place, bounds
<1>1. CASE Prepare BY <1>1 DEF Prepare, Record
<1>2. CASE PrepareFails BY <1>2 DEF PrepareFails, Record
<1>3. CASE Arm BY <1>3 DEF Arm
<1>4. CASE Unload BY <1>4 DEF Unload
<1>5. CASE UnloadFails BY <1>5 DEF UnloadFails
<1>6. CASE Backup BY <1>6 DEF Backup
<1>7. CASE BackupFails BY <1>7 DEF BackupFails
<1>8. CASE Move BY <1>8 DEF Move, Gens
<1>9. CASE Moved BY <1>9 DEF Moved, AfterCritical
<1>10. CASE Place BY <1>10 DEF Place, Gens
<1>11. CASE Placed BY <1>11 DEF Placed, AfterCritical, Files
<1>12. CASE RenameFails BY <1>12 DEF RenameFails
<1>13. CASE Load BY <1>13 DEF Load, Files
<1>14. CASE LoadFails BY <1>14 DEF LoadFails, Files
<1>15. CASE List BY <1>15 DEF List
<1>16. CASE Probe BY <1>16 DEF Probe
<1>17. CASE Curl BY <1>17 DEF Curl
<1>18. CASE Recheck BY <1>18 DEF Recheck
<1>19. CASE Pause BY <1>19 DEF Pause
<1>20. CASE Timeout BY <1>20 DEF Timeout
<1>21. CASE Confirm BY <1>21 DEF Confirm
<1>22. CASE Confirmed BY <1>22 DEF Confirmed
<1>23. CASE Clean BY <1>23 DEF Clean
<1>24. CASE Rollback BY <1>24 DEF Rollback, Begin, FirstOfRollback, Files
<1>25. CASE StopJob BY <1>25 DEF StopJob
<1>26. CASE StopJobFails BY <1>26 DEF StopJobFails
<1>27. CASE Restore BY <1>27 DEF Restore, NextFile, FromBackup, Files
<1>28. CASE RestoreFails BY <1>28 DEF RestoreFails, NextFile, Files
<1>29. CASE Report BY <1>29 DEF Report
<1>30. CASE Reload BY <1>30 DEF Reload, Files
<1>31. CASE ReloadFails BY <1>31 DEF ReloadFails, Files
<1>32. CASE Signal
  <2>1. file' = file /\ loaded' = loaded /\ job' = job /\ pids' = pids /\ answered' = answered
        /\ existed' = existed /\ moved' = moved /\ switched' = switched
        /\ pid' = pid /\ readyPid' = readyPid
        /\ faults' \in Nat /\ signals' \in Nat /\ stops' \in Nat
    BY <1>32 DEF Signal
  <2>2. bak' \in [Files -> Gens \cup {NULL}] /\ cand' \subseteq Files
    BY <1>32 DEF Signal, OnSignal, Begin
  <2>3. pc' \in Pcs /\ at' \in Files
    BY <1>32 DEF Signal, OnSignal, Begin, FirstOfRollback, Files
  <2> QED BY <2>1, <2>2, <2>3
<1>33. CASE Spawn BY <1>33 DEF Spawn
<1>34. CASE Answer BY <1>34 DEF Answer
<1>35. CASE Die BY <1>35 DEF Die
<1>36. CASE UserStop BY <1>36 DEF UserStop
<1>37. CASE UNCHANGED vars BY <1>37 DEF vars
<1> QED
  BY <1>1, <1>2, <1>3, <1>4, <1>5, <1>6, <1>7, <1>8, <1>9, <1>10, <1>11, <1>12,
     <1>13, <1>14, <1>15, <1>16, <1>17, <1>18, <1>19, <1>20, <1>21, <1>22, <1>23,
     <1>24, <1>25, <1>26, <1>27, <1>28, <1>29, <1>30, <1>31, <1>32, <1>33, <1>34,
     <1>35, <1>36, <1>37 DEF Next, Script, Failure

LEMMA NextSwitches == SwitchesOK /\ [Next]_vars => SwitchesOK'
<1> SUFFICES ASSUME SwitchesOK, [Next]_vars PROVE SwitchesOK'
  OBVIOUS
<1> USE NullAssumption DEF SwitchesOK, Goto, Fault, Discard, Pcs, Working, Critical, RollingBack, Ended,
        disk, launchd, record, flags, wait, place, bounds
<1>1. CASE Prepare BY <1>1 DEF Prepare, Record
<1>2. CASE PrepareFails BY <1>2 DEF PrepareFails, Record
<1>3. CASE Arm BY <1>3 DEF Arm
<1>4. CASE Unload BY <1>4 DEF Unload
<1>5. CASE UnloadFails BY <1>5 DEF UnloadFails
<1>6. CASE Backup BY <1>6 DEF Backup
<1>7. CASE BackupFails BY <1>7 DEF BackupFails
<1>8. CASE Move BY <1>8 DEF Move, Gens
<1>9. CASE Moved BY <1>9 DEF Moved, AfterCritical
<1>10. CASE Place BY <1>10 DEF Place, Gens
<1>11. CASE Placed BY <1>11 DEF Placed, AfterCritical, Files
<1>12. CASE RenameFails BY <1>12 DEF RenameFails
<1>13. CASE Load BY <1>13 DEF Load, Files
<1>14. CASE LoadFails BY <1>14 DEF LoadFails, Files
<1>15. CASE List BY <1>15 DEF List
<1>16. CASE Probe BY <1>16 DEF Probe
<1>17. CASE Curl BY <1>17 DEF Curl
<1>18. CASE Recheck BY <1>18 DEF Recheck
<1>19. CASE Pause BY <1>19 DEF Pause
<1>20. CASE Timeout BY <1>20 DEF Timeout
<1>21. CASE Confirm BY <1>21 DEF Confirm
<1>22. CASE Confirmed BY <1>22 DEF Confirmed
<1>23. CASE Clean BY <1>23 DEF Clean
<1>24. CASE Rollback BY <1>24 DEF Rollback, Begin, FirstOfRollback, Files
<1>25. CASE StopJob BY <1>25 DEF StopJob
<1>26. CASE StopJobFails BY <1>26 DEF StopJobFails
<1>27. CASE Restore BY <1>27 DEF Restore, NextFile, FromBackup, Files
<1>28. CASE RestoreFails BY <1>28 DEF RestoreFails, NextFile, Files
<1>29. CASE Report BY <1>29 DEF Report
<1>30. CASE Reload BY <1>30 DEF Reload, Files
<1>31. CASE ReloadFails BY <1>31 DEF ReloadFails, Files
<1>32. CASE Signal BY <1>32 DEF Signal, OnSignal, Begin, FirstOfRollback, Files
<1>33. CASE Spawn BY <1>33 DEF Spawn
<1>34. CASE Answer BY <1>34 DEF Answer
<1>35. CASE Die BY <1>35 DEF Die
<1>36. CASE UserStop BY <1>36 DEF UserStop
<1>37. CASE UNCHANGED vars BY <1>37 DEF vars
<1> QED
  BY <1>1, <1>2, <1>3, <1>4, <1>5, <1>6, <1>7, <1>8, <1>9, <1>10, <1>11, <1>12,
     <1>13, <1>14, <1>15, <1>16, <1>17, <1>18, <1>19, <1>20, <1>21, <1>22, <1>23,
     <1>24, <1>25, <1>26, <1>27, <1>28, <1>29, <1>30, <1>31, <1>32, <1>33, <1>34,
     <1>35, <1>36, <1>37 DEF Next, Script, Failure

-------------------------------------------------------------------------------
(* The disk *)

\* As prepare found it.
Settled(x) == file[x] = Original(x) /\ bak[x] = NULL

\* As the flags say; a rename in a critical section is ahead of its flag.
Flagged(x) ==
    /\ x \in moved => x \in existed
    /\ x \in switched => (x \in moved) = (x \in existed)
    /\ IF x \in switched \/ (pc = "placed" /\ at = x)
       THEN file[x] = "new" /\ bak[x] = Original(x)
       ELSE IF x \in moved \/ (pc = "moved" /\ at = x)
       THEN file[x] = NULL /\ bak[x] = "old"
       ELSE Settled(x)

Untouched == moved = {} /\ switched = {}

\* How far the swap has come.
Progress ==
    /\ pc \in {"prepare", "arm", "unload"} => Untouched /\ at = "control" /\ ~lost /\ ~done
    /\ pc = "prepare" =>
          /\ existed = {}
          /\ \A x \in Files : file[x] \in {"old", NULL} /\ bak[x] = NULL
    /\ pc \in Swapping =>
          /\ at = "control" => "plist" \notin moved \cup switched
          /\ at = "plist" => "control" \in switched
          /\ at \notin switched
    /\ pc \in {"backup", "move", "moved"} => at \notin moved
    /\ pc \in {"move", "moved"} => at \in existed
    /\ pc = "stopJob" => at = "control"
    /\ pc \in {"place", "placed"} => (at \in moved) = (at \in existed)
    /\ pc \in {"load", "clean", "committed"} \cup Waiting => Files \subseteq switched
    /\ pc \notin {"restore", "report", "incomplete", "killed"} => ~lost
    /\ committed => pc \in {"clean", "committed"}
    /\ pc \in {"clean", "committed"} => committed

Disk ==
    /\ moved \subseteq existed
    /\ pc \in {"arm"} \cup Working \cup Critical \cup {"stopJob"} => \A x \in Files : Flagged(x)
    /\ pc \in {"clean", "committed"} => \A x \in Files : file[x] = "new"
    /\ pc = "restore" =>
          /\ at = "control" => \A x \in Files : Flagged(x)
          /\ at = "plist" => Flagged("plist") /\ (Flagged("control") \/ Settled("control"))
          /\ at = "plist" /\ ~lost => Settled("control")
    /\ pc \in {"report", "incomplete"} =>
          \A x \in Files : Settled(x) \/ (lost /\ Flagged(x))
    /\ pc \in {"reload", "rolledBack", "refused"} => \A x \in Files : Settled(x)
    /\ pc = "killed" /\ done => \A x \in Files : Settled(x) \/ Flagged(x)
    /\ pc = "killed" /\ ~done => \A x \in existed : file[x] = "old"
    /\ pc \in RollingBack => done

DiskInv == Progress /\ Disk

LEMMA InitDisk == Init => DiskInv
BY NullAssumption DEF Init, DiskInv, Progress, Disk, Untouched, Swapping, Waiting, Working, Critical,
   RollingBack, Files, Gens

LEMMA NextDisk == DataOK /\ SwitchesOK /\ DiskInv /\ [Next]_vars => DiskInv'
<1> SUFFICES ASSUME DataOK, SwitchesOK, DiskInv, [Next]_vars PROVE DiskInv'
  OBVIOUS
<1> USE NullAssumption DEF DataOK, DiskInv, Progress, Disk, Settled, Flagged, Original, Untouched,
        Waiting, Swapping, Goto, Fault, Discard, Pcs, Working, Critical, RollingBack, Ended,
        Files, Gens, disk, launchd, record, flags, wait, place, bounds
<1>1. CASE Prepare BY <1>1 DEF Prepare, Record
<1>2. CASE PrepareFails BY <1>2 DEF PrepareFails, Record
<1>3. CASE Arm BY <1>3 DEF Arm
<1>4. CASE Unload BY <1>4 DEF Unload
<1>5. CASE UnloadFails BY <1>5 DEF UnloadFails
<1>6. CASE Backup BY <1>6 DEF Backup, NeedsBackup
<1>7. CASE BackupFails BY <1>7 DEF BackupFails
<1>8. CASE Move BY <1>8 DEF Move
<1>9. CASE Moved BY <1>9 DEF Moved, AfterCritical
<1>10. CASE Place BY <1>10 DEF Place
<1>11. CASE Placed
  <2>1. CASE at = "control"
    <3>1. Progress' BY <1>11, <2>1 DEF Placed, AfterCritical
    <3>2. Disk' BY <1>11, <2>1 DEF Placed, AfterCritical
    <3> QED BY <3>1, <3>2
  <2>2. CASE at = "plist"
    <3>0. at' = "plist" /\ pc' \in {"load", "rollback"} /\ Files \subseteq switched'
          /\ moved' = moved
      BY <1>11, <2>2 DEF Placed, AfterCritical
    <3>1. Progress' BY <1>11, <3>0 DEF Placed
    <3>2. Disk' BY <1>11, <2>2 DEF Placed, AfterCritical
    <3> QED BY <3>1, <3>2
  <2> QED BY <2>1, <2>2
<1>12. CASE RenameFails BY <1>12 DEF RenameFails
<1>13. CASE Load BY <1>13 DEF Load
<1>14. CASE LoadFails BY <1>14 DEF LoadFails
<1>15. CASE List BY <1>15 DEF List
<1>16. CASE Probe BY <1>16 DEF Probe
<1>17. CASE Curl BY <1>17 DEF Curl
<1>18. CASE Recheck BY <1>18 DEF Recheck
<1>19. CASE Pause BY <1>19 DEF Pause
<1>20. CASE Timeout BY <1>20 DEF Timeout
<1>21. CASE Confirm BY <1>21 DEF Confirm
<1>22. CASE Confirmed BY <1>22 DEF Confirmed
<1>23. CASE Clean BY <1>23 DEF Clean
<1>24. CASE Rollback BY <1>24 DEF Rollback, Begin, FirstOfRollback
<1>25. CASE StopJob BY <1>25 DEF StopJob
<1>26. CASE StopJobFails BY <1>26 DEF StopJobFails
<1>27. CASE Restore BY <1>27 DEF Restore, NextFile, FromBackup
<1>28. CASE RestoreFails BY <1>28 DEF RestoreFails, NextFile
<1>29. CASE Report BY <1>29 DEF Report
<1>30. CASE Reload BY <1>30 DEF Reload
<1>31. CASE ReloadFails BY <1>31 DEF ReloadFails
<1>32. CASE Signal BY <1>32 DEF Signal, OnSignal, Begin, FirstOfRollback
<1>33. CASE Spawn BY <1>33 DEF Spawn
<1>34. CASE Answer BY <1>34 DEF Answer
<1>35. CASE Die BY <1>35 DEF Die
<1>36. CASE UserStop BY <1>36 DEF UserStop
<1>37. CASE UNCHANGED vars BY <1>37 DEF vars
<1> QED
  BY <1>1, <1>2, <1>3, <1>4, <1>5, <1>6, <1>7, <1>8, <1>9, <1>10, <1>11, <1>12,
     <1>13, <1>14, <1>15, <1>16, <1>17, <1>18, <1>19, <1>20, <1>21, <1>22, <1>23,
     <1>24, <1>25, <1>26, <1>27, <1>28, <1>29, <1>30, <1>31, <1>32, <1>33, <1>34,
     <1>35, <1>36, <1>37 DEF Next, Script, Failure

-------------------------------------------------------------------------------
(* The job *)

\* Which job can be loaded, place by place.  Before the unload it is the old
\* one, from the load on the new one, and between the two there is none.
Job ==
    /\ pc = "prepare" => cand = {} /\ ~wasLoaded /\ loaded \in {NULL, file["plist"]}
    /\ wasLoaded => "plist" \in existed
    /\ alive => pc \in {"restore", "report", "incomplete", "killed"}
    /\ pc \in {"arm", "unload", "refused", "rolledBack"} =>
          loaded # "new" /\ (loaded # NULL => wasLoaded) /\ (wasLoaded /\ stops = 0 => loaded # NULL)
    /\ pc \in {"refused", "rolledBack"} => cand = {}
    /\ pc = "reload" => wasLoaded
    /\ pc \in Swapping \cup {"load"} => loaded = NULL
    /\ pc \in Waiting \cup {"clean", "committed", "rollback"} => loaded # "old"
    /\ pc \in {"rollback", "stopJob"} /\ loaded = "new" => Files \subseteq switched
    /\ pc = "stopJob" /\ loaded = "old" => Untouched
    /\ pc \in {"restore", "report", "reload"} /\ ~alive => loaded = NULL
    /\ pc = "incomplete" /\ ~alive => loaded = NULL \/ (loaded = "old" /\ ~lost)
    /\ pc = "killed" => NeverMixed

LEMMA InitJob == Init => Job
BY NullAssumption DEF Init, Job, Swapping, Waiting, Files, Gens

\* No place of the script is without a clause of DiskInv and Job.
LEMMA JobNotMixed == DataOK /\ SwitchesOK /\ DiskInv /\ Job => NeverMixed
<1> SUFFICES ASSUME DataOK, SwitchesOK, DiskInv, Job, ~alive, loaded # NULL
             PROVE (loaded = "new") = (file["control"] = "new")
  BY DEF NeverMixed
<1> USE NullAssumption DEF DataOK, DiskInv, Progress, Disk, Job, Settled, Flagged, Original, Untouched,
        Files, Gens
<1>1. CASE pc = "prepare" BY <1>1
<1>2. CASE pc \in {"arm", "unload", "refused", "rolledBack"}
  BY <1>2 DEF Working
<1>3. CASE pc \in Swapping \cup {"load", "rollback", "stopJob"} \cup Waiting \cup {"clean", "committed"}
  BY <1>3 DEF Swapping, Waiting, Working, Critical
<1>4. CASE pc \in {"restore", "report", "reload", "incomplete"} BY <1>4
<1>5. CASE pc = "killed" BY <1>5 DEF NeverMixed
<1> QED
  BY <1>1, <1>2, <1>3, <1>4, <1>5 DEF Pcs, Working, Critical, RollingBack, Ended, Swapping, Waiting

LEMMA NextJob == DataOK /\ SwitchesOK /\ DiskInv /\ Job /\ [Next]_vars => Job'
<1> SUFFICES ASSUME DataOK, SwitchesOK, DiskInv, Job, [Next]_vars PROVE Job'
  OBVIOUS
<1>0. NeverMixed BY JobNotMixed
<1> USE NullAssumption DEF DataOK, DiskInv, Progress, Disk, Job, NeverMixed, Settled, Flagged, Original,
        Untouched, Waiting, Swapping, Goto, Fault, Discard, Pcs, Working, Critical, RollingBack, Ended,
        Files, Gens, disk, launchd, record, flags, wait, place, bounds
<1>1. CASE Prepare BY <1>1 DEF Prepare, Record
<1>2. CASE PrepareFails BY <1>2 DEF PrepareFails, Record
<1>3. CASE Arm BY <1>3 DEF Arm
<1>4. CASE Unload
  <2>1. pc' # "prepare" /\ pc' # "killed" /\ (pc' = "reload" => wasLoaded') BY <1>4 DEF Unload
  <2>2. (wasLoaded' => "plist" \in existed')
        /\ (alive' => pc' \in {"restore", "report", "incomplete", "killed"})
    BY <1>4 DEF Unload
  <2>3. pc' \in {"arm", "unload", "refused", "rolledBack"} =>
           loaded' # "new" /\ (loaded' # NULL => wasLoaded') /\ (wasLoaded' /\ stops' = 0 => loaded' # NULL)
    BY <1>4 DEF Unload
  <2>4. pc' \in {"refused", "rolledBack"} => cand' = {}
    BY <1>4 DEF Unload
  <2>5. /\ pc' \in Swapping \cup {"load"} => loaded' = NULL
        /\ pc' \in Waiting \cup {"clean", "committed", "rollback"} => loaded' # "old"
        /\ pc' \in {"rollback", "stopJob"} /\ loaded' = "new" => Files \subseteq switched'
        /\ pc' = "stopJob" /\ loaded' = "old" => Untouched'
        /\ pc' \in {"restore", "report", "reload"} /\ ~alive' => loaded' = NULL
        /\ pc' = "incomplete" /\ ~alive' => loaded' = NULL \/ (loaded' = "old" /\ ~lost')
    BY <1>4 DEF Unload
  <2> QED BY <2>1, <2>2, <2>3, <2>4, <2>5
<1>5. CASE UnloadFails BY <1>5 DEF UnloadFails
<1>6. CASE Backup BY <1>6 DEF Backup, NeedsBackup
<1>7. CASE BackupFails BY <1>7 DEF BackupFails
<1>8. CASE Move BY <1>8 DEF Move
<1>9. CASE Moved BY <1>9 DEF Moved, AfterCritical
<1>10. CASE Place BY <1>10 DEF Place
<1>11. CASE Placed BY <1>11 DEF Placed, AfterCritical
<1>12. CASE RenameFails BY <1>12 DEF RenameFails
<1>13. CASE Load BY <1>13 DEF Load
<1>14. CASE LoadFails BY <1>14 DEF LoadFails
<1>15. CASE List BY <1>15 DEF List
<1>16. CASE Probe BY <1>16 DEF Probe
<1>17. CASE Curl BY <1>17 DEF Curl
<1>18. CASE Recheck BY <1>18 DEF Recheck
<1>19. CASE Pause BY <1>19 DEF Pause
<1>20. CASE Timeout BY <1>20 DEF Timeout
<1>21. CASE Confirm BY <1>21 DEF Confirm
<1>22. CASE Confirmed BY <1>22 DEF Confirmed
<1>23. CASE Clean BY <1>23 DEF Clean
<1>24. CASE Rollback BY <1>24 DEF Rollback, Begin, FirstOfRollback
<1>25. CASE StopJob BY <1>25 DEF StopJob
<1>26. CASE StopJobFails BY <1>26 DEF StopJobFails
<1>27. CASE Restore BY <1>27 DEF Restore, NextFile, FromBackup
<1>28. CASE RestoreFails BY <1>28 DEF RestoreFails, NextFile
<1>29. CASE Report
  <2>1. pc' # "prepare" /\ pc' # "killed" /\ (pc' = "reload" => wasLoaded') BY <1>29 DEF Report, MustReload
  <2>2. (wasLoaded' => "plist" \in existed')
        /\ (alive' => pc' \in {"restore", "report", "incomplete", "killed"})
    BY <1>29 DEF Report, MustReload
  <2>3. pc' \in {"arm", "unload", "refused", "rolledBack"} =>
           loaded' # "new" /\ (loaded' # NULL => wasLoaded') /\ (wasLoaded' /\ stops' = 0 => loaded' # NULL)
    BY <1>29 DEF Report, MustReload
  <2>4. pc' \in {"refused", "rolledBack"} => cand' = {}
    BY <1>29 DEF Report, MustReload
  <2>5. /\ pc' \in Swapping \cup {"load"} => loaded' = NULL
        /\ pc' \in Waiting \cup {"clean", "committed", "rollback"} => loaded' # "old"
        /\ pc' \in {"rollback", "stopJob"} /\ loaded' = "new" => Files \subseteq switched'
        /\ pc' = "stopJob" /\ loaded' = "old" => Untouched'
        /\ pc' \in {"restore", "report", "reload"} /\ ~alive' => loaded' = NULL
        /\ pc' = "incomplete" /\ ~alive' => loaded' = NULL \/ (loaded' = "old" /\ ~lost')
    BY <1>29 DEF Report, MustReload
  <2> QED BY <2>1, <2>2, <2>3, <2>4, <2>5
<1>30. CASE Reload
  <2>1. pc' # "prepare" /\ pc' # "killed" /\ (pc' = "reload" => wasLoaded') BY <1>30 DEF Reload
  <2>2. (wasLoaded' => "plist" \in existed')
        /\ (alive' => pc' \in {"restore", "report", "incomplete", "killed"})
    BY <1>30 DEF Reload
  <2>3. pc' \in {"arm", "unload", "refused", "rolledBack"} =>
           loaded' # "new" /\ (loaded' # NULL => wasLoaded') /\ (wasLoaded' /\ stops' = 0 => loaded' # NULL)
    BY <1>30 DEF Reload
  <2>4. pc' \in {"refused", "rolledBack"} => cand' = {}
    BY <1>30 DEF Reload
  <2>5. /\ pc' \in Swapping \cup {"load"} => loaded' = NULL
        /\ pc' \in Waiting \cup {"clean", "committed", "rollback"} => loaded' # "old"
        /\ pc' \in {"rollback", "stopJob"} /\ loaded' = "new" => Files \subseteq switched'
        /\ pc' = "stopJob" /\ loaded' = "old" => Untouched'
        /\ pc' \in {"restore", "report", "reload"} /\ ~alive' => loaded' = NULL
        /\ pc' = "incomplete" /\ ~alive' => loaded' = NULL \/ (loaded' = "old" /\ ~lost')
    BY <1>30 DEF Reload
  <2> QED BY <2>1, <2>2, <2>3, <2>4, <2>5
<1>31. CASE ReloadFails BY <1>31 DEF ReloadFails
<1>32. CASE Signal BY <1>32 DEF Signal, OnSignal, Begin, FirstOfRollback
<1>33. CASE Spawn BY <1>33 DEF Spawn
<1>34. CASE Answer BY <1>34 DEF Answer
<1>35. CASE Die BY <1>35 DEF Die
<1>36. CASE UserStop BY <1>36 DEF UserStop
<1>37. CASE UNCHANGED vars BY <1>37 DEF vars
<1> QED
  BY <1>1, <1>2, <1>3, <1>4, <1>5, <1>6, <1>7, <1>8, <1>9, <1>10, <1>11, <1>12,
     <1>13, <1>14, <1>15, <1>16, <1>17, <1>18, <1>19, <1>20, <1>21, <1>22, <1>23,
     <1>24, <1>25, <1>26, <1>27, <1>28, <1>29, <1>30, <1>31, <1>32, <1>33, <1>34,
     <1>35, <1>36, <1>37 DEF Next, Script, Failure

\* Every variable keeps its type, whatever fails and however often the process of
\* the job dies.
THEOREM TypeCorrect == Spec => []TypeOK
<1>1. DiskInv => moved \subseteq existed BY DEF DiskInv, Disk
<1> QED BY <1>1, InitType, NextData, NextSwitches, InitDisk, NextDisk, PTL DEF Spec, TypeOK

\* For any number of faults and signals the old bytes are in the file or in its
\* backup until the new configuration is committed.
THEOREM OldFilesKept == Spec => []OldKept
<1>1. DataOK /\ SwitchesOK /\ DiskInv => OldKept
  <2> SUFFICES ASSUME DataOK, SwitchesOK, DiskInv, ~committed, NEW x \in existed
               PROVE "old" \in {file[x], bak[x]}
    BY DEF OldKept
  <2> USE NullAssumption DEF DataOK, DiskInv, Progress, Disk, Settled, Flagged, Original, Files, Gens
  <2>1. Settled(x) \/ Flagged(x) => "old" \in {file[x], bak[x]} OBVIOUS
  <2>2. CASE pc \in {"prepare", "arm"} \cup Working \cup Critical \cup {"stopJob"}
    BY <2>1, <2>2 DEF Working, Critical
  <2>3. CASE pc \in {"clean", "committed"}
    BY <2>3
  <2>4. CASE pc \in {"restore", "report", "reload", "refused", "rolledBack", "incomplete", "killed"}
    BY <2>1, <2>4
  <2> QED BY <2>2, <2>3, <2>4 DEF Pcs, Working, Critical, RollingBack, Ended
<1> QED BY <1>1, InitType, NextData, NextSwitches, InitDisk, NextDisk, PTL DEF Spec

\* launchd never starts a process on a mix of the two configurations, unless an
\* unload failed in the rollback.
THEOREM ConfigurationsNotMixed == Spec => []NeverMixed
BY JobNotMixed, InitType, NextData, NextSwitches, InitDisk, NextDisk, InitJob, NextJob, PTL DEF Spec

\* A switch that ends as a success, a refusal or a complete rollback is one.
THEOREM SwitchIsAtomic == Spec => []AllOrNothing
<1>1. DataOK /\ SwitchesOK /\ DiskInv /\ Job => AllOrNothing
  <2> SUFFICES ASSUME DataOK, SwitchesOK, DiskInv, Job PROVE AllOrNothing
    OBVIOUS
  <2>1. pc = "committed" => \A x \in Files : file[x] = "new"
    BY DEF DiskInv, Disk
  <2>2. ASSUME pc \in {"rolledBack", "refused"}
        PROVE  \A x \in Files : file[x] = Original(x) /\ bak[x] = NULL
    BY <2>2 DEF DiskInv, Disk, Settled
  <2>3. ASSUME pc \in {"rolledBack", "refused"}
        PROVE  loaded # "new" /\ cand = {}
    BY <2>3 DEF Job
  <2>4. ASSUME pc \in {"rolledBack", "refused"}, stops = 0
        PROVE  (loaded # NULL) = wasLoaded
    <3>1. loaded # NULL => wasLoaded
      BY <2>4 DEF Job
    <3>2. wasLoaded => loaded # NULL
      BY <2>4 DEF Job
    <3>3. wasLoaded \in BOOLEAN
      BY Zenon DEF SwitchesOK
    <3> QED BY <3>1, <3>2, <3>3, Zenon
  <2> QED BY <2>1, <2>2, <2>3, <2>4 DEF AllOrNothing
<1> QED
  BY <1>1, InitType, NextData, NextSwitches, InitDisk, NextDisk, InitJob, NextJob, PTL DEF Spec
-------------------------------------------------------------------------------
(* The process that answers *)

\* Only a loaded job has a process, and the script decides on an answer of the
\* very process it has noted: a process that is gone never comes back, because a
\* new one has a new number.
Heard ==
    /\ job # 0 => loaded # NULL
    /\ pc = "recheck" /\ job # 0 /\ job = pid => job \in answered
    /\ pc = "confirm" /\ job # 0 /\ job = readyPid => job \in answered

LEMMA NextHeard == DataOK /\ SwitchesOK /\ Job /\ Heard /\ [Next]_vars => Heard'
<1> SUFFICES ASSUME DataOK, SwitchesOK, Job, Heard, [Next]_vars PROVE Heard'
  OBVIOUS
<1> USE NullAssumption DEF DataOK, Heard, Goto, Fault, Discard, Pcs, Working, Critical, RollingBack,
        Ended, Files, Gens, disk, launchd, record, flags, wait, place, bounds
<1>1. CASE Prepare BY <1>1 DEF Prepare, Record
<1>2. CASE PrepareFails BY <1>2 DEF PrepareFails, Record
<1>3. CASE Arm BY <1>3 DEF Arm
<1>4. CASE Unload BY <1>4 DEF Unload
<1>5. CASE UnloadFails BY <1>5 DEF UnloadFails
<1>6. CASE Backup BY <1>6 DEF Backup, NeedsBackup
<1>7. CASE BackupFails BY <1>7 DEF BackupFails
<1>8. CASE Move BY <1>8 DEF Move
<1>9. CASE Moved BY <1>9 DEF Moved, AfterCritical
<1>10. CASE Place BY <1>10 DEF Place
<1>11. CASE Placed BY <1>11 DEF Placed, AfterCritical
<1>12. CASE RenameFails BY <1>12 DEF RenameFails
<1>13. CASE Load BY <1>13 DEF Load
<1>14. CASE LoadFails BY <1>14 DEF LoadFails, Job, Swapping
<1>15. CASE List BY <1>15 DEF List
<1>16. CASE Probe BY <1>16 DEF Probe
<1>17. CASE Curl BY <1>17 DEF Curl
<1>18. CASE Recheck BY <1>18 DEF Recheck, SameProcess
<1>19. CASE Pause BY <1>19 DEF Pause
<1>20. CASE Timeout BY <1>20 DEF Timeout
<1>21. CASE Confirm BY <1>21 DEF Confirm
<1>22. CASE Confirmed BY <1>22 DEF Confirmed
<1>23. CASE Clean BY <1>23 DEF Clean
<1>24. CASE Rollback BY <1>24 DEF Rollback, Begin, FirstOfRollback
<1>25. CASE StopJob BY <1>25 DEF StopJob
<1>26. CASE StopJobFails BY <1>26 DEF StopJobFails
<1>27. CASE Restore BY <1>27 DEF Restore, NextFile, FromBackup
<1>28. CASE RestoreFails BY <1>28 DEF RestoreFails, NextFile
<1>29. CASE Report BY <1>29 DEF Report, MustReload
<1>30. CASE Reload BY <1>30 DEF Reload
<1>31. CASE ReloadFails BY <1>31 DEF ReloadFails, Job
<1>32. CASE Signal BY <1>32 DEF Signal, OnSignal, Begin, FirstOfRollback
<1>33. CASE Spawn BY <1>33 DEF Spawn
<1>34. CASE Answer BY <1>34 DEF Answer
<1>35. CASE Die BY <1>35 DEF Die
<1>36. CASE UserStop BY <1>36 DEF UserStop
<1>37. CASE UNCHANGED vars BY <1>37 DEF vars
<1> QED
  BY <1>1, <1>2, <1>3, <1>4, <1>5, <1>6, <1>7, <1>8, <1>9, <1>10, <1>11, <1>12,
     <1>13, <1>14, <1>15, <1>16, <1>17, <1>18, <1>19, <1>20, <1>21, <1>22, <1>23,
     <1>24, <1>25, <1>26, <1>27, <1>28, <1>29, <1>30, <1>31, <1>32, <1>33, <1>34,
     <1>35, <1>36, <1>37 DEF Next, Script, Failure

\* The commit is decided while the process that answered is the one running, of
\* the new configuration, whoever dies, answers or is started meanwhile.
THEOREM CommittedWhileReady == Spec => ReadyWhenCommitted
<1>1. Init => Heard BY DEF Init, Heard
<1>2. DataOK /\ Job /\ Heard /\ [Next]_vars =>
        [pc = "confirm" /\ pc' = "confirmed" => loaded = "new" /\ job \in answered]_vars
  <2> SUFFICES ASSUME DataOK, Job, Heard, [Next]_vars, pc = "confirm", pc' = "confirmed"
               PROVE  loaded = "new" /\ job \in answered
    OBVIOUS
  <2>1. job # 0 /\ job = readyPid
    BY DEF Next, Script, Failure, vars, Goto,
       Prepare, PrepareFails, Arm, Unload, UnloadFails, Backup, BackupFails, Move, Moved,
       Place, Placed, RenameFails, Load, LoadFails, List, Probe, Curl, Recheck, Pause,
       Timeout, Confirm, Confirmed, Clean, Rollback, StopJob, StopJobFails, Restore,
       RestoreFails, Report, Reload, ReloadFails, Signal, OnSignal, Begin, FirstOfRollback,
       Spawn, Answer, Die, UserStop, CandidateRunning, place
  <2> QED BY <2>1 DEF Heard, Job, Waiting, DataOK, Gens
<1> QED BY <1>1, <1>2, NextHeard, InitType, NextData, NextSwitches, InitDisk, NextDisk, InitJob,
          NextJob, PTL DEF Spec, ReadyWhenCommitted

-------------------------------------------------------------------------------
(***************************************************************************)
(* The process that a switch starts (ServiceLifecycle): what is proved for *)
(* any number of processes on one data directory, whoever starts them.     *)
(*                                                                         *)
(* The inductive invariant.  Two loops would both need the kernel's lock;  *)
(* what has to be carried along is that fd and the lock agree (Owner), and *)
(* in which phase of its life a process can have the lock, a loop, a       *)
(* wake-up or the ready flag (PhasesFit): the lock is taken once the       *)
(* engine is bound, and given back before it is disposed and after the     *)
(* loop ended.                                                             *)
(***************************************************************************)
LeaderPhases == {"leading", "ready", "stopping", "releasing"}

Owner == \A i \in Processes : fd[i] <=> flock = i

PhaseFits(i) ==
    /\ fd[i] => phase[i] \in LeaderPhases /\ bound[i] /\ logging[i]
    /\ loop[i] # "none" => fd[i]
    /\ wake[i] => phase[i] = "releasing"
    /\ ready[i] => phase[i] = "ready"
    /\ phase[i] = "ready" => bound[i] /\ logging[i]
    /\ phase[i] \in {"ready", "stopping"} => /\ loop[i] # "cancelled"
                                             /\ fd[i] => loop[i] # "none"
    /\ phase[i] \in {"orphans", "schedule"} => bound[i]
    /\ phase[i] = "leading" => fd[i] /\ loop[i] = "none"
    /\ phase[i] \in StartPhases => logging[i]

PhasesFit == \A i \in Processes : PhaseFits(i)

LifeInv == LifeTypeOK /\ Owner /\ PhasesFit

USE ProcessAssumption DEF StartPhases, CleanupPhases, Phases, LoopPhases, LeaderPhases

LEMMA LifeInitInv == LifeInit => LifeInv
BY DEF LifeInit, LifeInv, LifeTypeOK, Owner, PhasesFit, PhaseFits

LEMMA LifeNextInv == LifeInv /\ [LifeNext]_lifeVars => LifeInv'
<1> SUFFICES ASSUME LifeInv, [LifeNext]_lifeVars PROVE LifeInv' OBVIOUS
<1>1. CASE UNCHANGED lifeVars BY <1>1 DEF lifeVars, lifeBounds, LifeInv, LifeTypeOK, Owner, PhasesFit, PhaseFits
<1>2. ASSUME NEW i \in Processes,
             \/ Boot(i) \/ Startup(i) \/ Shutdown(i) \/ Cleanup(i)
             \/ LoopStep(i) \/ CancelStop(i) \/ Crash(i)
      PROVE  LifeInv'
  <2> USE DEF LifeInv
  <2>1. CASE Boot(i)
    <3>1. LifeTypeOK' BY <2>1 DEF Boot, LifeTypeOK, Set, lifeBounds
    <3>2. Owner' BY <2>1 DEF Boot, LifeTypeOK, Owner, PhasesFit, PhaseFits, Set
    <3>3. PhasesFit' BY <2>1 DEF Boot, LifeTypeOK, Owner, PhasesFit, PhaseFits, Set
    <3> QED BY <3>1, <3>2, <3>3
  <2>2. CASE PrepareDatabase(i)
    <3>1. LifeTypeOK' BY <2>2 DEF PrepareDatabase, LifeTypeOK, Set, lifeBounds
    <3>2. Owner' BY <2>2 DEF PrepareDatabase, LifeTypeOK, Owner, PhasesFit, PhaseFits, Set
    <3>3. PhasesFit' BY <2>2 DEF PrepareDatabase, LifeTypeOK, Owner, PhasesFit, PhaseFits, Set
    <3> QED BY <3>1, <3>2, <3>3
  <2>3. CASE Bind(i)
    <3>1. LifeTypeOK' BY <2>3 DEF Bind, LifeTypeOK, Set, lifeBounds
    <3>2. Owner' BY <2>3 DEF Bind, LifeTypeOK, Owner, PhasesFit, PhaseFits, Set
    <3>3. PhasesFit' BY <2>3 DEF Bind, LifeTypeOK, Owner, PhasesFit, PhaseFits, Set
    <3> QED BY <3>1, <3>2, <3>3
  <2>4. CASE CleanOrphans(i)
    <3>1. LifeTypeOK' BY <2>4 DEF CleanOrphans, LifeTypeOK, Set, lifeBounds
    <3>2. Owner' BY <2>4 DEF CleanOrphans, LifeTypeOK, Owner, PhasesFit, PhaseFits, Set
    <3>3. PhasesFit' BY <2>4 DEF CleanOrphans, LifeTypeOK, Owner, PhasesFit, PhaseFits, Set
    <3> QED BY <3>1, <3>2, <3>3
  <2>5. CASE Lead(i)
    <3>1. LifeTypeOK' BY <2>5 DEF Lead, LockFree, LifeTypeOK, Set, lifeBounds
    <3>2. Owner' BY <2>5 DEF Lead, LockFree, LifeTypeOK, Owner, PhasesFit, PhaseFits, Set
    <3>3. PhasesFit' BY <2>5 DEF Lead, LockFree, LifeTypeOK, Owner, PhasesFit, PhaseFits, Set
    <3> QED BY <3>1, <3>2, <3>3
  <2>6. CASE StandBy(i)
    <3>1. LifeTypeOK' BY <2>6 DEF StandBy, LockFree, LifeTypeOK, Set, lifeBounds
    <3>2. Owner' BY <2>6 DEF StandBy, LockFree, LifeTypeOK, Owner, PhasesFit, PhaseFits, Set
    <3>3. PhasesFit' BY <2>6 DEF StandBy, LockFree, LifeTypeOK, Owner, PhasesFit, PhaseFits, Set
    <3> QED BY <3>1, <3>2, <3>3
  <2>7. CASE StartFails(i)
    <3>1. LifeTypeOK' BY <2>7 DEF StartFails, StepFails, LifeTypeOK, Set, lifeBounds
    <3>2. Owner' BY <2>7 DEF StartFails, StepFails, LifeTypeOK, Owner, PhasesFit, PhaseFits, Set
    <3>3. PhasesFit' BY <2>7 DEF StartFails, StepFails, LifeTypeOK, Owner, PhasesFit, PhaseFits, Set
    <3> QED BY <3>1, <3>2, <3>3
  <2>8. CASE Shutdown(i)
    <3>1. LifeTypeOK' BY <2>8 DEF Shutdown, StillReady, LifeTypeOK, Set, lifeBounds
    <3>2. Owner' BY <2>8 DEF Shutdown, StillReady, LifeTypeOK, Owner, PhasesFit, PhaseFits, Set
    <3>3. PhasesFit' BY <2>8 DEF Shutdown, StillReady, LifeTypeOK, Owner, PhasesFit, PhaseFits, Set
    <3> QED BY <3>1, <3>2, <3>3
  <2>9. CASE Stop(i)
    <3>1. LifeTypeOK' BY <2>9 DEF Stop, Woken, LifeTypeOK, Set, lifeBounds
    <3>2. Owner' BY <2>9 DEF Stop, Woken, LifeTypeOK, Owner, PhasesFit, PhaseFits, Set
    <3>3. PhasesFit' BY <2>9 DEF Stop, Woken, LifeTypeOK, Owner, PhasesFit, PhaseFits, Set
    <3> QED BY <3>1, <3>2, <3>3
  <2>10. CASE Release(i)
    <3>1. LifeTypeOK' BY <2>10 DEF Release, TaskDone, Unlocked, LifeTypeOK, Set, lifeBounds
    <3>2. Owner' BY <2>10 DEF Release, TaskDone, Unlocked, LifeTypeOK, Owner, PhasesFit, PhaseFits, Set
    <3>3. PhasesFit' BY <2>10 DEF Release, TaskDone, Unlocked, LifeTypeOK, Owner, PhasesFit, PhaseFits, Set
    <3> QED BY <3>1, <3>2, <3>3
  <2>11. CASE Dispose(i)
    <3>1. failed' \in Nat
      <4>1. failed' = failed \/ failed' = failed + 1 BY <2>11, Zenon DEF Dispose, StepFails
      <4>2. failed \in Nat BY DEF LifeTypeOK
      <4> QED BY <4>1, <4>2
    <3>2. bound' = Set(bound, i, FALSE) \/ bound' = bound BY <2>11 DEF Dispose
    <3>3. bound' \in [Processes -> BOOLEAN] BY <3>2 DEF LifeTypeOK, Set
    <3>4. LifeTypeOK' BY <2>11, <3>1, <3>3 DEF Dispose, LifeTypeOK, Set
    <3>5. Owner' BY <2>11 DEF Dispose, StepFails, LifeTypeOK, Owner, PhasesFit, PhaseFits, Set
    <3>6. PhasesFit' BY <2>11 DEF Dispose, StepFails, LifeTypeOK, Owner, PhasesFit, PhaseFits, Set
    <3> QED BY <3>4, <3>5, <3>6
  <2>12. CASE CloseLog(i)
    <3>1. LifeTypeOK' BY <2>12 DEF CloseLog, LifeTypeOK, Set, lifeBounds
    <3>2. Owner' BY <2>12 DEF CloseLog, LifeTypeOK, Owner, PhasesFit, PhaseFits, Set
    <3>3. PhasesFit' BY <2>12 DEF CloseLog, LifeTypeOK, Owner, PhasesFit, PhaseFits, Set
    <3> QED BY <3>1, <3>2, <3>3
  <2>13. CASE Select(i)
    <3>1. LifeTypeOK' BY <2>13 DEF Select, LifeTypeOK, Set, lifeBounds
    <3>2. Owner' BY <2>13 DEF Select, LifeTypeOK, Owner, PhasesFit, PhaseFits, Set
    <3>3. PhasesFit' BY <2>13 DEF Select, LifeTypeOK, Owner, PhasesFit, PhaseFits, Set
    <3> QED BY <3>1, <3>2, <3>3
  <2>14. CASE Item(i)
    <3>1. LifeTypeOK' BY <2>14 DEF Item, LifeTypeOK, Set, lifeBounds
    <3>2. Owner' BY <2>14 DEF Item, LifeTypeOK, Owner, PhasesFit, PhaseFits, Set
    <3>3. PhasesFit' BY <2>14 DEF Item, LifeTypeOK, Owner, PhasesFit, PhaseFits, Set
    <3> QED BY <3>1, <3>2, <3>3
  <2>15. CASE NextCycle(i)
    <3>1. LifeTypeOK' BY <2>15 DEF NextCycle, AfterWait, LifeTypeOK, Set, lifeBounds
    <3>2. Owner' BY <2>15 DEF NextCycle, AfterWait, LifeTypeOK, Owner, PhasesFit, PhaseFits, Set
    <3>3. PhasesFit' BY <2>15 DEF NextCycle, AfterWait, LifeTypeOK, Owner, PhasesFit, PhaseFits, Set
    <3> QED BY <3>1, <3>2, <3>3
  <2>16. CASE LoopEnds(i)
    <3>1. LifeTypeOK' BY <2>16 DEF LoopEnds, LifeTypeOK, Set, lifeBounds
    <3>2. Owner' BY <2>16 DEF LoopEnds, LifeTypeOK, Owner, PhasesFit, PhaseFits, Set
    <3>3. PhasesFit' BY <2>16 DEF LoopEnds, LifeTypeOK, Owner, PhasesFit, PhaseFits, Set
    <3> QED BY <3>1, <3>2, <3>3
  <2>17. CASE CancelStop(i)
    <3>1. LifeTypeOK' BY <2>17 DEF CancelStop, LifeTypeOK, Set, lifeBounds
    <3>2. Owner' BY <2>17 DEF CancelStop, LifeTypeOK, Owner, PhasesFit, PhaseFits, Set
    <3>3. PhasesFit' BY <2>17 DEF CancelStop, LifeTypeOK, Owner, PhasesFit, PhaseFits, Set
    <3> QED BY <3>1, <3>2, <3>3
  <2>18. CASE CreateTask(i)
    <3>1. failed' \in Nat
      <4>1. failed' = failed \/ failed' = failed + 1 BY <2>18, Zenon DEF CreateTask, StepFails
      <4>2. failed \in Nat BY DEF LifeTypeOK
      <4> QED BY <4>1, <4>2
    <3>2. LifeTypeOK' BY <2>18, <3>1 DEF CreateTask, LifeTypeOK, Set
    <3>3. Owner' BY <2>18 DEF CreateTask, StepFails, LifeTypeOK, Owner, PhasesFit, PhaseFits, Set
    <3>4. PhasesFit' BY <2>18 DEF CreateTask, StepFails, LifeTypeOK, Owner, PhasesFit, PhaseFits, Set
    <3> QED BY <3>2, <3>3, <3>4
  <2>19. CASE TaskFails(i)
    <3>1. LifeTypeOK' BY <2>19 DEF TaskFails, Unlocked, StepFails, LifeTypeOK, Set, lifeBounds
    <3>2. Owner' BY <2>19 DEF TaskFails, Unlocked, StepFails, LifeTypeOK, Owner, PhasesFit, PhaseFits, Set
    <3>3. PhasesFit' BY <2>19 DEF TaskFails, Unlocked, StepFails, LifeTypeOK, Owner, PhasesFit, PhaseFits, Set
    <3> QED BY <3>1, <3>2, <3>3
  <2>20. CASE Crash(i)
    <3>1. LifeTypeOK' BY <2>20 DEF Crash, LifeTypeOK, Set, lifeBounds
    <3>2. Owner' BY <2>20 DEF Crash, LifeTypeOK, Owner, PhasesFit, PhaseFits, Set
    <3>3. PhasesFit' BY <2>20 DEF Crash, LifeTypeOK, Owner, PhasesFit, PhaseFits, Set
    <3> QED BY <3>1, <3>2, <3>3
  <2> QED
    BY <1>2, <2>1, <2>2, <2>3, <2>4, <2>5, <2>6, <2>7, <2>8, <2>9, <2>10, <2>11, <2>12,
       <2>13, <2>14, <2>15, <2>16, <2>17, <2>18, <2>19, <2>20 DEF Startup, Cleanup, LoopStep
<1> QED BY <1>1, <1>2 DEF LifeNext

LEMMA LifeAlwaysInv == LifeSpec => []LifeInv
BY LifeInitInv, LifeNextInv, PTL DEF LifeSpec

\* No variable ever leaves its shape.
THEOREM LifeTypeCorrect == LifeSpec => []LifeTypeOK
<1>1. LifeInv => LifeTypeOK BY DEF LifeInv
<1> QED BY <1>1, LifeAlwaysInv, PTL

\* Never two update loops on one data directory, however many processes are
\* started on it, stopped, cancelled or killed.
THEOREM AtMostOneLoop == LifeSpec => []OneLoop
<1>1. LifeInv => OneLoop BY DEF LifeInv, Owner, PhasesFit, PhaseFits, OneLoop
<1> QED BY <1>1, LifeAlwaysInv, PTL

\* A loop runs with its engine bound, the event log open and the lock held.
THEOREM LoopKeepsResources == LifeSpec => []LoopHasResources
<1>1. LifeInv => LoopHasResources BY DEF LifeInv, LifeTypeOK, Owner, PhasesFit, PhaseFits, LoopHasResources
<1> QED BY <1>1, LifeAlwaysInv, PTL

\* A process that says it is ready is, and its loop, if it leads, is alive.
THEOREM ReadyIsUp == LifeSpec => []ReadyMeansUp
<1>1. LifeInv => ReadyMeansUp BY DEF LifeInv, LifeTypeOK, PhasesFit, PhaseFits, ReadyMeansUp
<1> QED BY <1>1, LifeAlwaysInv, PTL

\* The lock is never left with a process that has no use for it any more.
THEOREM LockIsUsed == LifeSpec => []LockServesLoop
<1>1. LifeInv => LockServesLoop BY DEF LifeInv, LifeTypeOK, Owner, PhasesFit, PhaseFits, LockServesLoop
<1> QED BY <1>1, LifeAlwaysInv, PTL
===============================================================================
