--------------------------- MODULE ServiceLifecycle ---------------------------
(***************************************************************************)
(* The lifespan of a process (app/bootstrap.py) and the update scheduler   *)
(* in it (services/subscription_scheduler.py): startup in order, a ready   *)
(* flag, one scheduler loop per data directory elected by flock, and a     *)
(* cleanup that runs to its end whatever fails.                            *)
(***************************************************************************)
EXTENDS Integers

CONSTANTS
    Processes,     \* processes started on one data directory
    NOBODY,        \* holds the lock while no process does
    MaxStepFaults, \* bound: failing steps
    MaxCrashes,    \* bound: crashes
    MaxBoots       \* bound: process starts

ASSUME ProcessAssumption == NOBODY \notin Processes
ASSUME LifecycleBounds == MaxStepFaults \in Nat /\ MaxCrashes \in Nat /\ MaxBoots \in Nat

VARIABLES
    phase,    \* where the lifespan of each process is
    logging,  \* the event log is open
    bound,    \* the engine is bound
    ready,    \* app.state.service_ready
    fd,       \* _lock_fd is set
    flock,    \* the process the kernel has given the lock to
    loop,     \* the scheduler task
    wake,     \* _wake is set
    failed, crashes, boots  \* counters for the bounds

lifeBounds == <<failed, crashes, boots>>
lifeVars == <<phase, logging, bound, ready, fd, flock, loop, wake, lifeBounds>>

StartPhases == {"prepare", "bind", "orphans", "schedule"}
CleanupPhases == {"stopping", "releasing", "disposing", "closing"}
Phases == {"down", "leading", "ready"} \cup StartPhases \cup CleanupPhases
LoopPhases == {"none", "select", "item", "wait", "cancelled"}

Set(f, i, x) == [f EXCEPT ![i] = x]
StepFails == failed < MaxStepFaults /\ failed' = failed + 1

-------------------------------------------------------------------------------
(* lifespan: startup *)

Boot(i) ==
    /\ phase[i] = "down" /\ boots < MaxBoots /\ boots' = boots + 1
    /\ phase' = Set(phase, i, "prepare")
    /\ logging' = Set(logging, i, TRUE)
    /\ UNCHANGED <<bound, ready, fd, flock, loop, wake, failed, crashes>>

PrepareDatabase(i) ==
    /\ phase[i] = "prepare"
    /\ phase' = Set(phase, i, "bind")
    /\ UNCHANGED <<logging, bound, ready, fd, flock, loop, wake, lifeBounds>>

Bind(i) ==
    /\ phase[i] = "bind"
    /\ bound' = Set(bound, i, TRUE)
    /\ phase' = Set(phase, i, "orphans")
    /\ UNCHANGED <<logging, ready, fd, flock, loop, wake, lifeBounds>>

CleanOrphans(i) ==
    /\ phase[i] = "orphans"
    /\ phase' = Set(phase, i, "schedule")
    /\ UNCHANGED <<logging, bound, ready, fd, flock, loop, wake, lifeBounds>>

\* start() takes the lock, as leader, and then creates the task, which has not
\* run when the process is ready: nothing here suspends.  It is on standby when
\* another process has the lock.
LockFree == flock = NOBODY

Lead(i) ==
    /\ phase[i] = "schedule" /\ LockFree
    /\ flock' = i /\ fd' = Set(fd, i, TRUE)
    /\ phase' = Set(phase, i, "leading")
    /\ UNCHANGED <<logging, bound, ready, loop, wake, lifeBounds>>

\* The announcement may still fail: cleanup, with a task.
CreateTask(i) ==
    /\ phase[i] = "leading"
    /\ loop' = Set(loop, i, "select") /\ wake' = Set(wake, i, FALSE)
    /\ \/ ready' = Set(ready, i, TRUE) /\ phase' = Set(phase, i, "ready") /\ UNCHANGED failed
       \/ StepFails /\ phase' = Set(phase, i, "stopping") /\ UNCHANGED ready
    /\ UNCHANGED <<logging, bound, fd, flock, crashes, boots>>

\* The lock is given back when there is no task to use it: cleanup.
Bug_KeepsLock(i) == flock
Unlocked(i) == IF fd[i] THEN NOBODY ELSE flock

TaskFails(i) ==
    /\ phase[i] = "leading" /\ StepFails
    /\ fd' = Set(fd, i, FALSE) /\ flock' = Unlocked(i)
    /\ phase' = Set(phase, i, "stopping")
    /\ UNCHANGED <<logging, bound, ready, loop, wake, crashes, boots>>

StandBy(i) ==
    /\ phase[i] = "schedule" /\ ~LockFree
    /\ ready' = Set(ready, i, TRUE)
    /\ phase' = Set(phase, i, "ready")
    /\ UNCHANGED <<logging, bound, fd, flock, loop, wake, lifeBounds>>

\* Any other step of the startup raises (the lock file is not a regular one,
\* the process is told to stop): cleanup.
StartFails(i) ==
    /\ phase[i] \in StartPhases
    /\ StepFails
    /\ phase' = Set(phase, i, "stopping")
    /\ UNCHANGED <<logging, bound, ready, fd, flock, loop, wake, crashes, boots>>

-------------------------------------------------------------------------------
(* the scheduler task *)

\* run_due_once selects the due subscriptions, then synchronizes each; errors
\* of an item or of a cycle end the item or the cycle, never the loop.
Select(i) ==
    /\ loop[i] = "select"
    /\ \E next \in {"item", "wait"} : loop' = Set(loop, i, next)
    /\ UNCHANGED <<phase, logging, bound, ready, fd, flock, wake, lifeBounds>>

Item(i) ==
    /\ loop[i] = "item"
    /\ loop' = Set(loop, i, "wait")
    /\ UNCHANGED <<phase, logging, bound, ready, fd, flock, wake, lifeBounds>>

\* The interval passed without a wake-up.
AfterWait(i) == "select"

NextCycle(i) ==
    /\ loop[i] = "wait" /\ ~wake[i]
    /\ loop' = Set(loop, i, AfterWait(i))
    /\ UNCHANGED <<phase, logging, bound, ready, fd, flock, wake, lifeBounds>>

\* A wake-up, or the delivery of a cancellation, ends the task.
LoopEnds(i) ==
    /\ \/ loop[i] = "wait" /\ wake[i]
       \/ loop[i] = "cancelled"
    /\ loop' = Set(loop, i, "none")
    /\ UNCHANGED <<phase, logging, bound, ready, fd, flock, wake, lifeBounds>>

-------------------------------------------------------------------------------
(* lifespan: cleanup *)

\* The server is told to stop: not ready from here on.
StillReady(i) == FALSE

Shutdown(i) ==
    /\ phase[i] = "ready"
    /\ ready' = Set(ready, i, StillReady(i))
    /\ phase' = Set(phase, i, "stopping")
    /\ UNCHANGED <<logging, bound, fd, flock, loop, wake, lifeBounds>>

\* stop() wakes the task ...
Bug_NoWake(i) == FALSE
Woken(i) == loop[i] # "none"

Stop(i) ==
    /\ phase[i] = "stopping"
    /\ wake' = Set(wake, i, Woken(i))
    /\ phase' = Set(phase, i, "releasing")
    /\ UNCHANGED <<logging, bound, ready, fd, flock, loop, lifeBounds>>

\* ... and waits for it.  Cancelling stop cancels the task it awaits, and
\* stop goes on only when that has ended too.
CancelStop(i) ==
    /\ phase[i] = "releasing" /\ loop[i] \notin {"none", "cancelled"}
    /\ loop' = Set(loop, i, "cancelled")
    /\ UNCHANGED <<phase, logging, bound, ready, fd, flock, wake, lifeBounds>>

Bug_NotAwaited(i) == TRUE
TaskDone(i) == loop[i] = "none"

Release(i) ==
    /\ phase[i] = "releasing" /\ TaskDone(i)
    /\ fd' = Set(fd, i, FALSE)
    /\ flock' = Unlocked(i)
    /\ wake' = Set(wake, i, FALSE)
    /\ phase' = Set(phase, i, "disposing")
    /\ UNCHANGED <<logging, bound, ready, loop, lifeBounds>>

\* An engine that cannot be closed stays, but the cleanup goes on.
Dispose(i) ==
    /\ phase[i] = "disposing"
    /\ \/ bound' = Set(bound, i, FALSE) /\ UNCHANGED failed
       \/ StepFails /\ UNCHANGED bound
    /\ phase' = Set(phase, i, "closing")
    /\ UNCHANGED <<logging, ready, fd, flock, loop, wake, crashes, boots>>

\* The event log is closed and the process ends.
CloseLog(i) ==
    /\ phase[i] = "closing"
    /\ logging' = Set(logging, i, FALSE)
    /\ bound' = Set(bound, i, FALSE)
    /\ phase' = Set(phase, i, "down")
    /\ UNCHANGED <<ready, fd, flock, loop, wake, lifeBounds>>

\* The process dies; the kernel drops its lock.
Crash(i) ==
    /\ phase[i] # "down" /\ crashes < MaxCrashes /\ crashes' = crashes + 1
    /\ phase' = Set(phase, i, "down")
    /\ logging' = Set(logging, i, FALSE) /\ bound' = Set(bound, i, FALSE)
    /\ ready' = Set(ready, i, FALSE) /\ fd' = Set(fd, i, FALSE)
    /\ flock' = IF flock = i THEN NOBODY ELSE flock
    /\ loop' = Set(loop, i, "none") /\ wake' = Set(wake, i, FALSE)
    /\ UNCHANGED <<failed, boots>>

-------------------------------------------------------------------------------

LifeInit ==
    /\ phase = [i \in Processes |-> "down"]
    /\ logging = [i \in Processes |-> FALSE] /\ bound = [i \in Processes |-> FALSE]
    /\ ready = [i \in Processes |-> FALSE] /\ fd = [i \in Processes |-> FALSE]
    /\ flock = NOBODY
    /\ loop = [i \in Processes |-> "none"] /\ wake = [i \in Processes |-> FALSE]
    /\ failed = 0 /\ crashes = 0 /\ boots = 0

Startup(i) ==
    \/ PrepareDatabase(i) \/ Bind(i) \/ CleanOrphans(i) \/ StartFails(i)
    \/ Lead(i) \/ CreateTask(i) \/ TaskFails(i) \/ StandBy(i)
LoopStep(i) == Select(i) \/ Item(i) \/ NextCycle(i) \/ LoopEnds(i)
Cleanup(i) == Stop(i) \/ Release(i) \/ Dispose(i) \/ CloseLog(i)

LifeNext ==
    \E i \in Processes :
       \/ Boot(i) \/ Startup(i) \/ Shutdown(i) \/ Cleanup(i)
       \/ LoopStep(i) \/ CancelStop(i) \/ Crash(i)

\* Coroutines that can run do run, and an item ends (a timeout limits each read
\* of a fetch, that their number is limited is assumed).
LifeSpec ==
    /\ LifeInit /\ [][LifeNext]_lifeVars
    /\ \A i \in Processes :
          WF_lifeVars(Startup(i)) /\ WF_lifeVars(Cleanup(i)) /\ WF_lifeVars(LoopStep(i))

-------------------------------------------------------------------------------
(* Properties *)

\* Every variable stays within its declared shape.
LifeTypeOK ==
    /\ phase \in [Processes -> Phases]
    /\ logging \in [Processes -> BOOLEAN] /\ bound \in [Processes -> BOOLEAN]
    /\ ready \in [Processes -> BOOLEAN] /\ fd \in [Processes -> BOOLEAN]
    /\ flock \in Processes \cup {NOBODY}
    /\ loop \in [Processes -> LoopPhases] /\ wake \in [Processes -> BOOLEAN]
    /\ failed \in Nat /\ crashes \in Nat /\ boots \in Nat

\* "Never two update loops" on a data directory (docs/RUNTIME_OPERATIONS.md:
\* 26-28), also while one process is still stopping or has been cancelled.
OneLoop ==
    \A i, j \in Processes : loop[i] # "none" /\ loop[j] # "none" => i = j

\* The loop never outlives what it uses: the engine, the event log, the lock.
LoopHasResources ==
    \A i \in Processes : loop[i] # "none" => bound[i] /\ logging[i] /\ fd[i] /\ flock = i

\* A process that announces itself ready has completed its whole startup and
\* has not begun to shut down: the leader's loop is alive, and a process
\* without one holds no lock that would keep others from running theirs.
ReadyMeansUp ==
    \A i \in Processes : ready[i] =>
        /\ phase[i] = "ready" /\ bound[i] /\ logging[i]
        /\ fd[i] <=> loop[i] # "none"

\* The lock is only ever held by a process that is about to create its loop,
\* runs it or has awaited its end; one whose task could not be created has
\* given it back when its cleanup begins (subscription_scheduler.py 66-103).
LockServesLoop ==
    flock # NOBODY =>
        fd[flock] /\ (loop[flock] # "none" \/ phase[flock] \in {"leading", "releasing"})

\* Every cleanup reaches its end, so a stopped leader gives up its lock.
ShutdownEnds == \A i \in Processes : phase[i] \in CleanupPhases ~> phase[i] = "down"

===============================================================================
