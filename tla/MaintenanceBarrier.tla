-------------------------- MODULE MaintenanceBarrier --------------------------
(***************************************************************************)
(* DatabaseRuntime (app/database.py): controlled sessions, the maintenance *)
(* barrier, and the restore and reset requests that dispose the engine,    *)
(* replace the live file and bind it again behind the barrier.             *)
(*                                                                         *)
(* Everything runs on one event loop and the bodies under _state_lock      *)
(* contain no await, so each of them is one step.  Every request first     *)
(* passes the admin middleware, which opens and closes a session of its    *)
(* own; restore and reset then hold no session, other handlers hold one.   *)
(***************************************************************************)
EXTENDS Integers, FiniteSets

CONSTANTS
    Clients,      \* requests with a session, scheduler items
    Maintainers,  \* restore and reset requests
    NULL,
    MaxWrites,    \* bound: commits by sessions
    MaxRuns,      \* bound: entries into the maintenance lock
    MaxFaults     \* bound: failing backups, rebuilds, binds, recoveries

Actors == Clients \cup Maintainers

ASSUME ActorsAssumption ==
    /\ IsFiniteSet(Clients) /\ IsFiniteSet(Maintainers)
    /\ Clients \cap Maintainers = {}
    /\ NULL \notin Actors /\ NULL \notin Nat
ASSUME BoundsAssumption == MaxWrites \in Nat /\ MaxRuns \in Nat /\ MaxFaults \in Nat

VARIABLES
    pc,           \* where each coroutine is suspended
    stage,        \* which of its sessions an actor is in: middleware, handler
    handle,       \* the generation of the file an open session reads and writes
    maintenance,  \* _maintenance
    allowed,      \* _sessions_allowed
    active,       \* _active_sessions
    drained,      \* _drained
    lock,         \* holder of _maintenance_lock
    engine,       \* generation the engine is bound to, NULL when unbound
    live,         \* the live file: its generation and its content
    stamp,        \* last content id given out
    kind,         \* restore or reset
    safety,       \* content of the safety backup of the current run
    outcome,      \* how the current run ends
    before,       \* history: content when the current run began
    broken,       \* history: the last recovery failed
    done,         \* history: successful runs
    runs, writes, faults  \* counters for the bounds

barrierVars == <<maintenance, allowed, active, drained>>
fileVars == <<engine, live, stamp>>
runVars == <<kind, safety, outcome, before, broken>>
bounds == <<runs, writes, faults>>
vars == <<pc, stage, handle, barrierVars, lock, fileVars, runVars, done, bounds>>

ClientPcs == {"idle", "entering", "waiting", "open"}
BodyPcs == {"begin", "disposed", "published", "recover", "recoverReplaced", "leaving"}
Pcs == ClientPcs \cup BodyPcs \cup {"queued", "draining", "drainWoken"}

OpenSessions == {p \in Actors : pc[p] = "open"}
InBody == lock # NULL /\ pc[lock] \in BodyPcs

Fault == faults < MaxFaults /\ faults' = faults + 1
Goto(p, l) == pc' = [pc EXCEPT ![p] = l]

-------------------------------------------------------------------------------
(* session() *)

\* The scheduler and the startup cleanup open a session directly, every HTTP
\* request starts in the middleware.
Arrive(p, st) ==
    /\ pc[p] = "idle"
    /\ st = "handler" => p \in Clients
    /\ Goto(p, "entering")
    /\ stage' = [stage EXCEPT ![p] = st]
    /\ UNCHANGED <<handle, barrierVars, lock, fileVars, runVars, done, bounds>>

\* _acquire_session_slot outside maintenance.
OneMore == active + 1

Bug_StaysDrained(n) == drained
DrainedAfterOpen(n) == IF n = 1 THEN FALSE ELSE drained

Acquire(p) ==
    /\ pc[p] = "entering" /\ ~maintenance /\ engine # NULL
    /\ Goto(p, "open")
    /\ handle' = [handle EXCEPT ![p] = engine]
    /\ active' = OneMore
    /\ drained' = DrainedAfterOpen(OneMore)
    /\ UNCHANGED <<stage, maintenance, allowed, lock, fileVars, runVars, done, bounds>>

\* The factory is None: RuntimeError (the middleware answers 503).
AcquireUnbound(p) ==
    /\ pc[p] = "entering" /\ ~maintenance /\ engine = NULL
    /\ Goto(p, "idle")
    /\ UNCHANGED <<stage, handle, barrierVars, lock, fileVars, runVars, done, bounds>>

\* During maintenance: await _sessions_allowed, then look again.
AcquireWait(p) ==
    /\ pc[p] = "entering" /\ maintenance
    /\ Goto(p, IF allowed THEN "entering" ELSE "waiting")
    /\ UNCHANGED <<stage, handle, barrierVars, lock, fileVars, runVars, done, bounds>>

\* The waiting request is cancelled.
CancelWait(p) ==
    /\ pc[p] \in {"entering", "waiting"}
    /\ Goto(p, "idle")
    /\ UNCHANGED <<stage, handle, barrierVars, lock, fileVars, runVars, done, bounds>>

\* A commit through an open session goes to the file that session has open.
Write(p) ==
    /\ pc[p] = "open" /\ stage[p] = "handler"
    /\ writes < MaxWrites
    /\ writes' = writes + 1
    /\ stamp' = stamp + 1
    /\ live' = IF handle[p] = live.gen THEN [live EXCEPT !.content = stamp'] ELSE live
    /\ UNCHANGED <<pc, stage, handle, barrierVars, lock, engine, runVars, done, runs, faults>>

\* _release_session_slot.  The last one sets _drained and wakes its waiter.
\* After the middleware the request is refused or goes on to its handler.
AfterClose(p, refused) ==
    IF stage[p] = "handler" \/ refused THEN "idle"
    ELSE IF p \in Maintainers THEN "queued" ELSE "entering"

Bug_OffByOne(left) == left < 0
LastClosed(left) == left = 0

Close(p, refused) ==
    LET left == active - 1 IN
    /\ pc[p] = "open"
    /\ pc' = [q \in Actors |->
                IF q = p THEN AfterClose(p, refused)
                ELSE IF LastClosed(left) /\ pc[q] = "draining" THEN "drainWoken" ELSE pc[q]]
    /\ stage' = [stage EXCEPT ![p] = "handler"]
    /\ handle' = [handle EXCEPT ![p] = NULL]
    /\ active' = left
    /\ drained' = IF LastClosed(left) THEN TRUE ELSE drained
    /\ UNCHANGED <<maintenance, allowed, lock, fileVars, runVars, done, bounds>>

-------------------------------------------------------------------------------
(* maintenance() *)

Bug_SkipsDrain == "drainWoken"
AwaitDrained == IF drained THEN "drainWoken" ELSE "draining"

\* Takes the lock, closes the gate, and waits for the open sessions to end.
TakeLock(m, k) ==
    /\ pc[m] = "queued" /\ lock = NULL
    /\ runs < MaxRuns /\ runs' = runs + 1
    /\ lock' = m
    /\ maintenance' = TRUE /\ allowed' = FALSE
    /\ kind' = k
    /\ Goto(m, AwaitDrained)
    /\ UNCHANGED <<stage, handle, active, drained, fileVars, safety, outcome,
                   before, broken, done, writes, faults>>

\* The wait for _drained returned: the body runs.
EnterBody(m) ==
    /\ pc[m] = "drainWoken"
    /\ Goto(m, "begin")
    /\ before' = live.content
    /\ safety' = NULL /\ outcome' = NULL
    /\ UNCHANGED <<stage, handle, barrierVars, lock, fileVars, kind, broken, done, bounds>>

\* The finally clause: the gate opens and the waiting actors wake.
OpenGate == maintenance' = FALSE /\ allowed' = TRUE

\* Cancelled before the body: the finally clause opens the gate again.
CancelDrain(m) ==
    /\ pc[m] \in {"draining", "drainWoken"}
    /\ pc' = [q \in Actors |->
                IF q = m THEN "idle" ELSE IF pc[q] = "waiting" THEN "entering" ELSE pc[q]]
    /\ OpenGate /\ lock' = NULL
    /\ UNCHANGED <<stage, handle, active, drained, fileVars, runVars, done, bounds>>

\* Cancelled while waiting for the maintenance lock.
CancelQueued(m) ==
    /\ pc[m] = "queued"
    /\ Goto(m, "idle")
    /\ UNCHANGED <<stage, handle, barrierVars, lock, fileVars, runVars, done, bounds>>

\* The body ended, one way or the other.
Leave(m) ==
    /\ pc[m] = "leaving"
    /\ pc' = [q \in Actors |->
                IF q = m THEN "idle" ELSE IF pc[q] = "waiting" THEN "entering" ELSE pc[q]]
    /\ OpenGate /\ lock' = NULL
    /\ done' = IF outcome = "ok" THEN done + 1 ELSE done
    /\ UNCHANGED <<stage, handle, active, drained, fileVars, runVars, bounds>>

-------------------------------------------------------------------------------
(* restore_backup and reset_database, inside the barrier *)

\* restore backs up first and, if that fails, leaves with the engine bound.
RestoreSafetyFails(m) ==
    /\ pc[m] = "begin" /\ kind = "restore"
    /\ Fault
    /\ outcome' = "failed"
    /\ Goto(m, "leaving")
    /\ UNCHANGED <<stage, handle, barrierVars, lock, fileVars, kind, safety, before, broken, done, runs, writes>>

\* restore: backup, dispose; reset: dispose, backup.
SafetyAndDispose(m) ==
    /\ pc[m] = "begin"
    /\ safety' = live.content
    /\ engine' = NULL
    /\ Goto(m, "disposed")
    /\ UNCHANGED <<stage, handle, barrierVars, lock, live, stamp, kind, outcome, before, broken, done, bounds>>

\* reset disposes first; its backup fails afterwards, inside the try.
ResetSafetyFails(m) ==
    /\ pc[m] = "begin" /\ kind = "reset"
    /\ Fault
    /\ engine' = NULL
    /\ Goto(m, "recover")
    /\ UNCHANGED <<stage, handle, barrierVars, lock, live, stamp, runVars, done, runs, writes>>

\* dispose is interrupted: the engine is still there, the recovery runs.
DisposeFails(m) ==
    /\ pc[m] = "begin"
    /\ Fault
    /\ safety' = IF kind = "restore" THEN live.content ELSE NULL
    /\ Goto(m, "recover")
    /\ UNCHANGED <<stage, handle, barrierVars, lock, fileVars, kind, outcome, before, broken, done, runs, writes>>

\* rebuild_from_source: a new file takes the place of live ...
Publish(m) ==
    /\ pc[m] = "disposed"
    /\ stamp' = stamp + 1
    /\ live' = [gen |-> live.gen + 1, content |-> stamp']
    /\ Goto(m, "published")
    /\ UNCHANGED <<stage, handle, barrierVars, lock, engine, runVars, done, bounds>>

\* ... or any of its steps fails and live is as it was.
PublishFails(m) ==
    /\ pc[m] = "disposed"
    /\ Fault
    /\ Goto(m, "recover")
    /\ UNCHANGED <<stage, handle, barrierVars, lock, fileVars, runVars, done, runs, writes>>

Bind(m) ==
    /\ pc[m] = "published"
    /\ engine' = live.gen
    /\ outcome' = "ok" /\ broken' = FALSE
    /\ Goto(m, "leaving")
    /\ UNCHANGED <<stage, handle, barrierVars, lock, live, stamp, kind, safety, before, done, bounds>>

BindFails(m) ==
    /\ pc[m] = "published"
    /\ Fault
    /\ Goto(m, "recoverReplaced")
    /\ UNCHANGED <<stage, handle, barrierVars, lock, fileVars, runVars, done, runs, writes>>

\* With live replaced, the safety backup is built into yet another file and
\* published; otherwise live is still the old file.
Bug_KeepsNewFile(m) == live
RecoveredFile(m) ==
    IF pc[m] = "recoverReplaced" THEN [gen |-> live.gen + 1, content |-> safety] ELSE live

Rebound(file) == file.gen

\* _recover_live_and_rebind succeeds.
Recover(m) ==
    /\ pc[m] \in {"recover", "recoverReplaced"}
    /\ live' = RecoveredFile(m)
    /\ engine' = Rebound(RecoveredFile(m))
    /\ outcome' = "failed" /\ broken' = FALSE
    /\ Goto(m, "leaving")
    /\ UNCHANGED <<stage, handle, barrierVars, lock, stamp, kind, safety, before, done, bounds>>

\* The recovery fails too: before or after it replaced the file again.
RecoverFails(m) ==
    /\ pc[m] \in {"recover", "recoverReplaced"}
    /\ Fault
    /\ live' \in {live, RecoveredFile(m)}
    /\ outcome' = "failed" /\ broken' = TRUE
    /\ Goto(m, "leaving")
    /\ UNCHANGED <<stage, handle, barrierVars, lock, engine, stamp, kind, safety, before, done, runs, writes>>

-------------------------------------------------------------------------------

SessionStep(p) ==
    \/ Acquire(p) \/ AcquireUnbound(p) \/ AcquireWait(p)
    \/ \E refused \in BOOLEAN : Close(p, refused)

BodyStep(m) ==
    \/ EnterBody(m) \/ RestoreSafetyFails(m) \/ SafetyAndDispose(m) \/ ResetSafetyFails(m) \/ DisposeFails(m)
    \/ Publish(m) \/ PublishFails(m) \/ Bind(m) \/ BindFails(m)
    \/ Recover(m) \/ RecoverFails(m) \/ Leave(m)

Init ==
    /\ pc = [p \in Actors |-> "idle"]
    /\ stage = [p \in Actors |-> "handler"]
    /\ handle = [p \in Actors |-> NULL]
    /\ maintenance = FALSE /\ allowed = TRUE /\ active = 0 /\ drained = TRUE
    /\ lock = NULL
    /\ engine = 0 /\ live = [gen |-> 0, content |-> 0] /\ stamp = 0
    /\ kind = "restore" /\ safety = NULL /\ outcome = NULL /\ before = 0
    /\ broken = FALSE
    /\ done = 0
    /\ runs = 0 /\ writes = 0 /\ faults = 0

Next ==
    \/ \E p \in Actors :
          \/ \E st \in {"middleware", "handler"} : Arrive(p, st)
          \/ SessionStep(p)
          \/ CancelWait(p)
          \/ Write(p)
    \/ \E m \in Maintainers :
          \/ \E k \in {"restore", "reset"} : TakeLock(m, k)
          \/ BodyStep(m)
          \/ CancelDrain(m)
          \/ CancelQueued(m)

\* Coroutines that can run do run, and every session ends: also the one that an
\* item holds across its fetch, whose reads have a timeout each, but no common
\* one.  Nobody is obliged to send requests or to queue for maintenance.
Spec ==
    /\ Init /\ [][Next]_vars
    /\ \A p \in Actors : WF_vars(SessionStep(p))
    /\ \A m \in Maintainers : WF_vars(BodyStep(m))

-------------------------------------------------------------------------------
(* Properties *)

\* Every variable stays within its declared shape.
TypeOK ==
    /\ pc \in [Actors -> Pcs]
    /\ stage \in [Actors -> {"middleware", "handler"}]
    /\ handle \in [Actors -> Nat \cup {NULL}]
    /\ maintenance \in BOOLEAN /\ allowed \in BOOLEAN /\ drained \in BOOLEAN
    /\ active \in Nat
    /\ lock \in Maintainers \cup {NULL}
    /\ engine \in Nat \cup {NULL}
    /\ live \in [gen: Nat, content: Nat]
    /\ stamp \in Nat
    /\ kind \in {"restore", "reset"}
    /\ safety \in Nat \cup {NULL} /\ before \in Nat
    /\ outcome \in {"ok", "failed", NULL}
    /\ broken \in BOOLEAN
    /\ done \in Nat /\ runs \in Nat /\ writes \in Nat /\ faults \in Nat

\* While the engine is being disposed, the file replaced or the engine bound,
\* no session is open anywhere, and nobody else is in maintenance.
MaintenanceExclusive ==
    /\ InBody => OpenSessions = {}
    /\ \A m \in Maintainers : pc[m] \in BodyPcs => lock = m

\* Every open session reads and writes the file that is live now, never the
\* inode of a replaced one ("nor opens the old inode", database.py:74).
NoStaleHandle == \A p \in OpenSessions : handle[p] = live.gen

\* The engine can only be unbound inside a maintenance body or after a
\* recovery failed, so a request never sees an unbound runtime otherwise.
UnboundOnlyIfBroken ==
    engine = NULL /\ ~InBody => broken

\* What a restore or reset promises, see AtomicStore: sessions see it happen
\* in one step or not at all, whatever fails on the way.
VisibleContent == IF InBody THEN before ELSE live.content
Down == engine = NULL /\ ~InBody
Visible == INSTANCE AtomicStore WITH
              Sessions <- Actors, Contents <- Nat, readers <- OpenSessions,
              store <- VisibleContent, swaps <- done, down <- Down
Refines == Visible!Init /\ [][Visible!Next]_(Visible!vars)

\* The barrier and its callers never wait for each other for ever: whoever
\* waits at the closed gate gets in, and a maintenance that closed the gate
\* reaches its end, because the sessions it waits for do.
NobodyStaysWaiting ==
    /\ \A p \in Actors : pc[p] = "waiting" ~> pc[p] \in {"open", "idle"}
    /\ \A m \in Maintainers : lock = m ~> lock # m

===============================================================================
