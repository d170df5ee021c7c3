----------------------- MODULE MaintenanceBarrierProofs -----------------------
(* What is proved of MaintenanceBarrier for any number of clients and        *)
(* maintainers and any bounds.                                               *)
EXTENDS MaintenanceBarrier, FiniteSetTheorems, TLAPS

(***************************************************************************)
(* The inductive invariant.  MaintenanceExclusive holds because the counter*)
(* that the drain waits for really counts the open sessions (Counted), the *)
(* gate is closed as long as somebody holds the lock (Gate), and so what   *)
(* was drained stays drained (Quiet).  NoStaleHandle needs in addition     *)
(* that a bound engine is bound to the live file (Current).                *)
(***************************************************************************)
HolderPcs == {"draining", "drainWoken"} \cup BodyPcs

Gate ==
    /\ maintenance <=> lock # NULL
    /\ allowed <=> ~maintenance
    /\ lock # NULL => pc[lock] \in HolderPcs
    /\ \A p \in Actors : pc[p] \in HolderPcs => p = lock

Counted ==
    /\ active = Cardinality(OpenSessions)
    /\ drained <=> active = 0

Quiet == lock # NULL /\ pc[lock] # "draining" => active = 0

Current ==
    /\ engine # NULL => engine = live.gen
    /\ lock # NULL /\ pc[lock] \in {"disposed", "published", "recoverReplaced"}
       => engine = NULL /\ safety \in Nat
    /\ \A p \in OpenSessions : engine # NULL /\ handle[p] = live.gen

Inv == TypeOK /\ Gate /\ Counted /\ Quiet /\ Current

USE DEF Actors, ClientPcs, BodyPcs, Pcs

LEMMA FiniteActors == IsFiniteSet(Actors)
BY ActorsAssumption, FS_Union

LEMMA FiniteOpen == IsFiniteSet(OpenSessions) /\ Cardinality(OpenSessions) \in Nat
<1>1. OpenSessions \subseteq Actors BY DEF OpenSessions
<1>2. IsFiniteSet(OpenSessions) BY <1>1, FiniteActors, FS_Subset
<1> QED BY <1>2, FS_CardinalityType

LEMMA InitInv == Init => Inv
<1> SUFFICES ASSUME Init PROVE Inv OBVIOUS
<1> USE DEF Init
<1>1. TypeOK BY DEF TypeOK
<1>2. OpenSessions = {} BY DEF OpenSessions
<1>3. Counted BY <1>2, FS_EmptySet DEF Counted
<1>4. Gate BY DEF Gate, HolderPcs
<1>5. Quiet BY DEF Quiet
<1>6. Current BY <1>2 DEF Current
<1> QED BY <1>1, <1>3, <1>4, <1>5, <1>6 DEF Inv

\* The actions of a session leave the maintenance machinery alone.
LEMMA SessionInv ==
    ASSUME Inv, NEW p \in Actors,
           \/ \E st \in {"middleware", "handler"} : Arrive(p, st)
           \/ SessionStep(p) \/ CancelWait(p) \/ Write(p)
    PROVE  Inv'
<1> USE DEF Inv
<1>0. /\ pc \in [Actors -> Pcs] /\ lock \in Maintainers \cup {NULL}
      /\ Maintainers \subseteq Actors
  BY DEF TypeOK
<1>1. ASSUME NEW st \in {"middleware", "handler"}, Arrive(p, st) PROVE Inv'
  <2>1. TypeOK' BY <1>1 DEF Arrive, Goto, TypeOK, barrierVars, fileVars, runVars, bounds
  <2>2. OpenSessions' = OpenSessions BY <1>0, <1>1 DEF Arrive, Goto, OpenSessions
  <2>3. Gate' BY <1>0, <1>1 DEF Arrive, Goto, Gate, HolderPcs, barrierVars
  <2>4. Counted' BY <1>1, <2>2 DEF Arrive, Counted, barrierVars
  <2>5. Quiet' BY <1>0, <1>1 DEF Arrive, Goto, Gate, HolderPcs, Quiet, barrierVars
  <2>6. Current' BY <1>0, <1>1, <2>2 DEF Arrive, Goto, Gate, HolderPcs, Current, fileVars, runVars
  <2> QED BY <2>1, <2>3, <2>4, <2>5, <2>6
<1>2. CASE Acquire(p)
  <2>1. TypeOK'
    <3>0. active' \in Nat BY <1>2 DEF Acquire, OneMore, TypeOK
    <3>1. drained' \in BOOLEAN
      <4>1. drained \in BOOLEAN BY DEF TypeOK
      <4>2. drained' = FALSE \/ drained' = drained BY <1>2, Zenon DEF Acquire, DrainedAfterOpen
      <4> QED BY <4>1, <4>2
    <3>2. pc' \in [Actors -> Pcs] BY <1>2 DEF Acquire, Goto, TypeOK
    <3>3. handle' \in [Actors -> Nat \cup {NULL}] BY <1>2 DEF Acquire, TypeOK
    <3> QED BY <1>2, <3>0, <3>1, <3>2, <3>3 DEF Acquire, TypeOK, fileVars, runVars, bounds
  <2>2. p \notin OpenSessions /\ OpenSessions' = OpenSessions \cup {p}
    BY <1>0, <1>2 DEF Acquire, Goto, OpenSessions
  <2>3. Cardinality(OpenSessions') = Cardinality(OpenSessions) + 1
    BY <2>2, FiniteOpen, FS_AddElement
  <2>4. lock = NULL BY <1>2 DEF Acquire, Gate
  <2>5. Gate' BY <1>0, <1>2, <2>4 DEF Acquire, Goto, Gate, HolderPcs
  <2>6. Counted'
    <3>1. active \in Nat /\ active' = active + 1 BY <1>2 DEF Acquire, OneMore, TypeOK
    <3>2. active' = Cardinality(OpenSessions') BY <2>3, <3>1 DEF Counted
    <3>3. active' # 0 BY <3>1
    <3>4. drained' = IF active' = 1 THEN FALSE ELSE drained
      BY <1>2, <3>1 DEF Acquire, OneMore, DrainedAfterOpen
    <3>5. ~drained'
      <4>1. CASE active' = 1 BY <3>4, <4>1
      <4>2. CASE active' # 1
        <5>1. active # 0 BY <3>1, <4>2
        <5> QED BY <3>4, <4>2, <5>1 DEF Counted
      <4> QED BY <4>1, <4>2
    <3> QED BY <3>2, <3>3, <3>5 DEF Counted
  <2>7. Quiet' BY <1>2, <2>4 DEF Acquire, Quiet
  <2>8. Current'
    <3>1. engine = live.gen /\ engine' = engine /\ live' = live /\ lock' = NULL
      BY <1>2, <2>4 DEF Acquire, Current, fileVars
    <3>2. \A q \in OpenSessions' : engine # NULL /\ handle'[q] = live.gen
      BY <1>2, <2>2, <3>1 DEF Acquire, Current, TypeOK, OpenSessions
    <3> QED BY <3>1, <3>2 DEF Current
  <2> QED BY <2>1, <2>5, <2>6, <2>7, <2>8
<1>3. ASSUME NEW l \in {"idle", "entering", "waiting"}, Goto(p, l),
             pc[p] \in {"entering", "waiting"},
             UNCHANGED <<stage, handle, barrierVars, lock, fileVars, runVars, done, bounds>>
      PROVE  Inv'
  <2>1. TypeOK' BY <1>3 DEF Goto, TypeOK, barrierVars, fileVars, runVars, bounds
  <2>2. OpenSessions' = OpenSessions BY <1>0, <1>3 DEF Goto, OpenSessions
  <2>3. Gate' BY <1>0, <1>3 DEF Goto, Gate, HolderPcs, barrierVars
  <2>4. Counted' BY <1>3, <2>2 DEF Counted, barrierVars
  <2>5. Quiet' BY <1>0, <1>3 DEF Goto, Gate, HolderPcs, Quiet, barrierVars
  <2>6. Current' BY <1>0, <1>3, <2>2 DEF Goto, Gate, HolderPcs, Current, fileVars, runVars
  <2> QED BY <2>1, <2>3, <2>4, <2>5, <2>6
<1>4. CASE Write(p)
  <2>1. TypeOK' BY <1>4 DEF Write, TypeOK, barrierVars, runVars
  <2>2. pc' = pc /\ OpenSessions' = OpenSessions BY <1>4 DEF Write, OpenSessions
  <2>3. Gate' BY <1>4, <2>2 DEF Write, Gate, barrierVars
  <2>4. Counted' BY <1>4, <2>2 DEF Write, Counted, barrierVars
  <2>5. Quiet' BY <1>4, <2>2 DEF Write, Quiet, barrierVars
  <2>6. live'.gen = live.gen BY <1>4 DEF Write, TypeOK
  <2>7. Current' BY <1>4, <2>2, <2>6 DEF Write, Current, runVars
  <2> QED BY <2>1, <2>3, <2>4, <2>5, <2>7
<1>5. ASSUME NEW refused \in BOOLEAN, Close(p, refused) PROVE Inv'
  <2>0. AfterClose(p, refused) \in {"idle", "queued", "entering"} BY DEF AfterClose
  <2>1. p \in OpenSessions /\ OpenSessions' = OpenSessions \ {p}
    BY <1>0, <1>5, <2>0 DEF Close, OpenSessions
  <2>2. Cardinality(OpenSessions') = Cardinality(OpenSessions) - 1
    BY <2>1, FiniteOpen, FS_RemoveElement
  <2>3. active' = Cardinality(OpenSessions') /\ active' \in Nat
    <3>1. active = Cardinality(OpenSessions) /\ active' = active - 1
      BY <1>5 DEF Close, Counted
    <3>2. IsFiniteSet(OpenSessions') BY <2>1, FiniteOpen, FS_RemoveElement
    <3>3. Cardinality(OpenSessions') \in Nat BY <3>2, FS_CardinalityType
    <3> QED BY <2>2, <3>1, <3>3
  <2>4. TypeOK'
    BY <1>5, <2>0, <2>3 DEF Close, LastClosed, TypeOK, fileVars, runVars, bounds
  <2>5. Counted'
    <3>1. active # 0 BY <1>5, <2>3 DEF Close, TypeOK
    <3>2. drained' = IF active' = 0 THEN TRUE ELSE drained
      BY <1>5 DEF Close, LastClosed
    <3> QED BY <2>3, <3>1, <3>2 DEF Counted
  <2>6. \A q \in Actors : \/ pc'[q] = pc[q]
                          \/ q = p /\ pc'[q] \in {"idle", "queued", "entering"}
                          \/ pc[q] = "draining" /\ pc'[q] = "drainWoken" /\ active' = 0
    BY <1>0, <1>5, <2>0 DEF Close, LastClosed
  <2>7. pc[p] = "open" /\ lock' = lock /\ maintenance' = maintenance /\ allowed' = allowed
    BY <1>5 DEF Close
  <2>8. Gate' BY <1>0, <2>6, <2>7 DEF Gate, HolderPcs
  <2>9. Quiet'
    <3>1. SUFFICES ASSUME lock # NULL, pc'[lock] # "draining" PROVE active' = 0
      BY <2>7 DEF Quiet
    <3>2. lock \in Actors /\ pc[lock] \in HolderPcs BY <1>0, <3>1 DEF Gate
    <3>3. CASE pc[lock] # "draining"
      <4>1. active = 0 BY <3>1, <3>3 DEF Quiet
      <4> QED BY <1>5, <2>3, <4>1 DEF Close
    <3>4. CASE pc[lock] = "draining" BY <2>6, <2>7, <3>1, <3>2, <3>4
    <3> QED BY <3>3, <3>4
  <2>10. Current'
    <3>1. engine' = engine /\ live' = live /\ safety' = safety BY <1>5 DEF Close, fileVars, runVars
    <3>2. \A q \in OpenSessions' : engine # NULL /\ handle'[q] = live.gen
      BY <1>5, <2>1 DEF Close, Current, TypeOK, OpenSessions
    <3>3. lock # NULL /\ pc'[lock] \in {"disposed", "published", "recoverReplaced"}
          => pc[lock] = pc'[lock]
      BY <1>0, <2>6
    <3> QED BY <2>7, <3>1, <3>2, <3>3 DEF Current
  <2> QED BY <2>4, <2>5, <2>8, <2>9, <2>10
<1> QED
  BY <1>1, <1>2, <1>3, <1>4, <1>5 DEF SessionStep, AcquireUnbound, AcquireWait, CancelWait
\* A step of the body moves one maintainer from one place of it to another and
\* leaves the barrier closed and drained.
BodyMove(m, l) ==
    /\ pc[m] \in BodyPcs \cup {"drainWoken"} /\ l \in BodyPcs
    /\ Goto(m, l)
    /\ UNCHANGED <<stage, handle, barrierVars, lock>>

LEMMA BodyMoveInv ==
    ASSUME Inv, NEW m \in Maintainers, NEW l, BodyMove(m, l)
    PROVE  /\ lock = m /\ OpenSessions = {} /\ OpenSessions' = {}
           /\ pc'[m] = l /\ pc' \in [Actors -> Pcs]
           /\ Gate' /\ Counted' /\ Quiet'
<1> USE DEF Inv
<1>0. pc \in [Actors -> Pcs] /\ m \in Actors /\ lock \in Maintainers \cup {NULL}
  BY DEF TypeOK
<1>1. lock = m BY <1>0 DEF Gate, HolderPcs, BodyMove
<1>1a. lock # NULL BY <1>1, ActorsAssumption
<1>2. active = 0 BY <1>1, <1>1a DEF Quiet, BodyMove
<1>3. OpenSessions = {} BY <1>2, FiniteOpen, FS_EmptySet DEF Counted
<1>4. OpenSessions' = {} BY <1>0, <1>3 DEF BodyMove, Goto, OpenSessions
<1>5. pc'[m] = l /\ pc' \in [Actors -> Pcs] BY <1>0 DEF BodyMove, Goto
<1>6. Gate' BY <1>0, <1>1, <1>1a DEF BodyMove, Goto, Gate, HolderPcs, barrierVars
<1>7. Counted' BY <1>3, <1>4 DEF BodyMove, Counted, barrierVars
<1>8. Quiet' BY <1>2 DEF BodyMove, Quiet, barrierVars
<1> QED BY <1>1, <1>3, <1>4, <1>5, <1>6, <1>7, <1>8

LEMMA BodyInv ==
    ASSUME Inv, NEW m \in Maintainers, BodyStep(m), ~Leave(m)
    PROVE  Inv'
<1> USE DEF Inv
<1>0. /\ pc \in [Actors -> Pcs] /\ m \in Actors /\ m # NULL
      /\ live \in [gen: Nat, content: Nat] /\ stamp \in Nat /\ NULL \notin Nat
  BY ActorsAssumption DEF TypeOK
<1>1. CASE EnterBody(m)
  <2>1. BodyMove(m, "begin") BY <1>1 DEF EnterBody, BodyMove
  <2>2. TypeOK' BY <1>0, <1>1, <2>1, BodyMoveInv DEF EnterBody, TypeOK, barrierVars, fileVars, bounds
  <2>3. Current' BY <1>0, <1>1, <2>1, BodyMoveInv DEF EnterBody, Current, fileVars
  <2> QED BY <2>1, <2>2, <2>3, BodyMoveInv
<1>2. CASE RestoreSafetyFails(m)
  <2>1. BodyMove(m, "leaving") BY <1>2 DEF RestoreSafetyFails, BodyMove
  <2>2. TypeOK'
    BY <1>0, <1>2, <2>1, BodyMoveInv DEF RestoreSafetyFails, Fault, TypeOK, barrierVars, fileVars
  <2>3. Current' BY <1>0, <1>2, <2>1, BodyMoveInv DEF RestoreSafetyFails, Current, fileVars
  <2> QED BY <2>1, <2>2, <2>3, BodyMoveInv
<1>3. CASE SafetyAndDispose(m)
  <2>1. BodyMove(m, "disposed") BY <1>3 DEF SafetyAndDispose, BodyMove
  <2>2. TypeOK'
    BY <1>0, <1>3, <2>1, BodyMoveInv DEF SafetyAndDispose, TypeOK, barrierVars, bounds
  <2>3. Current' BY <1>0, <1>3, <2>1, BodyMoveInv DEF SafetyAndDispose, Current
  <2> QED BY <2>1, <2>2, <2>3, BodyMoveInv
<1>4. CASE ResetSafetyFails(m)
  <2>1. BodyMove(m, "recover") BY <1>4 DEF ResetSafetyFails, BodyMove
  <2>2. TypeOK'
    BY <1>0, <1>4, <2>1, BodyMoveInv DEF ResetSafetyFails, Fault, TypeOK, barrierVars, runVars
  <2>3. Current' BY <1>0, <1>4, <2>1, BodyMoveInv DEF ResetSafetyFails, Current
  <2> QED BY <2>1, <2>2, <2>3, BodyMoveInv
<1>5. CASE DisposeFails(m)
  <2>1. BodyMove(m, "recover") BY <1>5 DEF DisposeFails, BodyMove
  <2>2. TypeOK'
    BY <1>0, <1>5, <2>1, BodyMoveInv DEF DisposeFails, Fault, TypeOK, barrierVars, fileVars
  <2>3. Current' BY <1>0, <1>5, <2>1, BodyMoveInv DEF DisposeFails, Current, fileVars
  <2> QED BY <2>1, <2>2, <2>3, BodyMoveInv
<1>6. CASE Publish(m)
  <2>1. BodyMove(m, "published") BY <1>6 DEF Publish, BodyMove
  <2>2. live' \in [gen: Nat, content: Nat] /\ stamp' \in Nat BY <1>0, <1>6 DEF Publish
  <2>3. TypeOK' BY <1>0, <1>6, <2>1, <2>2, BodyMoveInv DEF Publish, TypeOK, barrierVars, runVars, bounds
  <2>4. lock = m /\ engine = NULL /\ safety \in Nat
    BY <1>0, <1>6, <2>1, BodyMoveInv DEF Publish, Current
  <2>5. Current' BY <1>0, <1>6, <2>1, <2>4, BodyMoveInv DEF Publish, Current, runVars
  <2> QED BY <2>1, <2>3, <2>5, BodyMoveInv
<1>7. CASE PublishFails(m)
  <2>1. BodyMove(m, "recover") BY <1>7 DEF PublishFails, BodyMove
  <2>2. TypeOK'
    BY <1>0, <1>7, <2>1, BodyMoveInv DEF PublishFails, Fault, TypeOK, barrierVars, fileVars, runVars
  <2>3. Current' BY <1>0, <1>7, <2>1, BodyMoveInv DEF PublishFails, Current, fileVars
  <2> QED BY <2>1, <2>2, <2>3, BodyMoveInv
<1>8. CASE Bind(m)
  <2>1. BodyMove(m, "leaving") BY <1>8 DEF Bind, BodyMove
  <2>2. TypeOK' BY <1>0, <1>8, <2>1, BodyMoveInv DEF Bind, TypeOK, barrierVars, bounds
  <2>3. Current' BY <1>0, <1>8, <2>1, BodyMoveInv DEF Bind, Current
  <2> QED BY <2>1, <2>2, <2>3, BodyMoveInv
<1>9. CASE BindFails(m)
  <2>1. BodyMove(m, "recoverReplaced") BY <1>9 DEF BindFails, BodyMove
  <2>2. TypeOK'
    BY <1>0, <1>9, <2>1, BodyMoveInv DEF BindFails, Fault, TypeOK, barrierVars, fileVars, runVars
  <2>3. lock = m /\ engine = NULL /\ safety \in Nat
    BY <1>0, <1>9, <2>1, BodyMoveInv DEF BindFails, Current
  <2>4. Current' BY <1>0, <1>9, <2>1, <2>3, BodyMoveInv DEF BindFails, Current, fileVars, runVars
  <2> QED BY <2>1, <2>2, <2>4, BodyMoveInv
<1>10. ASSUME pc[m] \in {"recover", "recoverReplaced"}, BodyMove(m, "leaving")
       PROVE  /\ RecoveredFile(m) \in [gen: Nat, content: Nat]
              /\ pc[m] = "recover" => RecoveredFile(m) = live
              /\ pc[m] = "recoverReplaced" => engine = NULL
  <2>1. lock = m BY <1>10, BodyMoveInv
  <2>2. pc[m] = "recoverReplaced" => safety \in Nat /\ engine = NULL
    BY <1>0, <2>1 DEF Current
  <2> QED BY <1>0, <1>10, <2>2 DEF RecoveredFile
<1>11. CASE Recover(m)
  <2>1. BodyMove(m, "leaving") BY <1>11 DEF Recover, BodyMove
  <2>2. /\ live' \in [gen: Nat, content: Nat] /\ engine' = live'.gen /\ engine' \in Nat
    BY <1>10, <1>11, <2>1 DEF Recover, Rebound
  <2>3. TypeOK' BY <1>0, <1>11, <2>1, <2>2, BodyMoveInv DEF Recover, TypeOK, barrierVars, bounds
  <2>4. Current' BY <1>0, <1>11, <2>1, <2>2, BodyMoveInv DEF Recover, Current
  <2> QED BY <2>1, <2>3, <2>4, BodyMoveInv
<1>12. CASE RecoverFails(m)
  <2>1. BodyMove(m, "leaving") BY <1>12 DEF RecoverFails, BodyMove
  <2>2. /\ live' \in [gen: Nat, content: Nat] /\ engine' = engine
        /\ engine # NULL => live' = live
    BY <1>0, <1>10, <1>12, <2>1 DEF RecoverFails
  <2>3. TypeOK' BY <1>0, <1>12, <2>1, <2>2, BodyMoveInv DEF RecoverFails, Fault, TypeOK, barrierVars
  <2>4. Current' BY <1>0, <1>12, <2>1, <2>2, BodyMoveInv DEF RecoverFails, Current
  <2> QED BY <2>1, <2>3, <2>4, BodyMoveInv
<1> QED
  BY <1>1, <1>2, <1>3, <1>4, <1>5, <1>6, <1>7, <1>8, <1>9, <1>11, <1>12 DEF BodyStep

\* Taking the lock, and the two ways of giving it back.
LEMMA LockInv ==
    ASSUME Inv, NEW m \in Maintainers,
           \/ \E k \in {"restore", "reset"} : TakeLock(m, k)
           \/ Leave(m) \/ CancelDrain(m) \/ CancelQueued(m)
    PROVE  Inv'
<1> USE DEF Inv
<1>0. /\ pc \in [Actors -> Pcs] /\ m \in Actors /\ m # NULL
      /\ lock \in Maintainers \cup {NULL} /\ Maintainers \subseteq Actors
  BY ActorsAssumption DEF TypeOK
<1>1. ASSUME NEW k \in {"restore", "reset"}, TakeLock(m, k) PROVE Inv'
  <2>1. AwaitDrained \in {"draining", "drainWoken"} /\ (AwaitDrained = "drainWoken" => active = 0)
    BY DEF AwaitDrained, Counted
  <2>1a. pc' = [pc EXCEPT ![m] = AwaitDrained] /\ lock = NULL /\ lock' = m
    BY <1>1 DEF TakeLock, Goto
  <2>2. TypeOK'
    <3>1. pc' \in [Actors -> Pcs] BY <1>0, <2>1, <2>1a
    <3>2. runs' \in Nat BY <1>1 DEF TakeLock, TypeOK
    <3> QED BY <1>0, <1>1, <3>1, <3>2 DEF TakeLock, TypeOK, fileVars
  <2>3. OpenSessions' = OpenSessions BY <1>0, <1>1, <2>1 DEF TakeLock, Goto, OpenSessions
  <2>4. Gate'
    <3>1. \A p \in Actors : pc[p] \notin HolderPcs BY <2>1a, ActorsAssumption DEF Gate
    <3>2. pc'[m] \in HolderPcs BY <1>0, <2>1, <2>1a DEF HolderPcs
    <3>3. \A p \in Actors : pc'[p] \in HolderPcs => p = m BY <1>0, <2>1a, <3>1
    <3>4. maintenance' /\ ~allowed' BY <1>1 DEF TakeLock
    <3> QED BY <1>0, <2>1a, <3>2, <3>3, <3>4 DEF Gate
  <2>5. Counted' BY <1>1, <2>3 DEF TakeLock, Counted
  <2>6. Quiet' BY <1>0, <1>1, <2>1 DEF TakeLock, Goto, Quiet
  <2>7. Current' BY <1>0, <1>1, <2>1, <2>3 DEF TakeLock, Goto, Current, fileVars
  <2> QED BY <2>2, <2>4, <2>5, <2>6, <2>7
<1>2. ASSUME pc[m] \in HolderPcs, OpenGate, lock' = NULL,
             pc' = [q \in Actors |->
                IF q = m THEN "idle" ELSE IF pc[q] = "waiting" THEN "entering" ELSE pc[q]],
             done' \in Nat,
             UNCHANGED <<stage, handle, active, drained, fileVars, runVars, bounds>>
      PROVE  Inv'
  <2>1. pc[m] # "open" BY <1>2 DEF HolderPcs
  <2>2. TypeOK' BY <1>0, <1>2 DEF OpenGate, TypeOK, fileVars, runVars, bounds
  <2>3. OpenSessions' = OpenSessions BY <1>0, <1>2, <2>1 DEF OpenSessions
  <2>4. lock = m BY <1>0, <1>2 DEF Gate
  <2>5. Gate' BY <1>0, <1>2, <2>4 DEF OpenGate, Gate, HolderPcs
  <2>6. Counted' BY <1>2, <2>3 DEF Counted
  <2>7. Quiet' BY <1>2 DEF Quiet
  <2>8. Current' BY <1>2, <2>3 DEF Current, fileVars, runVars
  <2> QED BY <2>2, <2>5, <2>6, <2>7, <2>8
<1>3. CASE Leave(m)
  <2>1. done' \in Nat BY <1>3 DEF Leave, TypeOK
  <2> QED BY <1>2, <1>3, <2>1 DEF Leave, HolderPcs
<1>4. CASE CancelDrain(m)
  <2>1. done' \in Nat BY <1>4 DEF CancelDrain, TypeOK
  <2> QED BY <1>2, <1>4, <2>1 DEF CancelDrain, HolderPcs
<1>5. CASE CancelQueued(m)
  <2>1. TypeOK' BY <1>0, <1>5 DEF CancelQueued, Goto, TypeOK, barrierVars, fileVars, runVars, bounds
  <2>2. OpenSessions' = OpenSessions BY <1>0, <1>5 DEF CancelQueued, Goto, OpenSessions
  <2>3. Gate' BY <1>0, <1>5 DEF CancelQueued, Goto, Gate, HolderPcs, barrierVars
  <2>4. Counted' BY <1>5, <2>2 DEF CancelQueued, Counted, barrierVars
  <2>5. Quiet' BY <1>0, <1>5 DEF CancelQueued, Goto, Gate, HolderPcs, Quiet, barrierVars
  <2>6. Current' BY <1>0, <1>5, <2>2 DEF CancelQueued, Goto, Gate, HolderPcs, Current, fileVars, runVars
  <2> QED BY <2>1, <2>3, <2>4, <2>5, <2>6
<1> QED BY <1>1, <1>3, <1>4, <1>5

LEMMA NextInv == Inv /\ [Next]_vars => Inv'
<1> SUFFICES ASSUME Inv, [Next]_vars PROVE Inv' OBVIOUS
<1>1. CASE Next
  <2>1. ASSUME NEW p \in Actors,
               \/ \E st \in {"middleware", "handler"} : Arrive(p, st)
               \/ SessionStep(p) \/ CancelWait(p) \/ Write(p)
        PROVE  Inv'
    BY <2>1, SessionInv
  <2>2. ASSUME NEW m \in Maintainers,
               \/ \E k \in {"restore", "reset"} : TakeLock(m, k)
               \/ BodyStep(m) \/ CancelDrain(m) \/ CancelQueued(m)
        PROVE  Inv'
    BY <2>2, BodyInv, LockInv
  <2> QED BY <1>1, <2>1, <2>2 DEF Next
<1>2. CASE UNCHANGED vars
  <2>1. OpenSessions' = OpenSessions BY <1>2 DEF vars, OpenSessions
  <2> QED
    BY <1>2, <2>1 DEF Inv, vars, barrierVars, fileVars, runVars, bounds,
                      TypeOK, Gate, Counted, Quiet, Current
<1> QED BY <1>1, <1>2

LEMMA AlwaysInv == Spec => []Inv
BY InitInv, NextInv, PTL DEF Spec

\* No variable ever leaves its shape.
THEOREM TypeCorrect == Spec => []TypeOK
<1>1. Inv => TypeOK BY DEF Inv
<1> QED BY <1>1, AlwaysInv, PTL

\* However many requests and maintainers there are, dispose, the replacement
\* and bind run with no session open and by the one holder of the lock.
THEOREM ExclusiveMaintenance == Spec => []MaintenanceExclusive
<1>1. Inv => MaintenanceExclusive
  <2> SUFFICES ASSUME Inv PROVE MaintenanceExclusive OBVIOUS
  <2>1. InBody => OpenSessions = {}
    <3> SUFFICES ASSUME InBody PROVE OpenSessions = {} OBVIOUS
    <3>1. active = 0 BY DEF Inv, InBody, Quiet
    <3> QED BY <3>1, FiniteOpen, FS_EmptySet DEF Inv, Counted
  <2>2. \A m \in Maintainers : pc[m] \in BodyPcs => lock = m BY DEF Inv, Gate, HolderPcs
  <2> QED BY <2>1, <2>2 DEF MaintenanceExclusive
<1> QED BY <1>1, AlwaysInv, PTL

\* No session survives a replacement of the file it has open.
THEOREM HandlesAreCurrent == Spec => []NoStaleHandle
<1>1. Inv => NoStaleHandle BY DEF Inv, Current, NoStaleHandle
<1> QED BY <1>1, AlwaysInv, PTL

(***************************************************************************)
(* Atomicity of restore and reset.  Story follows the content of the live  *)
(* file through a run: it is the one the run began with until a new file   *)
(* is published, from then on the safety backup has it, and a run that     *)
(* leaves without success has put it back unless the recovery failed.      *)
(***************************************************************************)
At(l) == lock # NULL /\ pc[lock] = l

Story ==
    /\ At("begin") \/ At("disposed") \/ At("recover") => live.content = before
    /\ At("disposed") \/ At("published") \/ At("recoverReplaced") => safety = before
    /\ At("leaving") => /\ outcome \in {"ok", "failed"}
                        /\ outcome = "ok" => engine # NULL
                        /\ outcome = "failed" /\ engine # NULL => live.content = before
    /\ engine = NULL /\ (~InBody \/ At("begin") \/ At("leaving")) => broken

\* What a session's step leaves alone.
LEMMA SessionFrame ==
    ASSUME Inv, NEW p \in Actors,
           \/ \E st \in {"middleware", "handler"} : Arrive(p, st)
           \/ SessionStep(p) \/ CancelWait(p) \/ Write(p)
    PROVE  /\ lock' = lock /\ engine' = engine /\ UNCHANGED <<runVars, done>>
           /\ InBody' = InBody
           /\ \A l \in BodyPcs : At(l)' = At(l)
           /\ live' # live => ~InBody
<1> USE DEF Inv
<1>0. /\ pc \in [Actors -> Pcs] /\ lock \in Maintainers \cup {NULL}
      /\ Maintainers \subseteq Actors
  BY DEF TypeOK
<1>1. lock' = lock /\ engine' = engine /\ UNCHANGED <<runVars, done>>
  BY DEF SessionStep, Arrive, Acquire, AcquireUnbound, AcquireWait, Close, CancelWait, Write, fileVars
<1>2. \A q \in Actors : \/ pc'[q] = pc[q]
                        \/ pc[q] = "draining" /\ pc'[q] = "drainWoken"
                        \/ q = p /\ pc[q] \notin HolderPcs /\ pc'[q] \notin HolderPcs
  <2>1. ASSUME NEW refused \in BOOLEAN, Close(p, refused)
        PROVE  \A q \in Actors : \/ pc'[q] = pc[q]
                                 \/ pc[q] = "draining" /\ pc'[q] = "drainWoken"
                                 \/ q = p /\ pc[q] \notin HolderPcs /\ pc'[q] \notin HolderPcs
    BY <1>0, <2>1 DEF Close, AfterClose, HolderPcs
  <2> QED
    BY <1>0, <2>1 DEF SessionStep, Arrive, Acquire, AcquireUnbound, AcquireWait, CancelWait,
                      Write, Goto, HolderPcs
<1>3. \A l \in BodyPcs : At(l)' = At(l) BY <1>0, <1>1, <1>2 DEF At, HolderPcs
<1>4. InBody' = InBody BY <1>0, <1>1, <1>2 DEF InBody, HolderPcs
<1>5. live' # live => ~InBody
  <2> SUFFICES ASSUME live' # live, InBody PROVE FALSE OBVIOUS
  <2>1. Write(p)
    BY DEF SessionStep, Arrive, Acquire, AcquireUnbound, AcquireWait, Close, CancelWait, fileVars
  <2>2. p \in OpenSessions BY <2>1 DEF Write, OpenSessions
  <2>3. active = 0 BY DEF InBody, Quiet
  <2>4. OpenSessions = {} BY <2>3, FiniteOpen, FS_EmptySet DEF Counted
  <2> QED BY <2>2, <2>4
<1> QED BY <1>1, <1>3, <1>4, <1>5

\* What a step of the body other than its first and last leaves alone.
LEMMA BodyFrame ==
    ASSUME Inv, NEW m \in Maintainers, BodyStep(m), ~Leave(m)
    PROVE  /\ lock = m /\ lock' = m /\ m # NULL /\ InBody'
           /\ OpenSessions = {} /\ OpenSessions' = {} /\ done' = done
           /\ ~EnterBody(m) => InBody /\ before' = before
<1>1. PICK l \in BodyPcs : BodyMove(m, l)
  BY DEF BodyStep, EnterBody, RestoreSafetyFails, SafetyAndDispose, ResetSafetyFails, DisposeFails,
         Publish, PublishFails, Bind, BindFails, Recover, RecoverFails, BodyMove
<1>2. lock = m /\ lock' = m /\ pc'[m] = l /\ OpenSessions = {} /\ OpenSessions' = {}
  BY <1>1, BodyMoveInv DEF BodyMove
<1>3. m # NULL BY ActorsAssumption
<1>4. InBody' BY <1>1, <1>2, <1>3 DEF InBody
<1>5. done' = done
  BY DEF BodyStep, EnterBody, RestoreSafetyFails, SafetyAndDispose, ResetSafetyFails, DisposeFails,
         Publish, PublishFails, Bind, BindFails, Recover, RecoverFails
<1>6. ~EnterBody(m) => InBody /\ before' = before
  BY <1>2, <1>3
     DEF BodyStep, RestoreSafetyFails, SafetyAndDispose, ResetSafetyFails, DisposeFails, InBody,
         Publish, PublishFails, Bind, BindFails, Recover, RecoverFails, runVars
<1> QED BY <1>2, <1>3, <1>4, <1>5, <1>6

LEMMA BodyStory ==
    ASSUME Inv, Story, NEW m \in Maintainers, BodyStep(m), ~Leave(m)
    PROVE  Story'
<1>0. /\ lock = m /\ lock' = m /\ m # NULL /\ m \in Actors /\ InBody'
      /\ pc \in [Actors -> Pcs] /\ NULL \notin Nat
      /\ live \in [gen: Nat, content: Nat]
  BY BodyFrame, ActorsAssumption DEF Inv, TypeOK
<1>1. CASE EnterBody(m)
  <2>1. ~InBody BY <1>0, <1>1 DEF EnterBody, InBody
  <2> QED BY <1>0, <1>1, <2>1 DEF EnterBody, Goto, Story, At, fileVars
<1>2. CASE RestoreSafetyFails(m)
  BY <1>0, <1>2 DEF RestoreSafetyFails, Goto, Story, At, fileVars
<1>3. CASE SafetyAndDispose(m) BY <1>0, <1>3 DEF SafetyAndDispose, Goto, Story, At
<1>4. CASE ResetSafetyFails(m) BY <1>0, <1>4 DEF ResetSafetyFails, Goto, Story, At, runVars
<1>5. CASE DisposeFails(m) BY <1>0, <1>5 DEF DisposeFails, Goto, Story, At, fileVars
<1>6. CASE Publish(m) BY <1>0, <1>6 DEF Publish, Goto, Story, At, runVars
<1>7. CASE PublishFails(m) BY <1>0, <1>7 DEF PublishFails, Goto, Story, At, fileVars, runVars
<1>8. CASE Bind(m) BY <1>0, <1>8 DEF Bind, Goto, Story, At
<1>9. CASE BindFails(m) BY <1>0, <1>9 DEF BindFails, Goto, Story, At, fileVars, runVars
<1>10. CASE Recover(m)
  <2>1. live'.content = before /\ engine' = live'.gen
    BY <1>0, <1>10 DEF Recover, Rebound, RecoveredFile, Story, At
  <2>2. engine' # NULL
    <3>1. Inv' BY <1>10, BodyInv DEF BodyStep
    <3>2. live'.gen \in Nat BY <3>1 DEF Inv, TypeOK
    <3> QED BY <1>0, <2>1, <3>2
  <2> QED BY <1>0, <1>10, <2>1, <2>2 DEF Recover, Goto, Story, At
<1>11. CASE RecoverFails(m)
  <2>1. engine # NULL => pc[m] = "recover"
    BY <1>0, <1>11 DEF RecoverFails, Inv, Current
  <2>2. engine # NULL => live'.content = before
    BY <1>0, <1>11, <2>1 DEF RecoverFails, RecoveredFile, Story, At
  <2> QED BY <1>0, <1>11, <2>2 DEF RecoverFails, Goto, Story, At
<1> QED
  BY <1>1, <1>2, <1>3, <1>4, <1>5, <1>6, <1>7, <1>8, <1>9, <1>10, <1>11 DEF BodyStep

\* Taking and returning the lock: no body runs before, except for Leave, and
\* none runs afterwards.
LEMMA LockFrame ==
    ASSUME Inv, NEW m \in Maintainers,
           \/ \E k \in {"restore", "reset"} : TakeLock(m, k)
           \/ Leave(m) \/ CancelDrain(m) \/ CancelQueued(m)
    PROVE  /\ OpenSessions' = OpenSessions
           /\ UNCHANGED <<fileVars, outcome, before, broken>>
           /\ Leave(m) => At("leaving") /\ InBody /\ ~InBody' /\ lock' = NULL
           /\ ~Leave(m) => /\ done' = done /\ InBody' = InBody
                           /\ safety' = safety
                           /\ \A l \in BodyPcs : At(l)' = At(l)
<1> USE DEF Inv
<1>0. /\ pc \in [Actors -> Pcs] /\ m \in Actors /\ m # NULL
      /\ lock \in Maintainers \cup {NULL} /\ Maintainers \subseteq Actors
  BY ActorsAssumption DEF TypeOK
<1>1. ASSUME NEW k \in {"restore", "reset"}, TakeLock(m, k)
      PROVE  /\ OpenSessions' = OpenSessions
             /\ UNCHANGED <<fileVars, outcome, before, broken>>
             /\ ~Leave(m) /\ done' = done /\ safety' = safety /\ InBody' = InBody
             /\ \A l \in BodyPcs : At(l)' = At(l)
  <2>1. lock = NULL /\ lock' = m /\ pc' = [pc EXCEPT ![m] = AwaitDrained]
    BY <1>1 DEF TakeLock, Goto
  <2>2. AwaitDrained \in {"draining", "drainWoken"} BY DEF AwaitDrained
  <2>3. OpenSessions' = OpenSessions BY <1>0, <1>1, <2>1, <2>2 DEF TakeLock, OpenSessions
  <2>4. InBody' = InBody BY <1>0, <2>1, <2>2 DEF InBody
  <2>5. \A l \in BodyPcs : At(l)' = At(l) BY <1>0, <2>1, <2>2 DEF At
  <2>6. UNCHANGED <<fileVars, outcome, before, broken>> BY <1>1 DEF TakeLock
  <2>7. done' = done /\ safety' = safety /\ ~Leave(m) BY <1>1 DEF TakeLock, Leave
  <2> QED BY <2>3, <2>4, <2>5, <2>6, <2>7
<1>2. CASE Leave(m)
  <2>1. lock = m BY <1>0, <1>2 DEF Leave, Gate, HolderPcs
  <2> QED BY <1>0, <1>2, <2>1 DEF Leave, OpenSessions, InBody, At, runVars
<1>3. CASE CancelDrain(m)
  <2>1. lock = m BY <1>0, <1>3 DEF CancelDrain, Gate, HolderPcs
  <2>2. ~Leave(m) BY <1>3 DEF CancelDrain, Leave
  <2> QED BY <1>0, <1>3, <2>1, <2>2 DEF CancelDrain, OpenSessions, InBody, At, runVars
<1>4. CASE CancelQueued(m)
  <2>1. lock # m BY <1>0, <1>4 DEF CancelQueued, Gate, HolderPcs
  <2>2. ~Leave(m) BY <1>4 DEF CancelQueued, Leave
  <2>3. OpenSessions' = OpenSessions BY <1>0, <1>4 DEF CancelQueued, Goto, OpenSessions
  <2>4. lock' = lock /\ (lock # NULL => pc'[lock] = pc[lock])
    BY <1>0, <1>4, <2>1 DEF CancelQueued, Goto
  <2>5. InBody' = InBody /\ \A l \in BodyPcs : At(l)' = At(l) BY <2>4 DEF InBody, At
  <2>6. UNCHANGED <<fileVars, outcome, before, broken>> /\ done' = done /\ safety' = safety
    BY <1>4 DEF CancelQueued, runVars
  <2> QED BY <2>2, <2>3, <2>5, <2>6
<1> QED BY <1>1, <1>2, <1>3, <1>4

LEMMA StoryNext == Inv /\ Story /\ [Next]_vars => Story'
<1> SUFFICES ASSUME Inv, Story, [Next]_vars PROVE Story' OBVIOUS
<1>1. CASE Next
  <2>1. ASSUME NEW p \in Actors,
               \/ \E st \in {"middleware", "handler"} : Arrive(p, st)
               \/ SessionStep(p) \/ CancelWait(p) \/ Write(p)
        PROVE  Story'
    <3>1. /\ engine' = engine /\ safety' = safety /\ outcome' = outcome /\ before' = before
          /\ broken' = broken /\ InBody' = InBody /\ \A l \in BodyPcs : At(l)' = At(l)
      BY <2>1, SessionFrame DEF runVars
    <3>2. \A l \in BodyPcs : At(l) => live' = live BY <2>1, SessionFrame DEF At, InBody
    <3> QED BY <3>1, <3>2 DEF Story
  <2>2. ASSUME NEW m \in Maintainers, BodyStep(m), ~Leave(m) PROVE Story'
    BY <2>2, BodyStory
  <2>3. ASSUME NEW m \in Maintainers,
               \/ \E k \in {"restore", "reset"} : TakeLock(m, k)
               \/ Leave(m) \/ CancelDrain(m) \/ CancelQueued(m)
        PROVE  Story'
    <3>1. UNCHANGED <<fileVars, outcome, before, broken>> BY <2>3, LockFrame
    <3>2. CASE Leave(m)
      <4>1. At("leaving") /\ lock' = NULL /\ ~InBody' BY <2>3, <3>2, LockFrame
      <4> QED BY <3>1, <4>1 DEF Story, At, fileVars
    <3>3. CASE ~Leave(m)
      <4>1. safety' = safety /\ InBody' = InBody /\ \A l \in BodyPcs : At(l)' = At(l)
        BY <2>3, <3>3, LockFrame
      <4> QED BY <3>1, <4>1 DEF Story, fileVars
    <3> QED BY <3>2, <3>3
  <2> QED BY <1>1, <2>1, <2>2, <2>3 DEF Next
<1>2. CASE UNCHANGED vars
  BY <1>2 DEF vars, fileVars, runVars, Story, At, InBody
<1> QED BY <1>1, <1>2

LEMMA AlwaysStory == Spec => []Story
<1>1. Init => Story BY ActorsAssumption DEF Init, Story, At
<1> QED BY <1>1, StoryNext, AlwaysInv, PTL DEF Spec

\* Outside a maintenance body an unbound engine means a recovery has failed.
THEOREM UnboundMeansBroken == Spec => []UnboundOnlyIfBroken
<1>1. Story => UnboundOnlyIfBroken BY DEF Story, UnboundOnlyIfBroken
<1> QED BY <1>1, AlwaysStory, PTL

\* A step of the runtime is a step of the store it promises, or invisible.
LEMMA StepRefines ==
    Inv /\ Inv' /\ Story /\ Story' /\ [Next]_vars => [Visible!Next]_(Visible!vars)
<1> SUFFICES ASSUME Inv, Inv', Story, Story', [Next]_vars
             PROVE  [Visible!Next]_(Visible!vars)
  OBVIOUS
<1> USE DEF VisibleContent, Down
<1>0. /\ live \in [gen: Nat, content: Nat] /\ live' \in [gen: Nat, content: Nat]
      /\ live.content \in Nat /\ live'.content \in Nat /\ before' \in Nat
      /\ done \in Nat /\ NULL \notin Nat
  BY ActorsAssumption DEF Inv, TypeOK
<1>1. ASSUME NEW p \in Actors,
             \/ \E st \in {"middleware", "handler"} : Arrive(p, st)
             \/ SessionStep(p) \/ CancelWait(p) \/ Write(p)
      PROVE  [Visible!Next]_(Visible!vars)
  <2>1. /\ engine' = engine /\ done' = done /\ before' = before /\ InBody' = InBody
        /\ live' # live => ~InBody
    BY <1>1, SessionFrame DEF runVars
  <2>2. Down' = Down /\ done' = done BY <2>1
  <2>3. ASSUME OpenSessions' = OpenSessions, live' = live PROVE UNCHANGED Visible!vars
    BY <2>1, <2>3 DEF Visible!vars
  <2>4. CASE Acquire(p)
    <3>1. p \notin OpenSessions /\ OpenSessions' = OpenSessions \cup {p}
      BY <2>4 DEF Acquire, Goto, OpenSessions, Inv, TypeOK
    <3>2. live' = live /\ engine # NULL BY <2>4 DEF Acquire, fileVars
    <3>3. Visible!Open(p) BY <2>1, <3>1, <3>2 DEF Visible!Open
    <3> QED BY <3>3 DEF Visible!Next
  <2>5. ASSUME NEW refused \in BOOLEAN, Close(p, refused) PROVE Visible!Next
    <3>1. p \in OpenSessions /\ OpenSessions' = OpenSessions \ {p}
      BY <2>5 DEF Close, AfterClose, OpenSessions, Inv, TypeOK
    <3>2. live' = live BY <2>5 DEF Close, fileVars
    <3>3. Visible!Close(p) BY <2>1, <3>1, <3>2 DEF Visible!Close
    <3> QED BY <3>3 DEF Visible!Next
  <2>6. CASE Write(p)
    <3>1. p \in OpenSessions /\ OpenSessions' = OpenSessions BY <2>6 DEF Write, OpenSessions
    <3>2. engine # NULL BY <3>1 DEF Inv, Current
    <3>3. CASE live' # live
      <4>1. Visible!Commit BY <1>0, <2>1, <3>1, <3>2, <3>3 DEF Visible!Commit
      <4> QED BY <4>1 DEF Visible!Next
    <3>4. CASE live' = live BY <2>3, <3>1, <3>4
    <3> QED BY <3>3, <3>4
  <2>7. ASSUME NEW l \in {"idle", "entering", "waiting"}, Goto(p, l), pc[p] # "open", live' = live
        PROVE  UNCHANGED Visible!vars
    <3>1. OpenSessions' = OpenSessions BY <2>7 DEF Goto, OpenSessions, Inv, TypeOK
    <3> QED BY <2>3, <2>7, <3>1
  <2> QED
    BY <1>1, <2>4, <2>5, <2>6, <2>7
       DEF SessionStep, Arrive, AcquireUnbound, AcquireWait, CancelWait, fileVars
<1>2. ASSUME NEW m \in Maintainers, BodyStep(m), ~Leave(m) PROVE [Visible!Next]_(Visible!vars)
  <2>1. /\ lock = m /\ m # NULL /\ InBody' /\ OpenSessions = {} /\ OpenSessions' = {}
        /\ done' = done
        /\ ~EnterBody(m) => InBody /\ before' = before
    BY <1>2, BodyFrame
  <2>2. CASE EnterBody(m)
    <3>1. ~InBody /\ before' = live.content /\ engine' = engine
      BY <2>1, <2>2 DEF EnterBody, InBody, fileVars
    <3>2. CASE engine = NULL
      <4>1. Visible!Repair BY <1>0, <2>1, <3>1, <3>2 DEF Visible!Repair
      <4> QED BY <4>1 DEF Visible!Next
    <3>3. CASE engine # NULL BY <2>1, <3>1, <3>3 DEF Visible!vars
    <3> QED BY <3>2, <3>3
  <2>3. CASE ~EnterBody(m) BY <2>1, <2>3 DEF Visible!vars
  <2> QED BY <2>2, <2>3
<1>3. ASSUME NEW m \in Maintainers,
             \/ \E k \in {"restore", "reset"} : TakeLock(m, k)
             \/ Leave(m) \/ CancelDrain(m) \/ CancelQueued(m)
      PROVE  [Visible!Next]_(Visible!vars)
  <2>1. OpenSessions' = OpenSessions /\ UNCHANGED <<fileVars, outcome, before, broken>>
    BY <1>3, LockFrame
  <2>2. CASE Leave(m)
    <3>1. At("leaving") /\ InBody /\ ~InBody' BY <1>3, <2>2, LockFrame
    <3>2. OpenSessions = {}
      <4>1. active = 0 BY <3>1 DEF Inv, Quiet, At
      <4> QED BY <4>1, FiniteOpen, FS_EmptySet DEF Inv, Counted
    <3>3. CASE outcome = "ok"
      <4>1. done' = done + 1 /\ done' # done BY <1>0, <2>2, <3>3 DEF Leave
      <4>2. engine' # NULL BY <2>1, <3>1, <3>3 DEF Story, fileVars
      <4>3. Visible!Swap BY <1>0, <2>1, <3>1, <3>2, <4>1, <4>2 DEF Visible!Swap
      <4> QED BY <4>3 DEF Visible!Next
    <3>4. CASE outcome # "ok"
      <4>1. done' = done BY <2>2, <3>4 DEF Leave
      <4>2. engine # NULL => live.content = before BY <3>1, <3>4 DEF Story
      <4>3. CASE engine # NULL BY <2>1, <3>1, <4>1, <4>2, <4>3 DEF Visible!vars, fileVars
      <4>4. CASE engine = NULL
        <5>1. Visible!Break BY <1>0, <2>1, <3>1, <3>2, <4>1, <4>4 DEF Visible!Break, fileVars
        <5> QED BY <5>1 DEF Visible!Next
      <4> QED BY <4>3, <4>4
    <3> QED BY <3>3, <3>4
  <2>3. CASE ~Leave(m)
    <3>1. done' = done /\ InBody' = InBody BY <1>3, <2>3, LockFrame
    <3> QED BY <2>1, <3>1 DEF Visible!vars, fileVars
  <2> QED BY <2>2, <2>3
<1>4. CASE UNCHANGED vars
  BY <1>4 DEF vars, fileVars, runVars, OpenSessions, InBody, Visible!vars
<1> QED BY <1>1, <1>2, <1>3, <1>4 DEF Next

\* The runtime implements the atomic store: whatever fails on the way, the
\* sessions see a restore or reset in one step or not at all.
THEOREM ImplementsAtomicStore == Spec => Refines
<1>1. Init => Visible!Init
  <2> SUFFICES ASSUME Init PROVE Visible!Init OBVIOUS
  <2>1. OpenSessions = {} BY DEF Init, OpenSessions
  <2>2. ~InBody /\ engine # NULL BY ActorsAssumption DEF Init, InBody
  <2>3. live.content = 0 /\ done = 0 BY DEF Init
  <2> QED BY <2>1, <2>2, <2>3 DEF Visible!Init, VisibleContent, Down
<1> QED BY <1>1, StepRefines, AlwaysInv, AlwaysStory, PTL DEF Spec, Refines
===============================================================================
