-------------------------- MODULE AccessControlProofs --------------------------
(***************************************************************************)
(* The access settings keep their password and change only with it, the    *)
(* matrix admits administrators only, and the throttle holds, for any      *)
(* number of browsers and requests and any limit, window and block.        *)
(***************************************************************************)
EXTENDS AccessControl, FiniteSetTheorems, WellFoundedInduction, TLAPS

\* What the handler of an update carries from its decision to its commit:
\* once past the decision it has a password for the local network, and past
\* the verification it gave the one it saw.
Decided(r) ==
    req[r] # Idle /\ req[r].kind = "update" =>
        /\ req[r].body \in UpdateBodies
        /\ req[r].pc \in {"load", "queued", "verifying", "select", "commit"}
        /\ req[r].pc \in {"queued", "verifying"} => req[r].seen.hash # NULL
        /\ req[r].pc \in {"select", "commit"} =>
             /\ req[r].body.access = "lan_authenticated" => NewHash(r) # NULL
             /\ req[r].seen.hash # NULL => req[r].body.password = req[r].seen.hash

OnlyUpdatesWrite ==
    \A r \in Requests : req[r] # Idle /\ req[r].kind = "login" =>
        req[r].pc \in {"login", "load", "queued", "verifying"}

Typed ==
    /\ setting \in Settings /\ stored \in BOOLEAN
    /\ cookie \in [Peers -> Sessions]
    /\ req \in [Requests -> {Idle} \cup Active]
    /\ raced \in BOOLEAN

AccessInv ==
    /\ Typed
    /\ \A r \in Requests : Decided(r)
    /\ OnlyUpdatesWrite
    /\ ~stored => setting = Defaults
    /\ LanHasPassword

LEMMA IdleIsNotActive == \A q \in Active : q # Idle
BY DEF Active, Idle

LEMMA NullFacts == NULL \notin Passwords
BY NullAssumption

LEMMA InitAccess == Init => AccessInv
<1> SUFFICES ASSUME Init PROVE AccessInv
  OBVIOUS
<1>1. sent \in [logins : BOOLEAN, updates : Nat, start : SoundSettings]
  BY ScenarioAssumption DEF Init
<1>2. setting \in SoundSettings
  BY <1>1 DEF Init
<1>3. Typed
  BY <1>2 DEF Init, Typed, SoundSettings, Sessions
<1>4. LanHasPassword
  BY <1>2 DEF LanHasPassword, SoundSettings
<1>5. \A r \in Requests : req[r] = Idle
  BY DEF Init
<1> QED
  BY <1>3, <1>4, <1>5 DEF Init, AccessInv, Decided, OnlyUpdatesWrite

-------------------------------------------------------------------------------
(* The other requests and the settings stay as they are *)

LEMMA OneRequest ==
    ASSUME AccessInv, NEW r \in Requests, NEW q,
           req' = [req EXCEPT ![r] = q],
           \/ q = Idle
           \/ /\ q \in Active
              /\ q.kind = "login" => q.pc \in {"login", "load", "queued", "verifying"},
           Decided(r)'
    PROVE  /\ req' \in [Requests -> {Idle} \cup Active]
           /\ \A s \in Requests : Decided(s)'
           /\ OnlyUpdatesWrite'
<1>1. req \in [Requests -> {Idle} \cup Active]
  BY DEF AccessInv, Typed
<1>2. req' \in [Requests -> {Idle} \cup Active]
  <2>1. q \in {Idle} \cup Active
    OBVIOUS
  <2> QED
    BY <1>1, <2>1
<1>3. req'[r] = q
  BY <1>1
<1>4. \A s \in Requests : s # r => req'[s] = req[s]
  BY <1>1
<1>5. \A s \in Requests : s # r => Decided(s)'
  BY <1>4 DEF AccessInv, Decided, NewHash
<1>6. OnlyUpdatesWrite'
  <2> SUFFICES ASSUME NEW s \in Requests, req'[s] # Idle, req'[s].kind = "login"
               PROVE  req'[s].pc \in {"login", "load", "queued", "verifying"}
    BY DEF OnlyUpdatesWrite
  <2>1. CASE s = r
    BY <2>1, <1>3
  <2>2. CASE s # r
    BY <2>2, <1>4 DEF AccessInv, OnlyUpdatesWrite
  <2> QED
    BY <2>1, <2>2
<1> QED
  BY <1>2, <1>5, <1>6

\* A step that leaves settings and requests alone.
LEMMA CookieStep ==
    ASSUME AccessInv, UNCHANGED <<setting, stored, req, raced>>,
           cookie' \in [Peers -> Sessions]
    PROVE  AccessInv'
<1>1. Typed'
  BY DEF AccessInv, Typed
<1>2. \A r \in Requests : Decided(r)'
  BY DEF AccessInv, Decided, NewHash
<1>3. OnlyUpdatesWrite' /\ LanHasPassword' /\ (~stored' => setting' = Defaults)
  BY DEF AccessInv, OnlyUpdatesWrite, LanHasPassword
<1> QED
  BY <1>1, <1>2, <1>3 DEF AccessInv

\* A step of one request that leaves the settings alone.
LEMMA RequestStep ==
    ASSUME AccessInv, UNCHANGED <<setting, stored, raced>>,
           cookie' \in [Peers -> Sessions],
           NEW r \in Requests, NEW q,
           req' = [req EXCEPT ![r] = q],
           \/ q = Idle
           \/ /\ q \in Active
              /\ q.kind = "login" => q.pc \in {"login", "load", "queued", "verifying"},
           Decided(r)'
    PROVE  AccessInv'
<1>1. /\ req' \in [Requests -> {Idle} \cup Active]
      /\ \A s \in Requests : Decided(s)'
      /\ OnlyUpdatesWrite'
  BY OneRequest
<1>2. Typed'
  BY <1>1 DEF AccessInv, Typed
<1>3. LanHasPassword' /\ (~stored' => setting' = Defaults)
  BY DEF AccessInv, LanHasPassword
<1> QED
  BY <1>1, <1>2, <1>3 DEF AccessInv

\* A request that ended.
LEMMA Ended ==
    ASSUME AccessInv, NEW r \in Requests, End(r)
    PROVE  Decided(r)'
<1>1. req'[r] = Idle
  BY DEF AccessInv, Typed, End
<1> QED
  BY <1>1 DEF Decided

LEMMA ActiveRequest ==
    ASSUME AccessInv, NEW r \in Requests, req[r] # Idle
    PROVE  req[r] \in Active /\ req[r].pc \in Pcs
<1>1. req[r] \in Active
  BY DEF AccessInv, Typed
<1> QED
  BY <1>1 DEF Active

-------------------------------------------------------------------------------
(* The steps *)

LEMMA StepSend ==
    ASSUME AccessInv, NEW r \in Requests, NEW b \in Bodies,
           SendLogin(r, b) \/ (SendUpdate(r, b) /\ b \in UpdateBodies)
    PROVE  AccessInv'
<1>1. CASE SendLogin(r, b)
  <2> DEFINE q == Sent("login", "login", b)
  <2>1. q \in Active /\ q.kind = "login" /\ q.pc = "login"
    BY DEF Sent, Active, Pcs, Defaults, Settings, Modes, Sessions
  <2>2. req' = [req EXCEPT ![r] = q]
    BY <1>1 DEF SendLogin
  <2>3. req'[r] = q
    BY <2>2 DEF AccessInv, Typed
  <2>4. Decided(r)'
    BY <2>1, <2>3 DEF Decided
  <2>5. UNCHANGED <<setting, stored, raced>> /\ cookie' \in [Peers -> Sessions]
    BY <1>1 DEF SendLogin, AccessInv, Typed
  <2> HIDE DEF q
  <2> QED
    BY <2>1, <2>2, <2>4, <2>5, RequestStep
<1>2. CASE SendUpdate(r, b) /\ b \in UpdateBodies
  <2> DEFINE q == Sent("load", "update", b)
  <2>0. b.peer \in Peers /\ cookie[b.peer] \in Sessions
    BY DEF Bodies, LoginBodies, UpdateBodies, AccessInv, Typed
  <2>1. q \in Active /\ q.kind = "update" /\ q.pc = "load" /\ q.body = b
    BY <2>0 DEF Sent, Active, Pcs, Defaults, Settings, Modes
  <2>2. req' = [req EXCEPT ![r] = q]
    BY <1>2 DEF SendUpdate
  <2>3. req'[r] = q
    BY <2>2 DEF AccessInv, Typed
  <2>4. Decided(r)'
    BY <1>2, <2>1, <2>3 DEF Decided
  <2>5. UNCHANGED <<setting, stored, raced>> /\ cookie' \in [Peers -> Sessions]
    BY <1>2 DEF SendUpdate, AccessInv, Typed
  <2> HIDE DEF q
  <2> QED
    BY <2>1, <2>2, <2>4, <2>5, RequestStep
<1> QED
  BY <1>1, <1>2

LEMMA StepLoad ==
    ASSUME AccessInv, NEW r \in Requests, Load(r)
    PROVE  AccessInv'
<1> DEFINE q == [req[r] EXCEPT !.seen = setting, !.pc = AfterLoad(r)]
<1>1. req[r] # Idle /\ req[r].pc = "load" /\ req[r] \in Active
  BY ActiveRequest DEF Load
<1>2. UNCHANGED <<setting, stored, raced>> /\ cookie' \in [Peers -> Sessions]
  BY DEF Load, AccessInv, Typed
<1>3. CASE AfterLoad(r) = "end"
  <2>1. req' = [req EXCEPT ![r] = Idle] /\ End(r)
    BY <1>3 DEF Load, End
  <2> QED
    BY <2>1, <1>2, Ended, RequestStep
<1>4. CASE AfterLoad(r) # "end"
  <2>1. req' = [req EXCEPT ![r] = q]
    BY <1>1, <1>4 DEF Load, AccessInv, Typed
  <2>2. setting \in Settings
    BY DEF AccessInv, Typed
  <2>3. AfterLoad(r) \in {"queued", "select"}
    BY <1>4 DEF AfterLoad
  <2>4. q \in Active
    BY <1>1, <2>2, <2>3 DEF Active, Pcs
  <2>5. q.kind = req[r].kind /\ q.body = req[r].body /\ q.seen = setting /\ q.pc = AfterLoad(r)
    BY <1>1 DEF Active
  <2>6. req[r].kind = "login" => q.pc = "queued"
    BY <1>4, <2>5 DEF AfterLoad
  <2>7. req'[r] = q
    BY <2>1 DEF AccessInv, Typed
  <2>8. q.pc = "queued" => q.seen.hash # NULL
    BY <2>5, <1>4 DEF AfterLoad
  <2>9. q.pc = "select" =>
          /\ q.seen.hash = NULL
          /\ q.body.access = "lan_authenticated" => q.body.new # NULL
    BY <2>5, <1>4 DEF AfterLoad
  <2>10. Decided(r)'
    <3>1. req[r].kind = "update" => req[r].body \in UpdateBodies
      BY <1>1 DEF AccessInv, Decided
    <3> QED
      BY <3>1, <2>3, <2>5, <2>7, <2>8, <2>9 DEF Decided, NewHash
  <2> HIDE DEF q
  <2>11. q.kind = "login" => q.pc \in {"login", "load", "queued", "verifying"}
    BY <2>5, <2>6
  <2> QED
    BY <2>1, <2>4, <2>10, <2>11, <1>2, RequestStep
<1> QED
  BY <1>3, <1>4

\* A step that only moves a request on, from one place to another.
LEMMA Moved ==
    ASSUME AccessInv, NEW r \in Requests, req[r] # Idle, NEW pc \in Pcs, Step(r, pc)
    PROVE  LET q == [req[r] EXCEPT !.pc = pc] IN
           /\ req' = [req EXCEPT ![r] = q] /\ req'[r] = q
           /\ q \in Active /\ q.kind = req[r].kind /\ q.pc = pc
           /\ q.body = req[r].body /\ q.seen = req[r].seen
<1> DEFINE q == [req[r] EXCEPT !.pc = pc]
<1>1. req[r] \in Active
  BY ActiveRequest
<1>2. req' = [req EXCEPT ![r] = q]
  BY DEF Step, AccessInv, Typed
<1>3. req'[r] = q
  BY <1>2 DEF AccessInv, Typed
<1>4. q \in Active /\ q.kind = req[r].kind /\ q.pc = pc
      /\ q.body = req[r].body /\ q.seen = req[r].seen
  BY <1>1 DEF Active
<1> QED
  BY <1>2, <1>3, <1>4

LEMMA StepThrottle ==
    ASSUME AccessInv, NEW r \in Requests, CheckThrottle(r)
    PROVE  AccessInv'
<1>0. UNCHANGED <<setting, stored, raced>> /\ cookie' \in [Peers -> Sessions]
  BY DEF CheckThrottle, AccessInv, Typed
<1>1. CASE End(r)
  <2>1. req' = [req EXCEPT ![r] = Idle]
    BY <1>1 DEF End
  <2> QED
    BY <2>1, <1>0, <1>1, Ended, RequestStep
<1>2. CASE Step(r, "load")
  <2> DEFINE q == [req[r] EXCEPT !.pc = "load"]
  <2>1. /\ req' = [req EXCEPT ![r] = q] /\ req'[r] = q
        /\ q \in Active /\ q.kind = req[r].kind /\ q.pc = "load" /\ q.body = req[r].body
    BY <1>2, Moved DEF CheckThrottle, Pcs
  <2> HIDE DEF q
  <2>2. Decided(r)'
    BY <2>1 DEF CheckThrottle, AccessInv, Decided
  <2> QED
    BY <2>1, <2>2, <1>0, RequestStep
<1> QED
  BY <1>1, <1>2 DEF CheckThrottle

LEMMA StepAcquire ==
    ASSUME AccessInv, NEW r \in Requests, Acquire(r)
    PROVE  AccessInv'
<1>0. UNCHANGED <<setting, stored, raced>> /\ cookie' \in [Peers -> Sessions]
  BY DEF Acquire, AccessInv, Typed
<1> DEFINE q == [req[r] EXCEPT !.pc = "verifying"]
<1>1. /\ req' = [req EXCEPT ![r] = q] /\ req'[r] = q
      /\ q \in Active /\ q.kind = req[r].kind /\ q.pc = "verifying"
      /\ q.seen = req[r].seen /\ q.body = req[r].body
  BY Moved DEF Acquire, Pcs
<1> HIDE DEF q
<1>2. Decided(r) /\ req[r] # Idle /\ req[r].pc = "queued"
  BY DEF AccessInv, Acquire
<1>3. Decided(r)'
  BY <1>1, <1>2 DEF Decided
<1> QED
  BY <1>0, <1>1, <1>3, RequestStep

LEMMA StepLogin ==
    ASSUME AccessInv, NEW r \in Requests, LoginWrong(r) \/ LoginRight(r)
    PROVE  AccessInv'
<1>1. UNCHANGED <<setting, stored, raced>> /\ End(r)
  BY DEF LoginWrong, LoginRight
<1>2. cookie' \in [Peers -> Sessions]
  BY DEF LoginWrong, LoginRight, AccessInv, Typed, Sessions
<1>3. req' = [req EXCEPT ![r] = Idle]
  BY <1>1 DEF End
<1> QED
  BY <1>1, <1>2, <1>3, Ended, RequestStep

LEMMA StepUpdateVerified ==
    ASSUME AccessInv, NEW r \in Requests, UpdateVerified(r)
    PROVE  AccessInv'
<1>0. UNCHANGED <<setting, stored, raced>> /\ cookie' \in [Peers -> Sessions]
  BY DEF UpdateVerified, AccessInv, Typed
<1>1. CASE End(r)
  <2>1. req' = [req EXCEPT ![r] = Idle]
    BY <1>1 DEF End
  <2> QED
    BY <2>1, <1>0, <1>1, Ended, RequestStep
<1>2. CASE Right(r) /\ Step(r, "select")
  <2> DEFINE q == [req[r] EXCEPT !.pc = "select"]
  <2>0. req[r] # Idle /\ req[r].pc = "verifying" /\ req[r].kind = "update"
    BY DEF UpdateVerified, Verified
  <2>1. /\ req' = [req EXCEPT ![r] = q] /\ req'[r] = q
        /\ q \in Active /\ q.kind = req[r].kind /\ q.pc = "select"
        /\ q.body = req[r].body /\ q.seen = req[r].seen
    BY <1>2, <2>0, Moved DEF Pcs
  <2> HIDE DEF q
  <2>2. req[r].seen.hash # NULL /\ req[r].body.password = req[r].seen.hash
    BY <1>2, <2>0 DEF AccessInv, Decided, Right
  <2>3. req[r].body \in UpdateBodies
    BY <2>0 DEF AccessInv, Decided
  <2>4. q.body.new = NULL => NewHash(r)' # NULL
    BY <2>1, <2>2 DEF NewHash
  <2>5. q.body.new # NULL => NewHash(r)' # NULL
    BY <2>1 DEF NewHash
  <2>6. Decided(r)'
    BY <2>1, <2>2, <2>3, <2>4, <2>5 DEF Decided
  <2> QED
    BY <2>1, <2>6, <2>0, <1>0, RequestStep
<1> QED
  BY <1>1, <1>2 DEF UpdateVerified

LEMMA StepSelect ==
    ASSUME AccessInv, NEW r \in Requests, Select(r)
    PROVE  AccessInv'
<1>0. UNCHANGED <<setting, stored, raced>> /\ cookie' \in [Peers -> Sessions]
  BY DEF Select, AccessInv, Typed
<1> DEFINE q == [req[r] EXCEPT !.rows = setting, !.insert = ~stored, !.pc = "commit"]
<1>1. req[r] # Idle /\ req[r].pc = "select" /\ req[r] \in Active
  BY ActiveRequest DEF Select
<1>2. req' = [req EXCEPT ![r] = q]
  BY DEF Select, AccessInv, Typed
<1>3. req'[r] = q
  BY <1>2 DEF AccessInv, Typed
<1>4. setting \in Settings /\ (~stored) \in BOOLEAN
  BY DEF AccessInv, Typed
<1>5. q \in Active /\ q.kind = req[r].kind /\ q.pc = "commit"
      /\ q.body = req[r].body /\ q.seen = req[r].seen
  BY <1>1, <1>4 DEF Active, Pcs
<1> HIDE DEF q
<1>6. req[r].kind = "update"
  BY <1>1 DEF AccessInv, OnlyUpdatesWrite, Active
<1>7. Decided(r)'
  BY <1>1, <1>3, <1>5, <1>6 DEF AccessInv, Decided, NewHash
<1> QED
  BY <1>0, <1>2, <1>5, <1>6, <1>7, RequestStep

\* What a commit writes that was decided on the password still stored.
LEMMA MergedSound ==
    ASSUME AccessInv, NEW r \in Requests, req[r] # Idle, req[r].pc = "commit",
           ~raced, req[r].seen.hash = setting.hash, ~(req[r].insert /\ stored)
    PROVE  /\ Merged(r).access = "lan_authenticated" => Merged(r).hash # NULL
           /\ setting.hash # NULL => req[r].body.password = setting.hash
<1>1. req[r].kind = "update" /\ Decided(r)
  BY ActiveRequest DEF AccessInv, OnlyUpdatesWrite, Active
<1>2. req[r].body.access = "lan_authenticated" => NewHash(r) # NULL
  BY <1>1 DEF Decided
<1>3. setting.hash # NULL => req[r].body.password = setting.hash
  BY <1>1 DEF Decided
<1>4. setting.access = "lan_authenticated" => setting.hash # NULL
  BY DEF AccessInv, LanHasPassword
<1>5. CASE req[r].insert
  <2>1. Merged(r).access = req[r].body.access /\ Merged(r).hash = NewHash(r)
    BY <1>5 DEF Merged
  <2> QED
    BY <2>1, <1>2, <1>3
<1>6. CASE ~req[r].insert
  <2>1. Merged(r).access \in {setting.access, req[r].body.access}
    BY <1>6 DEF Merged
  <2>2. CASE req[r].body.new = NULL
    <3>1. NewHash(r) = setting.hash
      BY <2>2 DEF NewHash
    <3>2. Merged(r).hash = setting.hash
      BY <1>6, <2>2, <3>1 DEF Merged
    <3> QED
      BY <1>2, <1>3, <1>4, <2>1, <3>1, <3>2
  <2>3. CASE req[r].body.new # NULL
    <3>1. Merged(r).hash = req[r].body.new
      BY <1>6, <2>3 DEF Merged, NewHash
    <3> QED
      BY <1>3, <2>3, <3>1
  <2> QED
    BY <2>2, <2>3
<1> QED
  BY <1>5, <1>6

LEMMA MergedTyped ==
    ASSUME AccessInv, NEW r \in Requests, req[r] # Idle, req[r].kind = "update"
    PROVE  Merged(r) \in Settings
<1>1. req[r] \in Active /\ setting \in Settings /\ req[r].body \in UpdateBodies
  BY ActiveRequest DEF AccessInv, Typed, Decided
<1>2. NewHash(r) \in Passwords \cup {NULL}
  BY <1>1 DEF NewHash, UpdateBodies, Active, Settings
<1>3. req[r].body.access \in Modes
  BY <1>1 DEF UpdateBodies
<1> QED
  BY <1>1, <1>2, <1>3 DEF Merged, Settings

LEMMA StepCommit ==
    ASSUME AccessInv, NEW r \in Requests, Commit(r)
    PROVE  AccessInv'
<1>1. req[r] # Idle /\ req[r].pc = "commit" /\ End(r) /\ req[r] \in Active
  BY ActiveRequest DEF Commit
<1>2. req[r].kind = "update" /\ req[r].body.peer \in Peers
  BY <1>1 DEF AccessInv, OnlyUpdatesWrite, Decided, Active, UpdateBodies
<1>3. req' = [req EXCEPT ![r] = Idle] /\ Decided(r)'
  BY <1>1, Ended DEF End
<1>4. CASE req[r].insert /\ stored
  <2>1. UNCHANGED <<setting, stored, raced>> /\ cookie' \in [Peers -> Sessions]
    BY <1>4 DEF Commit, AccessInv, Typed
  <2> QED
    BY <2>1, <1>3, RequestStep
<1>5. CASE ~(req[r].insert /\ stored)
  <2>1. /\ setting' = Merged(r) /\ stored' = TRUE
        /\ raced' = (raced \/ req[r].seen.hash # setting.hash)
    BY <1>5 DEF Commit
  <2>2. cookie' \in [Peers -> Sessions]
    BY <1>5, <1>2 DEF Commit, AccessInv, Typed, Sessions
  <2>3. /\ req' \in [Requests -> {Idle} \cup Active]
        /\ \A s \in Requests : Decided(s)'
        /\ OnlyUpdatesWrite'
    BY <1>3, OneRequest
  <2>4. setting' \in Settings
    BY <1>1, <1>2, <2>1, MergedTyped
  <2>5. raced' \in BOOLEAN /\ stored' \in BOOLEAN
    <3>1. raced \in BOOLEAN
      BY DEF AccessInv, Typed
    <3> QED
      BY <2>1, <3>1
  <2>6. Typed'
    BY <2>2, <2>3, <2>4, <2>5 DEF Typed
  <2>7. LanHasPassword'
    <3> SUFFICES ASSUME ~raced' PROVE setting'.access = "lan_authenticated" => setting'.hash # NULL
      BY DEF LanHasPassword
    <3>1. ~raced /\ req[r].seen.hash = setting.hash
      BY <2>1
    <3> QED
      BY <1>1, <1>5, <2>1, <3>1, MergedSound
  <2> QED
    BY <2>1, <2>3, <2>6, <2>7 DEF AccessInv
<1> QED
  BY <1>4, <1>5

LEMMA StepBrowser ==
    ASSUME AccessInv, (\E p \in Peers : Visit(p) \/ Logout(p) \/ Expire(p)) \/ Tick
    PROVE  AccessInv'
<1>1. UNCHANGED <<setting, stored, req, raced>> /\ cookie' \in [Peers -> Sessions]
  BY DEF Visit, Logout, Expire, Tick, AccessInv, Typed, Sessions
<1> QED
  BY <1>1, CookieStep

LEMMA StepAccess == AccessInv /\ [Next]_vars => AccessInv'
<1> SUFFICES ASSUME AccessInv, [Next]_vars PROVE AccessInv'
  OBVIOUS
<1>1. CASE \E r \in Requests : Handle(r)
  BY <1>1, StepThrottle, StepLoad, StepAcquire, StepLogin, StepUpdateVerified,
     StepSelect, StepCommit DEF Handle
<1>2. CASE \/ \E r \in Requests, b \in LoginBodies : SendLogin(r, b)
           \/ \E r \in Requests, b \in UpdateBodies : SendUpdate(r, b)
  BY <1>2, StepSend DEF Bodies
<1>3. CASE (\E p \in Peers : Visit(p) \/ Logout(p) \/ Expire(p)) \/ Tick
  BY <1>3, StepBrowser
<1>4. CASE UNCHANGED vars
  BY <1>4, CookieStep DEF vars, AccessInv, Typed
<1> QED
  BY <1>1, <1>2, <1>3, <1>4 DEF Next

\* The settings, the cookies and the requests keep their types, and the local
\* network its password, for any number of overlapping requests.
THEOREM AccessInvariant == Spec => []AccessInv
<1>1. Init => AccessInv
  BY InitAccess
<1>2. AccessInv /\ [Next]_vars => AccessInv'
  BY StepAccess
<1> QED
  BY <1>1, <1>2, PTL DEF Spec

\* lan_authenticated has a password, unless an update was committed that was
\* decided on another password than the one then stored.
THEOREM LanAlwaysHasPassword == Spec => []LanHasPassword
<1>1. AccessInv => LanHasPassword
  BY DEF AccessInv
<1> QED
  BY <1>1, AccessInvariant, PTL

\* The matrix admits administrators only.
LEMMA MatrixSound == Typed => AdmitsOnlyAdmins
<1> SUFFICES ASSUME Typed, NEW p \in Peers, NEW path \in {"api", "page"},
                    NEW write \in BOOLEAN, NEW csrf \in BOOLEAN,
                    Admits(p, path, write, csrf) \in {"allow", "issue"}
             PROVE  /\ IF setting.access = "local_only"
                          THEN p \in Loopback
                          ELSE cookie[p] = "explicit"
                    /\ write => csrf /\ cookie[p] # "none"
  BY DEF AdmitsOnlyAdmins
<1>1. setting.access \in Modes /\ cookie[p] \in Sessions
  BY DEF Typed, Settings
<1>2. CASE setting.access = "local_only"
  BY <1>1, <1>2 DEF Admits, Decide, Resolved, Sessions
<1>3. CASE setting.access = "lan_authenticated"
  BY <1>1, <1>3 DEF Admits, Decide, Resolved, Sessions
<1> QED
  BY <1>1, <1>2, <1>3 DEF Modes

\* Whatever the settings and cookies have gone through, only this machine is
\* admitted in local_only, only a session with a password in lan_authenticated,
\* and nothing is written without its token.
THEOREM OnlyAdminsAdmitted == Spec => []AdmitsOnlyAdmins
<1>1. AccessInv => AdmitsOnlyAdmins
  BY MatrixSound DEF AccessInv
<1> QED
  BY <1>1, AccessInvariant, PTL

\* A change of the stored settings gave the password that was stored.
LEMMA ChangeVerified ==
    ASSUME AccessInv, [Next]_vars, setting' # setting, setting.hash # NULL, ~raced'
    PROVE  \E r \in Requests : req[r] # Idle /\ req'[r] = Idle
                              /\ req[r].body.password = setting.hash
<1>1. PICK r \in Requests : Commit(r)
  BY DEF Next, vars, Handle, Visit, Logout, Expire, SendLogin, SendUpdate, Tick,
         CheckThrottle, Load, Acquire, LoginWrong, LoginRight, UpdateVerified, Select
<1>2. /\ req[r] # Idle /\ req[r].pc = "commit" /\ End(r)
      /\ ~(req[r].insert /\ stored)
      /\ raced' = (raced \/ req[r].seen.hash # setting.hash)
  BY <1>1 DEF Commit
<1>3. req'[r] = Idle
  BY <1>2 DEF End, AccessInv, Typed
<1>4. req[r].body.password = setting.hash
  BY <1>2, MergedSound
<1> QED
  BY <1>2, <1>3, <1>4

\* Once a password is stored, the settings change only by a request that gave
\* it, but for the changes decided on a password that had been replaced.
THEOREM ChangesVerified == Spec => ChangesAreVerified
<1>1. AccessInv /\ [Next]_vars =>
        [setting' # setting /\ setting.hash # NULL /\ ~raced'
           => \E r \in Requests : req[r] # Idle /\ req'[r] = Idle
                                  /\ req[r].body.password = setting.hash]_vars
  BY ChangeVerified
<1> QED
  BY <1>1, AccessInvariant, PTL DEF Spec, ChangesAreVerified

-------------------------------------------------------------------------------
(* The table of the throttle *)

Counters ==
    /\ failures \in [Peers -> [Ages -> Nat]]
    /\ block \in [Peers -> 0 .. Block]

TableInv == Counters /\ TableBounded

LEMMA AgeFacts == /\ Ages \subseteq Nat /\ 0 \in Ages
                  /\ \A a \in Ages : a # 0 => a - 1 \in Ages
                  /\ NoFailure \in [Ages -> Nat]
                  /\ Block \in Nat /\ 0 \in 0 .. Block /\ Block \in 0 .. Block
<1>1. Window \in Nat /\ Window # 0 /\ Block \in Nat
  BY ThrottleAssumption
<1> QED
  BY <1>1 DEF Ages, NoFailure

LEMMA KnownFinite ==
    /\ IsFiniteSet(Known) /\ Cardinality(Known) \in Nat
    /\ \A S \in SUBSET Known : Cardinality(S) <= Cardinality(Known)
<1>1. IsFiniteSet(Known)
  BY PeerAssumption, FS_Subset DEF Known
<1> QED
  BY <1>1, FS_Subset, FS_CardinalityType

\* A table of which a step only removes stays within its bound.
LEMMA Shrinks == ASSUME TableBounded, Known' \subseteq Known PROVE TableBounded'
<1>1. Cardinality(Known') <= Cardinality(Known)
  BY KnownFinite
<1>2. Cardinality(Known') \in Nat /\ Cardinality(Known) \in Nat /\ MaxPeers \in Nat
  BY KnownFinite, FS_Subset, FS_CardinalityType, ThrottleAssumption
<1> QED
  BY <1>1, <1>2 DEF TableBounded

LEMMA StepRecord ==
    ASSUME TableInv, NEW p \in Peers, Record(p)
    PROVE  TableInv'
<1>1. CASE ~Recorded(p)
  <2>1. UNCHANGED <<failures, block>>
    BY <1>1 DEF Record
  <2> QED
    BY <2>1, Shrinks DEF TableInv, Counters, Known
<1>2. CASE Recorded(p)
  <2>1. Counters'
    <3>1. CASE Total(failures[p]) + 1 >= Limit
      <4>1. /\ failures' = [failures EXCEPT ![p] = NoFailure]
            /\ block' = [block EXCEPT ![p] = Block]
        BY <1>2, <3>1 DEF Record
      <4> QED
        BY <4>1, AgeFacts DEF TableInv, Counters
    <3>2. CASE ~(Total(failures[p]) + 1 >= Limit)
      <4>1. /\ failures' = [failures EXCEPT ![p][0] = @ + 1]
            /\ block' = block
        BY <1>2, <3>2 DEF Record
      <4> QED
        BY <4>1, AgeFacts DEF TableInv, Counters
    <3> QED
      BY <3>1, <3>2
  <2>2. \A o \in Peers : o # p => failures'[o] = failures[o] /\ block'[o] = block[o]
    BY <1>2 DEF Record, TableInv, Counters
  <2>3. Known' \subseteq Known \cup {p}
    BY <2>2 DEF Known
  <2>4. CASE p \in Known
    BY <2>1, <2>3, <2>4, Shrinks DEF TableInv
  <2>5. CASE p \notin Known
    <3>1. Cardinality(Known) < MaxPeers
      <4>1. Cardinality(Known) \in Nat /\ MaxPeers \in Nat
        BY KnownFinite, ThrottleAssumption
      <4> QED
        BY <4>1, <1>2, <2>5 DEF Recorded, Full
    <3>2. IsFiniteSet(Known \cup {p}) /\ Cardinality(Known \cup {p}) = Cardinality(Known) + 1
      BY <2>5, KnownFinite, FS_AddElement
    <3>3. Cardinality(Known') <= Cardinality(Known \cup {p}) /\ Cardinality(Known') \in Nat
      BY <2>3, <3>2, FS_Subset, FS_CardinalityType
    <3>4. TableBounded'
      BY <3>1, <3>2, <3>3, KnownFinite, ThrottleAssumption DEF TableBounded
    <3> QED
      BY <2>1, <3>4 DEF TableInv
  <2> QED
    BY <2>4, <2>5
<1> QED
  BY <1>1, <1>2

LEMMA StepForget ==
    ASSUME TableInv, NEW p \in Peers,
           failures' = [failures EXCEPT ![p] = NoFailure],
           block' = [block EXCEPT ![p] = 0]
    PROVE  TableInv'
<1>1. Counters'
  BY AgeFacts DEF TableInv, Counters
<1>2. Known' \subseteq Known
  BY DEF Known, TableInv, Counters
<1> QED
  BY <1>1, <1>2, Shrinks DEF TableInv

LEMMA StepTick == ASSUME TableInv, Tick PROVE TableInv'
<1>1. \A p \in Peers : Older(failures[p]) \in [Ages -> Nat]
  BY AgeFacts DEF TableInv, Counters, Older
<1>2. Older(NoFailure) = NoFailure
  BY AgeFacts DEF Older, NoFailure
<1>3. block' \in [Peers -> 0 .. Block]
  <2>1. \A p \in Peers : block[p] \in 0 .. Block
    BY DEF TableInv, Counters
  <2>2. \A p \in Peers : (IF block[p] > 0 THEN block[p] - 1 ELSE 0) \in 0 .. Block
    BY <2>1, AgeFacts
  <2> QED
    BY <2>2 DEF Tick
<1>4. Counters'
  BY <1>1, <1>3 DEF Tick, Counters
<1>5. Known' \subseteq Known
  <2>1. \A p \in Peers : failures'[p] # NoFailure => failures[p] # NoFailure
    BY <1>2 DEF Tick
  <2>2. \A p \in Peers : block'[p] > 0 => block[p] > 0
    BY DEF Tick
  <2> QED
    BY <2>1, <2>2 DEF Known
<1> QED
  BY <1>4, <1>5, Shrinks DEF TableInv

\* The table of the throttle is of its type and never holds more peers than its
\* capacity, in every reachable state.
THEOREM TableInvariant == Spec => []TableInv
<1>1. Init => TableInv
  <2> SUFFICES ASSUME Init PROVE TableInv
    OBVIOUS
  <2>1. Counters
    BY AgeFacts DEF Init, Counters
  <2>2. Known = {}
    BY DEF Init, Known
  <2> QED
    BY <2>1, <2>2, FS_EmptySet, ThrottleAssumption DEF TableInv, TableBounded
<1>2. AccessInv /\ TableInv /\ [Next]_vars => TableInv'
  <2> SUFFICES ASSUME AccessInv, TableInv, [Next]_vars PROVE TableInv'
    OBVIOUS
  <2>1. CASE \E r \in Requests : LoginWrong(r)
    <3>1. PICK r \in Requests : LoginWrong(r)
      BY <2>1
    <3>2. req[r].body.peer \in Peers
      BY <3>1, ActiveRequest DEF LoginWrong, Verified, Active, Bodies, LoginBodies, UpdateBodies
    <3> QED
      BY <3>1, <3>2, StepRecord DEF LoginWrong
  <2>2. CASE \E r \in Requests : LoginRight(r)
    <3>1. PICK r \in Requests : LoginRight(r)
      BY <2>2
    <3>2. req[r].body.peer \in Peers
      BY <3>1, ActiveRequest DEF LoginRight, Verified, Active, Bodies, LoginBodies, UpdateBodies
    <3> QED
      BY <3>1, <3>2, StepForget DEF LoginRight
  <2>3. CASE Tick
    BY <2>3, StepTick
  <2>4. CASE UNCHANGED <<failures, block>>
    BY <2>4, Shrinks DEF TableInv, Counters, Known
  <2> QED
    BY <2>1, <2>2, <2>3, <2>4
       DEF Next, vars, throttle, Handle, Visit, Logout, Expire, SendLogin, SendUpdate,
           CheckThrottle, Load, Acquire, UpdateVerified, Select, Commit
<1> QED
  BY <1>1, <1>2, AccessInvariant, PTL DEF Spec

\* The table of the throttle never holds more peers than its capacity, also
\* when the failures of several new peers are recorded at once that were all
\* let in while there was room.
THEOREM TableAlwaysBounded == Spec => []TableBounded
<1>1. TableInv => TableBounded
  BY DEF TableInv
<1> QED
  BY <1>1, TableInvariant, PTL

-------------------------------------------------------------------------------
(* The sum of the failures in the window *)

\* Induction over the ages of a failure, as the least counterexample.
LEMMA LeastNatural ==
    ASSUME NEW T \in SUBSET Nat, T # {}
    PROVE  \E n \in T : \A m \in T : n <= m
<1> DEFINE Below == OpToRel(<, Nat)
<1>1. T \subseteq Nat /\ T # {}
  OBVIOUS
<1>2. IsWellFoundedOn(Below, Nat)
  BY Zenon, NatLessThanWellFounded
<1>3. \A x, y \in Nat : x < y => <<x, y>> \in Below
  BY Zenon DEF OpToRel
<1> HIDE DEF Below
<1>4. PICK x \in T : \A y \in T : ~(<<y, x>> \in Below)
  BY <1>1, <1>2, WFMin
<1>5. ASSUME NEW y \in T PROVE x <= y
  <2>1. x \in Nat /\ y \in Nat
    BY <1>1
  <2>2. ~(y < x)
    BY <2>1, <1>3, <1>4
  <2> QED
    BY <2>1, <2>2
<1> QED
  BY <1>5

\* The sums of the first values of f: what Total computes recursively.
IsSum(g, f, n) ==
    g = [a \in 0 .. n |-> IF a = 0 THEN 0 ELSE g[a - 1] + f[a - 1]]

LEMMA SumExists ==
    ASSUME NEW f, NEW n \in Nat
    PROVE  \E g : IsSum(g, f, n)
<1> DEFINE Bad == {m \in Nat : ~ \E g : IsSum(g, f, m)}
<1> SUFFICES ASSUME Bad # {} PROVE FALSE
  OBVIOUS
<1>1. PICK m \in Bad : \A k \in Bad : m <= k
  <2>1. Bad \in SUBSET Nat
    OBVIOUS
  <2> HIDE DEF Bad
  <2> QED
    BY <2>1, LeastNatural
<1>2. CASE m = 0
  <2>1. IsSum([a \in 0 .. 0 |-> 0], f, 0)
    BY DEF IsSum
  <2> QED
    BY <1>2, <2>1
<1>3. CASE m # 0
  <2>1. m - 1 \in Nat /\ m - 1 \notin Bad
    BY <1>1, <1>3
  <2>2. PICK g : IsSum(g, f, m - 1)
    BY <2>1
  <2> DEFINE h == [a \in 0 .. m |-> IF a = m THEN g[m - 1] + f[m - 1] ELSE g[a]]
  <2>3. \A a \in 0 .. m - 1 : g[a] = IF a = 0 THEN 0 ELSE g[a - 1] + f[a - 1]
    BY <2>2 DEF IsSum
  <2>4. \A a \in 0 .. m : h[a] = IF a = 0 THEN 0 ELSE h[a - 1] + f[a - 1]
    BY <1>3, <2>1, <2>3
  <2>5. IsSum(h, f, m)
    <3>1. h = [a \in 0 .. m |-> h[a]]
      OBVIOUS
    <3> HIDE DEF h
    <3> QED
      BY <2>4, <3>1 DEF IsSum
  <2> QED
    BY <2>5
<1> QED
  BY <1>2, <1>3

LEMMA TotalIsSum ==
    ASSUME NEW f
    PROVE  \E g : IsSum(g, f, Window) /\ Total(f) = g[Window]
<1> DEFINE g[a \in 0 .. Window] == IF a = 0 THEN 0 ELSE g[a - 1] + f[a - 1]
<1>1. \E h : IsSum(h, f, Window)
  BY SumExists, ThrottleAssumption
<1>2. IsSum(g, f, Window)
  BY <1>1 DEF IsSum
<1>3. Total(f) = g[Window]
  BY DEF Total
<1> QED
  BY <1>2, <1>3

LEMMA WindowFacts ==
    /\ Window \in Nat /\ Window \in 0 .. Window /\ Window # 0 /\ Window - 1 \in Ages
    /\ \A a \in 0 .. Window : a # 0 => a - 1 \in 0 .. Window /\ a - 1 \in Ages
BY ThrottleAssumption DEF Ages

LEMMA SumFacts ==
    ASSUME NEW f \in [Ages -> Nat], NEW g, IsSum(g, f, Window)
    PROVE  /\ g[0] = 0 /\ g \in [0 .. Window -> Nat]
           /\ \A a \in 0 .. Window : a # 0 => g[a] = g[a - 1] + f[a - 1]
<1>1. \A a \in 0 .. Window : g[a] = IF a = 0 THEN 0 ELSE g[a - 1] + f[a - 1]
  BY DEF IsSum
<1>2. \A a \in 0 .. Window : g[a] \in Nat
  <2> DEFINE Bad == {a \in 0 .. Window : g[a] \notin Nat}
  <2> SUFFICES ASSUME Bad # {} PROVE FALSE
    OBVIOUS
  <2>1. PICK m \in Bad : \A k \in Bad : m <= k
    <3>1. Bad \in SUBSET Nat
      OBVIOUS
    <3> HIDE DEF Bad
    <3> QED
      BY <3>1, LeastNatural
  <2>2. m # 0
    BY <2>1, <1>1
  <2>3. m - 1 \in 0 .. Window /\ m - 1 \notin Bad /\ m - 1 \in Ages
    BY <2>1, <2>2, WindowFacts
  <2>4. g[m - 1] \in Nat /\ f[m - 1] \in Nat
    BY <2>3
  <2> QED
    BY <2>1, <2>2, <2>4, <1>1
<1>3. 0 \in 0 .. Window
  BY WindowFacts
<1>4. g = [a \in 0 .. Window |-> g[a]]
  BY DEF IsSum
<1> QED
  BY <1>1, <1>2, <1>3, <1>4

\* Two functions that differ by d at s and grow alike from there differ by d
\* at the end.
LEMMA SumsApart ==
    ASSUME NEW g \in [0 .. Window -> Nat], NEW h \in [0 .. Window -> Nat],
           NEW s \in 0 .. Window, NEW d \in Nat, h[s] = g[s] + d,
           \A a \in 0 .. Window : a > s => h[a] - h[a - 1] = g[a] - g[a - 1]
    PROVE  h[Window] = g[Window] + d
<1> DEFINE Bad == {a \in 0 .. Window : a >= s /\ h[a] # g[a] + d}
<1>1. Bad \in SUBSET Nat
  OBVIOUS
<1>2. \A m \in Bad : /\ m \in 0 .. Window /\ m > s /\ m - 1 \in 0 .. Window /\ m - 1 >= s
                     /\ h[m] # g[m] + d
  BY ThrottleAssumption
<1>3. \A m \in Bad : m - 1 \in Bad
  <2> SUFFICES ASSUME NEW m \in Bad, h[m - 1] = g[m - 1] + d PROVE FALSE
    BY <1>2
  <2>1. /\ m \in 0 .. Window /\ m > s /\ m - 1 \in 0 .. Window
        /\ h[m] # g[m] + d
    BY <1>2
  <2>2. h[m] - h[m - 1] = g[m] - g[m - 1]
    BY <2>1
  <2>3. h[m] \in Nat /\ h[m - 1] \in Nat /\ g[m] \in Nat /\ g[m - 1] \in Nat
    BY <2>1
  <2> QED
    BY <2>1, <2>2, <2>3
<1>4. Bad = {}
  <2> HIDE DEF Bad
  <2> SUFFICES ASSUME Bad # {} PROVE FALSE
    OBVIOUS
  <2>1. PICK m \in Bad : \A k \in Bad : m <= k
    BY <1>1, LeastNatural
  <2>2. m - 1 \in Bad /\ m \in Nat
    BY <1>1, <1>3
  <2>3. m <= m - 1
    BY <2>1, <2>2
  <2> QED
    BY <2>2, <2>3
<1>5. Window \in 0 .. Window /\ Window >= s
  BY ThrottleAssumption
<1> QED
  BY <1>4, <1>5

\* What Total does with the operations of the throttle.
LEMMA TotalType == ASSUME NEW f \in [Ages -> Nat] PROVE Total(f) \in Nat
BY TotalIsSum, SumFacts, WindowFacts

LEMMA TotalNothing == Total(NoFailure) = 0
<1>0. NoFailure \in [Ages -> Nat]
  BY DEF NoFailure
<1>1. PICK g : IsSum(g, NoFailure, Window) /\ Total(NoFailure) = g[Window]
  BY TotalIsSum
<1>2. /\ g[0] = 0 /\ g \in [0 .. Window -> Nat]
      /\ \A a \in 0 .. Window : a # 0 => g[a] = g[a - 1] + NoFailure[a - 1]
  BY <1>0, <1>1, SumFacts
<1> DEFINE z == [a \in 0 .. Window |-> 0]
<1>3. \A a \in 0 .. Window : a > 0 => g[a] - g[a - 1] = z[a] - z[a - 1]
  <2> SUFFICES ASSUME NEW a \in 0 .. Window, a > 0
               PROVE  g[a] - g[a - 1] = z[a] - z[a - 1]
    OBVIOUS
  <2>1. a - 1 \in Ages /\ a - 1 \in 0 .. Window
    BY WindowFacts
  <2>2. NoFailure[a - 1] = 0
    BY <2>1 DEF NoFailure
  <2>3. g[a] = g[a - 1] /\ g[a] \in Nat
    BY <1>2, <2>1, <2>2
  <2> QED
    BY <2>1, <2>3
<1>4. z \in [0 .. Window -> Nat] /\ 0 \in 0 .. Window /\ g[0] = z[0] + 0
  BY <1>2, WindowFacts
<1>5. g[Window] = z[Window] + 0
  <2> HIDE DEF z
  <2> QED
    BY <1>2, <1>3, <1>4, SumsApart
<1> QED
  BY <1>1, <1>5, WindowFacts

LEMMA TotalOneMore ==
    ASSUME NEW f \in [Ages -> Nat]
    PROVE  Total([f EXCEPT ![0] = @ + 1]) = Total(f) + 1
<1> DEFINE k == [f EXCEPT ![0] = @ + 1]
<1>0. 0 \in Ages /\ 0 \in 0 .. Window /\ 1 \in 0 .. Window
  BY ThrottleAssumption DEF Ages
<1>1. k \in [Ages -> Nat] /\ k[0] = f[0] + 1 /\ \A a \in Ages : a # 0 => k[a] = f[a]
  BY <1>0
<1> HIDE DEF k
<1>2. PICK g : IsSum(g, f, Window) /\ Total(f) = g[Window]
  BY TotalIsSum
<1>3. PICK h : IsSum(h, k, Window) /\ Total(k) = h[Window]
  BY TotalIsSum
<1>4. /\ g[0] = 0 /\ g \in [0 .. Window -> Nat]
      /\ \A a \in 0 .. Window : a # 0 => g[a] = g[a - 1] + f[a - 1]
  BY <1>2, SumFacts
<1>5. /\ h[0] = 0 /\ h \in [0 .. Window -> Nat]
      /\ \A a \in 0 .. Window : a # 0 => h[a] = h[a - 1] + k[a - 1]
  BY <1>1, <1>3, SumFacts
<1>6. h[1] = g[1] + 1
  BY <1>0, <1>1, <1>4, <1>5
<1>7. \A a \in 0 .. Window : a > 1 => h[a] - h[a - 1] = g[a] - g[a - 1]
  <2> SUFFICES ASSUME NEW a \in 0 .. Window, a > 1
               PROVE  h[a] - h[a - 1] = g[a] - g[a - 1]
    OBVIOUS
  <2>1. a - 1 \in Ages /\ a - 1 \in 0 .. Window /\ a - 1 # 0
    BY WindowFacts
  <2>2. h[a] = h[a - 1] + f[a - 1] /\ g[a] = g[a - 1] + f[a - 1]
    BY <2>1, <1>1, <1>4, <1>5
  <2>3. h[a] \in Nat /\ g[a] \in Nat /\ h[a - 1] \in Nat /\ g[a - 1] \in Nat /\ f[a - 1] \in Nat
    BY <2>1, <1>4, <1>5
  <2> QED
    BY <2>2, <2>3
<1>8. h[Window] = g[Window] + 1
  <2>1. 1 \in Nat
    OBVIOUS
  <2> QED
    BY <2>1, <1>0, <1>4, <1>5, <1>6, <1>7, SumsApart
<1>9. Total(k) = Total(f) + 1
  BY <1>2, <1>3, <1>8, WindowFacts
<1> QED
  BY <1>9 DEF k

LEMMA TotalOlder ==
    ASSUME NEW f \in [Ages -> Nat]
    PROVE  Older(f) \in [Ages -> Nat] /\ Total(Older(f)) <= Total(f)
<1> DEFINE k == Older(f)
<1>0. 0 \in Ages /\ 0 \in 0 .. Window /\ 1 \in 0 .. Window
  BY ThrottleAssumption DEF Ages
<1>1. k \in [Ages -> Nat] /\ k[0] = 0 /\ \A a \in Ages : a # 0 => k[a] = f[a - 1]
  BY <1>0, WindowFacts DEF Older, Ages
<1> HIDE DEF k
<1>2. PICK g : IsSum(g, f, Window) /\ Total(f) = g[Window]
  BY TotalIsSum
<1>3. PICK h : IsSum(h, k, Window) /\ Total(k) = h[Window]
  BY TotalIsSum
<1>4. /\ g[0] = 0 /\ g \in [0 .. Window -> Nat]
      /\ \A a \in 0 .. Window : a # 0 => g[a] = g[a - 1] + f[a - 1]
  BY <1>2, SumFacts
<1>5. /\ h[0] = 0 /\ h \in [0 .. Window -> Nat]
      /\ \A a \in 0 .. Window : a # 0 => h[a] = h[a - 1] + k[a - 1]
  BY <1>1, <1>3, SumFacts
<1> DEFINE z == [a \in 0 .. Window |-> IF a = 0 THEN 0 ELSE g[a - 1]]
<1>z. z \in [0 .. Window -> Nat] /\ \A a \in 0 .. Window : a # 0 => z[a] = g[a - 1]
  BY <1>4, WindowFacts
<1> HIDE DEF z
<1>6. h[1] = z[1] + 0
  BY <1>z, <1>0, <1>1, <1>4, <1>5
<1>7. \A a \in 0 .. Window : a > 1 => h[a] - h[a - 1] = z[a] - z[a - 1]
  <2> SUFFICES ASSUME NEW a \in 0 .. Window, a > 1
               PROVE  h[a] - h[a - 1] = z[a] - z[a - 1]
    OBVIOUS
  <2>1. a - 1 \in Ages /\ a - 1 \in 0 .. Window /\ a - 1 # 0
    BY WindowFacts
  <2>2. h[a] = h[a - 1] + f[a - 1 - 1] /\ g[a - 1] = g[a - 1 - 1] + f[a - 1 - 1]
    <3>1. h[a] = h[a - 1] + k[a - 1]
      BY <2>1, <1>5
    <3>2. k[a - 1] = f[a - 1 - 1]
      BY <2>1, <1>1
    <3>3. g[a - 1] = g[a - 1 - 1] + f[a - 1 - 1]
      BY <2>1, <1>4
    <3> QED
      BY <3>1, <3>2, <3>3
  <2>3. a - 1 - 1 \in Ages /\ a - 1 - 1 \in 0 .. Window
    BY <2>1, WindowFacts
  <2>5. z[a] = g[a - 1] /\ z[a - 1] = g[a - 1 - 1]
    BY <1>z, <2>1
  <2>4. h[a - 1] \in Nat /\ g[a - 1 - 1] \in Nat /\ f[a - 1 - 1] \in Nat
    BY <2>1, <2>3, <1>4, <1>5
  <2> QED
    BY <2>2, <2>4, <2>5
<1>8. h[Window] = z[Window] + 0
  <2>1. 0 \in Nat
    OBVIOUS
  <2> QED
    BY <2>1, <1>0, <1>5, <1>6, <1>7, <1>z, SumsApart
<1>9. g[Window] = g[Window - 1] + f[Window - 1] /\ f[Window - 1] \in Nat /\ g[Window - 1] \in Nat
  BY <1>4, WindowFacts
<1>10. Total(k) <= Total(f)
  BY <1>2, <1>3, <1>8, <1>9, <1>z, WindowFacts
<1> QED
  BY <1>1, <1>10 DEF k

-------------------------------------------------------------------------------
(* The throttle *)

\* The logins of a peer that CheckThrottle let in and that are not answered.
UnderWay(p) == {r \in Requests : /\ req[r] # Idle /\ req[r].kind = "login"
                                 /\ req[r].pc # "login" /\ req[r].body.peer = p}

\* While a block lasts the table has lost the failures that led to it, and
\* only those: what is younger than the block is in the table.  So a peer that
\* is let in has fewer than Limit failures in the window, and one more can
\* come from each of its logins that are under way.
PeerInv(p) ==
    /\ \A a \in Ages : a + block[p] < Block => recent[p][a] = failures[p][a]
    /\ Total(failures[p]) < Limit
    /\ Total(recent[p]) + Cardinality(UnderWay(p)) < Limit + Cardinality(Requests)

ThrottleInv ==
    /\ Counters
    /\ recent \in [Peers -> [Ages -> Nat]]
    /\ \A p \in Peers : PeerInv(p)

LEMMA UnderWayFacts ==
    ASSUME NEW p
    PROVE  /\ IsFiniteSet(UnderWay(p)) /\ IsFiniteSet(Requests)
           /\ Cardinality(UnderWay(p)) \in Nat /\ Cardinality(Requests) \in Nat
           /\ Cardinality(UnderWay(p)) <= Cardinality(Requests)
           /\ \A S \in SUBSET UnderWay(p) : /\ Cardinality(S) \in Nat
                                            /\ Cardinality(S) <= Cardinality(UnderWay(p))
<1>1. UnderWay(p) \subseteq Requests /\ IsFiniteSet(Requests)
  BY PeerAssumption DEF UnderWay
<1> QED
  BY <1>1, FS_Subset, FS_CardinalityType

\* A peer of whose throttle a step changes nothing.
LEMMA PeerKept ==
    ASSUME ThrottleInv, NEW p \in Peers,
           failures'[p] = failures[p], block'[p] = block[p], recent'[p] = recent[p],
           UnderWay(p)' \subseteq UnderWay(p)
    PROVE  PeerInv(p)'
<1>1. /\ Cardinality(UnderWay(p)') \in Nat
      /\ Cardinality(UnderWay(p)') <= Cardinality(UnderWay(p))
      /\ Cardinality(UnderWay(p)) \in Nat /\ Cardinality(Requests) \in Nat
  BY UnderWayFacts
<1>2. PeerInv(p) /\ Limit \in Nat
  BY ThrottleAssumption DEF ThrottleInv
<1>3. Total(recent[p]) \in Nat
  BY TotalType DEF ThrottleInv
<1>4. Total(recent'[p]) + Cardinality(UnderWay(p)') < Limit + Cardinality(Requests)
  BY <1>1, <1>2, <1>3 DEF PeerInv
<1>5. \A a \in Ages : a + block'[p] < Block => recent'[p][a] = failures'[p][a]
  BY <1>2 DEF PeerInv
<1>6. Total(failures'[p]) < Limit
  BY <1>2 DEF PeerInv
<1> QED
  BY <1>4, <1>5, <1>6 DEF PeerInv

\* An answered login is no longer under way, and the others are as they were.
LEMMA Answered ==
    ASSUME AccessInv, NEW r \in Requests, End(r)
    PROVE  \A p : /\ UnderWay(p)' \subseteq UnderWay(p)
                  /\ r \notin UnderWay(p)'
<1>1. req'[r] = Idle /\ \A s \in Requests : s # r => req'[s] = req[s]
  BY DEF End, AccessInv, Typed
<1> QED
  BY <1>1 DEF UnderWay

\* A request that moves on by anything but CheckThrottle.
LEMMA MovedOn ==
    ASSUME NEW r \in Requests, NEW q, req \in [Requests -> {Idle} \cup Active],
           req' = [req EXCEPT ![r] = q],
           req[r] # Idle, q.kind = req[r].kind, q.body = req[r].body, req[r].pc # "login"
    PROVE  \A p : UnderWay(p)' \subseteq UnderWay(p)
<1>1. req'[r] = q /\ \A s \in Requests : s # r => req'[s] = req[s]
  OBVIOUS
<1> QED
  BY <1>1 DEF UnderWay

\* The steps that leave the throttle alone.
LEMMA ThrottleAlone ==
    ASSUME ThrottleInv, UNCHANGED <<failures, block, recent>>,
           \A p : UnderWay(p)' \subseteq UnderWay(p)
    PROVE  ThrottleInv'
<1>1. \A p \in Peers : PeerInv(p)'
  BY PeerKept
<1> QED
  BY <1>1 DEF ThrottleInv, Counters

LEMMA BodyPeer ==
    ASSUME AccessInv, NEW r \in Requests, req[r] # Idle
    PROVE  req[r].body.peer \in Peers
<1>1. req[r].body \in Bodies
  BY ActiveRequest DEF Active
<1> QED
  BY <1>1 DEF Bodies, LoginBodies, UpdateBodies

\* A request that is sent is not under way yet.
LEMMA NoneUnderWay ==
    ASSUME AccessInv, NEW r \in Requests, NEW b \in Bodies,
           SendLogin(r, b) \/ SendUpdate(r, b)
    PROVE  \A p : UnderWay(p)' \subseteq UnderWay(p)
<1>1. req'[r] # Idle /\ \A s \in Requests : s # r => req'[s] = req[s]
  <2>1. Sent("login", "login", b) # Idle /\ Sent("load", "update", b) # Idle
    BY DEF Sent, Idle
  <2> QED
    BY <2>1 DEF SendLogin, SendUpdate, AccessInv, Typed
<1>2. req'[r].kind = "login" => req'[r].pc = "login"
  <2>1. req'[r] = Sent("login", "login", b) \/ req'[r] = Sent("load", "update", b)
    BY DEF SendLogin, SendUpdate, AccessInv, Typed
  <2> QED
    BY <2>1 DEF Sent
<1> QED
  BY <1>1, <1>2 DEF UnderWay

LEMMA UnderWaySend ==
    ASSUME AccessInv, ThrottleInv, NEW r \in Requests, NEW b \in Bodies,
           SendLogin(r, b) \/ SendUpdate(r, b)
    PROVE  ThrottleInv'
<1>1. UNCHANGED <<failures, block, recent>>
  BY DEF SendLogin, SendUpdate, throttle
<1> QED
  BY <1>1, NoneUnderWay, ThrottleAlone

\* The steps after the throttle let no further login in.
LEMMA FewerUnderWay ==
    ASSUME AccessInv, NEW r \in Requests,
           Load(r) \/ Acquire(r) \/ UpdateVerified(r) \/ Select(r) \/ Commit(r)
    PROVE  \A p : UnderWay(p)' \subseteq UnderWay(p)
<1>0. req \in [Requests -> {Idle} \cup Active]
  BY DEF AccessInv, Typed
<1>1. CASE End(r)
  BY <1>1, Answered
<1>2. CASE ~End(r)
  <2>1. req[r] # Idle /\ req[r].pc # "login" /\ req[r] \in Active
    BY <1>2, ActiveRequest DEF Load, Acquire, UpdateVerified, Verified, Select, Commit
  <2>2. \E q : req' = [req EXCEPT ![r] = q] /\ q.kind = req[r].kind /\ q.body = req[r].body
    <3>1. CASE Load(r)
      <4> DEFINE q == [req[r] EXCEPT !.seen = setting, !.pc = AfterLoad(r)]
      <4>1. req' = [req EXCEPT ![r] = q]
        BY <1>0, <1>2, <3>1, <2>1 DEF Load, End
      <4>2. q.kind = req[r].kind /\ q.body = req[r].body
        BY <2>1 DEF Active
      <4> QED
        BY <4>1, <4>2
    <3>2. CASE Select(r)
      <4> DEFINE q == [req[r] EXCEPT !.rows = setting, !.insert = ~stored, !.pc = "commit"]
      <4>1. req' = [req EXCEPT ![r] = q]
        BY <1>0, <3>2, <2>1 DEF Select
      <4>2. q.kind = req[r].kind /\ q.body = req[r].body
        BY <2>1 DEF Active
      <4> QED
        BY <4>1, <4>2
    <3>3. CASE Acquire(r) \/ UpdateVerified(r)
      <4>1. PICK pc \in Pcs : Step(r, pc)
        BY <1>2, <3>3 DEF Acquire, UpdateVerified, Pcs
      <4> QED
        BY <4>1, <2>1, Moved
    <3> QED
      BY <1>2, <3>1, <3>2, <3>3 DEF Commit
  <2> QED
    BY <2>1, <2>2, <1>0, MovedOn
<1> QED
  BY <1>1, <1>2

LEMMA UnderWayHandled ==
    ASSUME AccessInv, ThrottleInv, NEW r \in Requests,
           Load(r) \/ Acquire(r) \/ UpdateVerified(r) \/ Select(r) \/ Commit(r)
    PROVE  ThrottleInv'
<1>1. UNCHANGED <<failures, block, recent>>
  BY DEF Load, Acquire, UpdateVerified, Select, Commit, throttle
<1> QED
  BY <1>1, FewerUnderWay, ThrottleAlone

\* A login is let in.
LEMMA UnderWayChecked ==
    ASSUME AccessInv, ThrottleInv, NEW r \in Requests, CheckThrottle(r)
    PROVE  ThrottleInv'
<1>0. UNCHANGED <<failures, block, recent>> /\ req[r] # Idle /\ req[r].pc = "login"
  BY DEF CheckThrottle, throttle
<1>1. CASE End(r)
  BY <1>1, <1>0, Answered, ThrottleAlone
<1>2. CASE Step(r, "load") /\ ~Refused(req[r].body.peer)
  <2>1. PICK p \in Peers : p = req[r].body.peer
    BY <1>0, BodyPeer
  <2>2. \A s \in Requests : s # r => req'[s] = req[s]
    BY <1>2 DEF Step, AccessInv, Typed
  <2>3. req'[r].body = req[r].body
    BY <1>0, <1>2, Moved DEF Pcs
  <2>4. \A o \in Peers : o # p => PeerInv(o)'
    <3> SUFFICES ASSUME NEW o \in Peers, o # p PROVE PeerInv(o)'
      OBVIOUS
    <3>1. UnderWay(o)' \subseteq UnderWay(o)
      BY <2>1, <2>2, <2>3 DEF UnderWay
    <3> QED
      BY <3>1, <1>0, PeerKept
  <2>5. PeerInv(p)'
    <3>1. block[p] = 0
      <4>1. block[p] \in 0 .. Block /\ Block \in Nat
        BY <2>1, ThrottleAssumption DEF ThrottleInv, Counters
      <4> QED
        BY <4>1, <1>2, <2>1 DEF Refused
    <3>2. PeerInv(p)
      BY <2>1 DEF ThrottleInv
    <3>3. \A a \in Ages : recent[p][a] = failures[p][a]
      <4> SUFFICES ASSUME NEW a \in Ages PROVE recent[p][a] = failures[p][a]
        OBVIOUS
      <4>1. a + 0 < Block
        BY ThrottleAssumption DEF Ages
      <4> QED
        BY <4>1, <3>1, <3>2 DEF PeerInv
    <3>4. recent[p] \in [Ages -> Nat] /\ failures[p] \in [Ages -> Nat]
      BY <2>1 DEF ThrottleInv, Counters
    <3>5. recent[p] = failures[p]
      BY <3>3, <3>4
    <3>6. Total(recent[p]) < Limit /\ Total(recent[p]) \in Nat
      BY <3>2, <3>4, <3>5, TotalType DEF PeerInv
    <3>7. /\ Cardinality(UnderWay(p)') \in Nat /\ Cardinality(Requests) \in Nat
          /\ Cardinality(UnderWay(p)') <= Cardinality(Requests)
      <4>1. UnderWay(p)' \subseteq Requests /\ IsFiniteSet(Requests)
        BY PeerAssumption DEF UnderWay
      <4> QED
        BY <4>1, FS_Subset, FS_CardinalityType
    <3>8. Total(recent[p]) + Cardinality(UnderWay(p)') < Limit + Cardinality(Requests)
      BY <3>6, <3>7, ThrottleAssumption
    <3> QED
      BY <1>0, <3>2, <3>8 DEF PeerInv
  <2> QED
    BY <1>0, <2>4, <2>5 DEF ThrottleInv, Counters
<1> QED
  BY <1>0, <1>1, <1>2 DEF CheckThrottle

\* A wrong password: one login less under way, at most one failure more.
LEMMA UnderWayWrong ==
    ASSUME AccessInv, ThrottleInv, NEW r \in Requests, LoginWrong(r)
    PROVE  ThrottleInv'
<1>1. PICK p \in Peers : p = req[r].body.peer
  BY BodyPeer DEF LoginWrong, Verified
<1>2. /\ End(r) /\ Record(p) /\ r \in UnderWay(p)
      /\ recent' = IF Recorded(p) THEN [recent EXCEPT ![p][0] = @ + 1] ELSE recent
  BY <1>1 DEF LoginWrong, Verified, UnderWay
<1>3. \A o : UnderWay(o)' \subseteq UnderWay(o) /\ r \notin UnderWay(o)'
  BY <1>2, Answered
<1>4. \A o \in Peers : o # p =>
        failures'[o] = failures[o] /\ block'[o] = block[o] /\ recent'[o] = recent[o]
  BY <1>2 DEF Record, ThrottleInv, Counters
<1>5. /\ failures[p] \in [Ages -> Nat] /\ recent[p] \in [Ages -> Nat]
      /\ block[p] \in 0 .. Block /\ PeerInv(p)
  BY DEF ThrottleInv, Counters
<1>6. /\ Cardinality(UnderWay(p)') \in Nat /\ Cardinality(UnderWay(p)) \in Nat
      /\ Cardinality(UnderWay(p)') <= Cardinality(UnderWay(p)) - 1
      /\ Cardinality(Requests) \in Nat
  <2>1. /\ IsFiniteSet(UnderWay(p) \ {r})
        /\ Cardinality(UnderWay(p) \ {r}) = Cardinality(UnderWay(p)) - 1
    BY <1>2, UnderWayFacts, FS_RemoveElement
  <2>2. UnderWay(p)' \subseteq UnderWay(p) \ {r}
    BY <1>3
  <2> QED
    BY <2>1, <2>2, UnderWayFacts, FS_Subset, FS_CardinalityType
<1>7. Total(recent[p]) \in Nat /\ Total(failures[p]) \in Nat
  BY <1>5, TotalType
<1>8. CASE ~Recorded(p)
  <2>1. failures' = failures /\ block' = block
    BY <1>2, <1>8 DEF Record
  <2>2. recent' = recent
    BY <1>2, <1>8
  <2>3. \A o \in Peers : PeerInv(o)'
    BY <1>3, <1>4, <2>1, <2>2, PeerKept
  <2> QED
    BY <2>1, <2>2, <2>3 DEF ThrottleInv, Counters
<1>9. CASE Recorded(p)
  <2>1. recent' = [recent EXCEPT ![p][0] = @ + 1]
    BY <1>2, <1>9
  <2>2. recent'[p] = [recent[p] EXCEPT ![0] = @ + 1]
    BY <2>1 DEF ThrottleInv
  <2>3. Total(recent'[p]) = Total(recent[p]) + 1
    BY <1>5, <2>2, TotalOneMore
  <2>4. Total(recent'[p]) + Cardinality(UnderWay(p)') < Limit + Cardinality(Requests)
    BY <1>5, <1>6, <1>7, <2>3, ThrottleAssumption DEF PeerInv
  <2>5. \A a \in Ages : a # 0 => recent'[p][a] = recent[p][a]
    BY <1>5, <2>2
  <2>6. CASE Total(failures[p]) + 1 >= Limit
    <3>1. failures'[p] = NoFailure /\ block'[p] = Block
      BY <1>2, <1>9, <2>6 DEF Record, ThrottleInv, Counters
    <3>2. failures' \in [Peers -> [Ages -> Nat]] /\ block' \in [Peers -> 0 .. Block]
      BY <1>2, <1>9, <2>6, AgeFacts DEF Record, ThrottleInv, Counters
    <3>3. Total(failures'[p]) < Limit
      BY <3>1, TotalNothing, ThrottleAssumption
    <3>4. \A a \in Ages : ~(a + block'[p] < Block)
      BY <3>1, AgeFacts
    <3>5. PeerInv(p)'
      BY <2>4, <3>3, <3>4 DEF PeerInv
    <3>6. recent' \in [Peers -> [Ages -> Nat]]
      BY <2>1, AgeFacts DEF ThrottleInv
    <3>7. \A o \in Peers : o # p => PeerInv(o)'
      BY <1>3, <1>4, PeerKept
    <3> QED
      BY <3>2, <3>5, <3>6, <3>7 DEF ThrottleInv, Counters
  <2>7. CASE ~(Total(failures[p]) + 1 >= Limit)
    <3>1. /\ failures' = [failures EXCEPT ![p][0] = @ + 1] /\ block' = block
          /\ failures'[p] = [failures[p] EXCEPT ![0] = @ + 1]
      BY <1>2, <1>9, <2>7 DEF Record, ThrottleInv, Counters
    <3>2. Total(failures'[p]) < Limit
      <4>1. Total(failures'[p]) = Total(failures[p]) + 1
        BY <1>5, <3>1, TotalOneMore
      <4> QED
        BY <4>1, <1>7, <2>7, ThrottleAssumption
    <3>3. \A a \in Ages : a + block'[p] < Block => recent'[p][a] = failures'[p][a]
      <4> SUFFICES ASSUME NEW a \in Ages, a + block[p] < Block
                   PROVE  recent'[p][a] = failures'[p][a]
        BY <3>1
      <4>1. recent[p][a] = failures[p][a]
        BY <1>5 DEF PeerInv
      <4> QED
        BY <4>1, <1>5, <2>2, <3>1
    <3>4. PeerInv(p)'
      BY <2>4, <3>2, <3>3 DEF PeerInv
    <3>5. failures' \in [Peers -> [Ages -> Nat]] /\ recent' \in [Peers -> [Ages -> Nat]]
      BY <2>1, <3>1, AgeFacts DEF ThrottleInv, Counters
    <3>6. \A o \in Peers : o # p => PeerInv(o)'
      BY <1>3, <1>4, PeerKept
    <3> QED
      BY <3>1, <3>4, <3>5, <3>6 DEF ThrottleInv, Counters
  <2> QED
    BY <2>6, <2>7
<1> QED
  BY <1>8, <1>9

\* The right password, after which the peer starts anew.
LEMMA UnderWayRight ==
    ASSUME AccessInv, ThrottleInv, NEW r \in Requests, LoginRight(r)
    PROVE  ThrottleInv'
<1>1. PICK p \in Peers : p = req[r].body.peer
  BY BodyPeer DEF LoginRight, Verified
<1>2. /\ End(r) /\ failures' = [failures EXCEPT ![p] = NoFailure]
      /\ block' = [block EXCEPT ![p] = 0] /\ recent' = [recent EXCEPT ![p] = NoFailure]
  BY <1>1 DEF LoginRight
<1>3. \A o : UnderWay(o)' \subseteq UnderWay(o)
  BY <1>2, Answered
<1>4. /\ failures' \in [Peers -> [Ages -> Nat]] /\ recent' \in [Peers -> [Ages -> Nat]]
      /\ block' \in [Peers -> 0 .. Block]
  BY <1>2, AgeFacts DEF ThrottleInv, Counters
<1>5. \A o \in Peers : o # p => PeerInv(o)'
  <2>1. \A o \in Peers : o # p =>
          failures'[o] = failures[o] /\ block'[o] = block[o] /\ recent'[o] = recent[o]
    BY <1>2 DEF ThrottleInv, Counters
  <2> QED
    BY <1>3, <2>1, PeerKept
<1>6. PeerInv(p)'
  <2>1. failures'[p] = NoFailure /\ recent'[p] = NoFailure
    BY <1>2 DEF ThrottleInv, Counters
  <2>2. /\ Cardinality(UnderWay(p)') \in Nat /\ Cardinality(Requests) \in Nat
        /\ Cardinality(UnderWay(p)') <= Cardinality(Requests)
    <3>1. UnderWay(p)' \subseteq Requests /\ IsFiniteSet(Requests)
      BY PeerAssumption DEF UnderWay
    <3> QED
      BY <3>1, FS_Subset, FS_CardinalityType
  <2>3. Total(recent'[p]) = 0 /\ Total(failures'[p]) = 0
    BY <2>1, TotalNothing
  <2>4. /\ Total(failures'[p]) < Limit
        /\ Total(recent'[p]) + Cardinality(UnderWay(p)') < Limit + Cardinality(Requests)
    BY <2>2, <2>3, ThrottleAssumption
  <2> QED
    BY <2>1, <2>4 DEF PeerInv
<1> QED
  BY <1>4, <1>5, <1>6 DEF ThrottleInv, Counters

\* Time passes: a block is one shorter when the failures are one older.
LEMMA UnderWayTick == ASSUME AccessInv, ThrottleInv, Tick PROVE ThrottleInv'
<1>1. \A p : UnderWay(p)' = UnderWay(p)
  BY DEF Tick, UnderWay
<1>2. \A p \in Peers :
        /\ failures'[p] = Older(failures[p]) /\ recent'[p] = Older(recent[p])
        /\ block'[p] = IF block[p] > 0 THEN block[p] - 1 ELSE 0
  BY DEF Tick
<1>3. \A p \in Peers : /\ failures[p] \in [Ages -> Nat] /\ recent[p] \in [Ages -> Nat]
                       /\ block[p] \in 0 .. Block
  BY DEF ThrottleInv, Counters
<1>4. Counters' /\ recent' \in [Peers -> [Ages -> Nat]]
  <2>1. \A p \in Peers : /\ Older(failures[p]) \in [Ages -> Nat]
                         /\ Older(recent[p]) \in [Ages -> Nat]
    BY <1>3, TotalOlder
  <2>2. \A p \in Peers : (IF block[p] > 0 THEN block[p] - 1 ELSE 0) \in 0 .. Block
    BY <1>3, AgeFacts
  <2> QED
    BY <2>1, <2>2 DEF Tick, Counters
<1>5. \A p \in Peers : PeerInv(p)'
  <2> SUFFICES ASSUME NEW p \in Peers PROVE PeerInv(p)'
    OBVIOUS
  <2>1. PeerInv(p)
    BY DEF ThrottleInv
  <2>2. /\ Total(failures'[p]) <= Total(failures[p]) /\ Total(recent'[p]) <= Total(recent[p])
        /\ Total(failures'[p]) \in Nat /\ Total(recent'[p]) \in Nat
        /\ Total(failures[p]) \in Nat /\ Total(recent[p]) \in Nat
    BY <1>2, <1>3, TotalOlder, TotalType
  <2>3. Cardinality(UnderWay(p)) \in Nat /\ Cardinality(Requests) \in Nat
        /\ UnderWay(p)' = UnderWay(p)
    BY <1>1, UnderWayFacts
  <2>4. /\ Total(failures'[p]) < Limit
        /\ Total(recent'[p]) + Cardinality(UnderWay(p)') < Limit + Cardinality(Requests)
    BY <2>1, <2>2, <2>3, ThrottleAssumption DEF PeerInv
  <2>5. \A a \in Ages : a + block'[p] < Block => recent'[p][a] = failures'[p][a]
    <3> SUFFICES ASSUME NEW a \in Ages, a + block'[p] < Block
                 PROVE  recent'[p][a] = failures'[p][a]
      OBVIOUS
    <3>1. CASE a = 0
      BY <3>1, <1>2 DEF Older
    <3>2. CASE a # 0
      <4>1. a - 1 \in Ages /\ a \in Nat
        BY <3>2, AgeFacts
      <4>2. recent'[p][a] = recent[p][a - 1] /\ failures'[p][a] = failures[p][a - 1]
        <5>1. recent'[p] = Older(recent[p]) /\ failures'[p] = Older(failures[p])
          BY <1>2
        <5>2. \A f : Older(f)[a] = f[a - 1]
          BY <3>2 DEF Older
        <5> QED
          BY <5>1, <5>2
      <4>3. (a - 1) + block[p] < Block
        <5>1. block[p] \in Nat /\ Block \in Nat
          BY <1>3, AgeFacts
        <5>2. CASE block[p] > 0
          BY <5>1, <5>2, <4>1, <1>2
        <5>3. CASE block[p] = 0
          <6>1. block'[p] = 0
            BY <5>3, <1>2
          <6> QED
            BY <6>1, <5>1, <5>3, <4>1
        <5> QED
          BY <5>1, <5>2, <5>3
      <4> QED
        BY <4>1, <4>2, <4>3, <2>1 DEF PeerInv
    <3> QED
      BY <3>1, <3>2
  <2> QED
    BY <2>4, <2>5 DEF PeerInv
<1> QED
  BY <1>4, <1>5 DEF ThrottleInv

LEMMA UnderWayInit == Init => ThrottleInv
<1> SUFFICES ASSUME Init PROVE ThrottleInv
  OBVIOUS
<1>1. Counters /\ recent \in [Peers -> [Ages -> Nat]]
  BY AgeFacts DEF Init, Counters
<1>2. \A p \in Peers : PeerInv(p)
  <2> SUFFICES ASSUME NEW p \in Peers PROVE PeerInv(p)
    OBVIOUS
  <2>1. failures[p] = NoFailure /\ recent[p] = NoFailure
    BY DEF Init
  <2>2. UnderWay(p) = {}
    BY DEF Init, UnderWay
  <2>3. Total(failures[p]) = 0 /\ Total(recent[p]) = 0 /\ Cardinality(UnderWay(p)) = 0
    BY <2>1, <2>2, TotalNothing, FS_EmptySet
  <2>4. Cardinality(Requests) \in Nat
    BY UnderWayFacts
  <2> QED
    BY <2>1, <2>3, <2>4, ThrottleAssumption DEF PeerInv
<1> QED
  BY <1>1, <1>2 DEF ThrottleInv

LEMMA UnderWayStep == AccessInv /\ ThrottleInv /\ [Next]_vars => ThrottleInv'
<1> SUFFICES ASSUME AccessInv, ThrottleInv, [Next]_vars PROVE ThrottleInv'
  OBVIOUS
<1>1. CASE \E r \in Requests : Handle(r)
  BY <1>1, UnderWayChecked, UnderWayHandled, UnderWayWrong, UnderWayRight DEF Handle
<1>2. CASE \/ \E r \in Requests, b \in LoginBodies : SendLogin(r, b)
           \/ \E r \in Requests, b \in UpdateBodies : SendUpdate(r, b)
  BY <1>2, UnderWaySend DEF Bodies
<1>3. CASE Tick
  BY <1>3, UnderWayTick
<1>4. CASE (\E p \in Peers : Visit(p) \/ Logout(p) \/ Expire(p)) \/ UNCHANGED vars
  <2>1. UNCHANGED <<failures, block, recent, req>>
    BY <1>4 DEF Visit, Logout, Expire, vars, throttle
  <2>2. \A p : UnderWay(p)' \subseteq UnderWay(p)
    BY <2>1 DEF UnderWay
  <2> QED
    BY <2>1, <2>2, ThrottleAlone
<1> QED
  BY <1>1, <1>2, <1>3, <1>4 DEF Next

-------------------------------------------------------------------------------
(* The wrong passwords nobody counts *)

\* The logins under way whose failures a full table does not record.
Strangers == UNION {UnderWay(p) : p \in Peers \ Known}

\* They were let in before the table filled, and the login that filled it is
\* answered: so fewer than there are requests are left, or have been missed.
MissInv ==
    /\ missed \in Nat
    /\ IF Full THEN missed + Cardinality(Strangers) < Cardinality(Requests) ELSE missed = 0

LEMMA StrangerFacts ==
    /\ Strangers \subseteq Requests
    /\ IsFiniteSet(Strangers) /\ IsFiniteSet(Requests)
    /\ Cardinality(Strangers) \in Nat /\ Cardinality(Requests) \in Nat
    /\ Cardinality(Requests) > 0
<1>1. Strangers \subseteq Requests
  BY DEF Strangers, UnderWay
<1>2. IsFiniteSet(Requests) /\ Requests # {}
  BY PeerAssumption
<1>3. Cardinality(Requests) \in Nat /\ Cardinality(Requests) # 0
  BY <1>2, FS_CardinalityType, FS_EmptySet
<1> QED
  BY <1>1, <1>2, <1>3, FS_Subset, FS_CardinalityType

\* A full table that only loses peers is as it was, or has room.
LEMMA FullKept ==
    ASSUME TableBounded, Known' \subseteq Known, Full'
    PROVE  Known' = Known /\ Full
<1>1. Cardinality(Known') >= MaxPeers /\ Cardinality(Known) <= MaxPeers /\ MaxPeers \in Nat
  BY ThrottleAssumption DEF TableBounded, Full
<1>2. /\ Cardinality(Known') \in Nat /\ Cardinality(Known) \in Nat
      /\ Cardinality(Known') <= Cardinality(Known)
      /\ Cardinality(Known') = Cardinality(Known) => Known' = Known
  BY KnownFinite, FS_Subset, FS_CardinalityType
<1>3. Known' = Known
  BY <1>1, <1>2
<1>4. Full
  BY <1>1, <1>2, <1>3 DEF Full
<1> QED
  BY <1>3, <1>4

\* A step that adds no peer to the table and lets no login in.
LEMMA NoneMissed ==
    ASSUME MissInv, TableBounded, Known' \subseteq Known, Recount,
           \A p : UnderWay(p)' \subseteq UnderWay(p)
    PROVE  MissInv'
<1>1. CASE Full'
  <2>1. Known' = Known /\ Full /\ missed' = missed
    BY <1>1, FullKept DEF Recount
  <2>2. Strangers' \subseteq Strangers
    BY <2>1 DEF Strangers
  <2>3. Cardinality(Strangers') <= Cardinality(Strangers) /\ Cardinality(Strangers') \in Nat
    BY <2>2, StrangerFacts, FS_Subset, FS_CardinalityType
  <2>4. missed + Cardinality(Strangers) < Cardinality(Requests) /\ missed \in Nat
    BY <2>1 DEF MissInv
  <2>5. missed' + Cardinality(Strangers') < Cardinality(Requests)
    BY <2>1, <2>3, <2>4, StrangerFacts
  <2> QED
    BY <1>1, <2>1, <2>4, <2>5 DEF MissInv
<1>2. CASE ~Full'
  BY <1>2 DEF Recount, MissInv
<1> QED
  BY <1>1, <1>2

LEMMA MissAlone ==
    ASSUME MissInv, TableBounded, UNCHANGED <<failures, block, missed>>,
           \A p : UnderWay(p)' \subseteq UnderWay(p)
    PROVE  MissInv'
<1>1. Known' = Known /\ (Full' <=> Full)
  BY DEF Known, Full
<1>2. Recount
  BY <1>1 DEF Recount, MissInv
<1> QED
  BY <1>1, <1>2, NoneMissed

\* A login let in while the table is full is of a peer in the table.
LEMMA MissChecked ==
    ASSUME AccessInv, MissInv, TableBounded, NEW r \in Requests, CheckThrottle(r)
    PROVE  MissInv'
<1>0. UNCHANGED <<failures, block, missed>> /\ req[r] # Idle
  BY DEF CheckThrottle, throttle
<1>1. CASE End(r)
  BY <1>1, <1>0, Answered, MissAlone
<1>2. CASE Step(r, "load") /\ ~Refused(req[r].body.peer)
  <2>0. Known' = Known /\ (Full' <=> Full) /\ missed' = missed
    BY <1>0 DEF Known, Full
  <2>1. CASE Full
    <3>1. PICK p \in Peers : p = req[r].body.peer
      BY <1>0, BodyPeer
    <3>2. p \in Known
      BY <1>2, <2>1, <3>1 DEF Refused
    <3>3. \A s \in Requests : s # r => req'[s] = req[s]
      BY <1>2 DEF Step, AccessInv, Typed
    <3>4. req'[r].body = req[r].body
      BY <1>0, <1>2, Moved DEF Pcs, CheckThrottle
    <3>5. \A o \in Peers : o # p => UnderWay(o)' \subseteq UnderWay(o)
      BY <3>1, <3>3, <3>4 DEF UnderWay
    <3>6. Strangers' \subseteq Strangers
      BY <2>0, <3>2, <3>5 DEF Strangers
    <3>7. Cardinality(Strangers') <= Cardinality(Strangers) /\ Cardinality(Strangers') \in Nat
      BY <3>6, StrangerFacts, FS_Subset, FS_CardinalityType
    <3>8. missed + Cardinality(Strangers) < Cardinality(Requests) /\ missed \in Nat
      BY <2>1 DEF MissInv
    <3>9. missed' + Cardinality(Strangers') < Cardinality(Requests)
      BY <2>0, <3>7, <3>8, StrangerFacts
    <3> QED
      BY <2>0, <2>1, <3>8, <3>9 DEF MissInv
  <2>2. CASE ~Full
    BY <2>0, <2>2 DEF MissInv
  <2> QED
    BY <2>1, <2>2
<1> QED
  BY <1>0, <1>1, <1>2 DEF CheckThrottle

\* A wrong password: recorded, and maybe the one that fills the table, or missed.
LEMMA MissWrong ==
    ASSUME AccessInv, TableInv, TableInv', MissInv, NEW r \in Requests, LoginWrong(r)
    PROVE  MissInv'
<1>1. PICK p \in Peers : p = req[r].body.peer
  BY BodyPeer DEF LoginWrong, Verified
<1>2. /\ End(r) /\ Record(p) /\ r \in UnderWay(p)
      /\ missed' = IF Recorded(p) THEN missed ELSE missed + 1
  BY <1>1 DEF LoginWrong, Verified, UnderWay
<1>3. \A o : UnderWay(o)' \subseteq UnderWay(o) /\ r \notin UnderWay(o)'
  BY <1>2, Answered
<1>4. /\ Counters /\ TableBounded /\ missed \in Nat
  BY DEF TableInv, MissInv
<1>5. CASE ~Recorded(p)
  <2>1. Known' = Known /\ Full /\ Full' /\ p \notin Known /\ missed' = missed + 1
    BY <1>2, <1>5 DEF Record, Recorded, Known, Full
  <2>2. r \in Strangers /\ Strangers' \subseteq Strangers \ {r}
    BY <1>1, <1>2, <1>3, <2>1 DEF Strangers
  <2>3. /\ IsFiniteSet(Strangers \ {r})
        /\ Cardinality(Strangers \ {r}) = Cardinality(Strangers) - 1
    BY <2>2, StrangerFacts, FS_RemoveElement
  <2>4. /\ Cardinality(Strangers') <= Cardinality(Strangers \ {r})
        /\ Cardinality(Strangers') \in Nat
    BY <2>2, <2>3, FS_Subset, FS_CardinalityType
  <2>5. missed + Cardinality(Strangers) < Cardinality(Requests)
    BY <2>1 DEF MissInv
  <2>6. missed' + Cardinality(Strangers') < Cardinality(Requests)
    BY <1>4, <2>1, <2>3, <2>4, <2>5, StrangerFacts
  <2> QED
    BY <1>4, <2>1, <2>6 DEF MissInv
<1>6. CASE Recorded(p)
  <2>1. missed' = missed
    BY <1>2, <1>6
  <2>2. CASE Full
    <3>1. p \in Known
      BY <1>6, <2>2 DEF Recorded
    <3>2. \A o \in Peers : o # p => failures'[o] = failures[o] /\ block'[o] = block[o]
      BY <1>2, <1>4 DEF Record, Counters
    <3>3. Known' \subseteq Known
      BY <3>1, <3>2 DEF Known
    <3>4. Known \subseteq Known'
      <4>1. p \in Known'
        <5>1. failures'[p] # NoFailure \/ block'[p] > 0
          <6>1. CASE Total(failures[p]) + 1 >= Limit
            <7>1. block'[p] = Block
              BY <1>2, <1>4, <1>6, <6>1 DEF Record, Counters
            <7> QED
              BY <7>1, ThrottleAssumption
          <6>2. CASE ~(Total(failures[p]) + 1 >= Limit)
            <7>1. failures'[p][0] = failures[p][0] + 1 /\ failures[p][0] \in Nat
              BY <1>2, <1>4, <1>6, <6>2, AgeFacts DEF Record, Counters
            <7> QED
              BY <7>1, AgeFacts DEF NoFailure
          <6> QED
            BY <6>1, <6>2
        <5> QED
          BY <5>1 DEF Known
      <4> QED
        BY <3>2, <4>1 DEF Known
    <3>0. Known' = Known
      BY Zenon, <3>3, <3>4
    <3>5. Known' = Known /\ (Full' <=> Full)
      BY <3>0 DEF Full
    <3>6. Recount
      BY <2>1, <2>2, <3>5 DEF Recount
    <3> QED
      BY <1>3, <1>4, <3>5, <3>6, NoneMissed
  <2>3. CASE ~Full
    <3>1. missed' = 0
      BY <2>1, <2>3 DEF MissInv
    <3>1a. \A o : UnderWay(o)' \subseteq Requests \ {r}
      BY <1>3 DEF UnderWay
    <3>2. Strangers' \subseteq Requests \ {r}
      BY <3>1a DEF Strangers
    <3>3. /\ IsFiniteSet(Requests \ {r})
          /\ Cardinality(Requests \ {r}) = Cardinality(Requests) - 1
      BY StrangerFacts, FS_RemoveElement
    <3>4. Cardinality(Strangers') <= Cardinality(Requests) - 1 /\ Cardinality(Strangers') \in Nat
      BY <3>2, <3>3, FS_Subset, FS_CardinalityType
    <3>5. missed' + Cardinality(Strangers') < Cardinality(Requests)
      BY <3>1, <3>4, StrangerFacts
    <3> QED
      BY <3>1, <3>5 DEF MissInv
  <2> QED
    BY <2>2, <2>3
<1> QED
  BY <1>5, <1>6

LEMMA MissStep == AccessInv /\ TableInv /\ TableInv' /\ MissInv /\ [Next]_vars => MissInv'
<1> SUFFICES ASSUME AccessInv, TableInv, TableInv', MissInv, [Next]_vars PROVE MissInv'
  OBVIOUS
<1>0. TableBounded /\ Counters
  BY DEF TableInv
<1>1. CASE \E r \in Requests : CheckThrottle(r)
  BY <1>1, <1>0, MissChecked
<1>2. CASE \E r \in Requests : LoginWrong(r)
  BY <1>2, MissWrong
<1>3. CASE \E r \in Requests : LoginRight(r)
  <2>1. PICK r \in Requests : LoginRight(r)
    BY <1>3
  <2>2. /\ End(r) /\ Recount
        /\ failures' = [failures EXCEPT ![req[r].body.peer] = NoFailure]
        /\ block' = [block EXCEPT ![req[r].body.peer] = 0]
    BY <2>1 DEF LoginRight
  <2>3. Known' \subseteq Known
    BY <1>0, <2>2 DEF Known, Counters
  <2> QED
    BY <1>0, <2>2, <2>3, Answered, NoneMissed
<1>4. CASE Tick
  <2>1. Older(NoFailure) = NoFailure
    BY AgeFacts DEF Older, NoFailure
  <2>2. Known' \subseteq Known
    BY <1>4, <2>1 DEF Tick, Known
  <2>3. \A p : UnderWay(p)' \subseteq UnderWay(p)
    BY <1>4 DEF Tick, UnderWay
  <2>4. Recount
    BY <1>4 DEF Tick
  <2> QED
    BY <1>0, <2>2, <2>3, <2>4, NoneMissed
<1>6. CASE \E r \in Requests :
             Load(r) \/ Acquire(r) \/ UpdateVerified(r) \/ Select(r) \/ Commit(r)
  <2>1. UNCHANGED <<failures, block, missed>>
    BY <1>6 DEF Load, Acquire, UpdateVerified, Select, Commit, throttle
  <2>2. \A p : UnderWay(p)' \subseteq UnderWay(p)
    BY <1>6, FewerUnderWay
  <2> QED
    BY <1>0, <2>1, <2>2, MissAlone
<1>7. CASE \/ \E r \in Requests, b \in LoginBodies : SendLogin(r, b)
           \/ \E r \in Requests, b \in UpdateBodies : SendUpdate(r, b)
  <2>1. UNCHANGED <<failures, block, missed>>
    BY <1>7 DEF SendLogin, SendUpdate, throttle
  <2>2. \A p : UnderWay(p)' \subseteq UnderWay(p)
    BY <1>7, NoneUnderWay DEF Bodies
  <2> QED
    BY <1>0, <2>1, <2>2, MissAlone
<1>8. CASE (\E p \in Peers : Visit(p) \/ Logout(p) \/ Expire(p)) \/ UNCHANGED vars
  <2>1. UNCHANGED <<failures, block, missed, req>>
    BY <1>8 DEF Visit, Logout, Expire, vars, throttle
  <2> QED
    BY <1>0, <2>1, MissAlone DEF UnderWay
<1> QED
  BY <1>1, <1>2, <1>3, <1>4, <1>6, <1>7, <1>8 DEF Next, Handle

\* In any window at most the limit of wrong passwords, and one more for each
\* login that was under way when the peer was blocked, are counted of a peer,
\* since a block lasts at least as long as the window; those of new peers that
\* a full table does not record are, while it stays full, fewer than there are
\* requests, of all peers together; and the table stays within its capacity:
\* for any number of peers and requests, whatever they interleave.
THEOREM ThrottleAlwaysHolds == Spec => []ThrottleHolds
<1>1. ThrottleInv => \A p \in Peers : Total(recent[p]) <= Limit + Cardinality(Requests) - 1
  <2> SUFFICES ASSUME ThrottleInv, NEW p \in Peers
               PROVE  Total(recent[p]) <= Limit + Cardinality(Requests) - 1
    OBVIOUS
  <2>1. Total(recent[p]) + Cardinality(UnderWay(p)) < Limit + Cardinality(Requests)
    BY DEF ThrottleInv, PeerInv
  <2>2. /\ Total(recent[p]) \in Nat /\ Cardinality(UnderWay(p)) \in Nat
        /\ Cardinality(Requests) \in Nat /\ Limit \in Nat
    BY TotalType, UnderWayFacts, ThrottleAssumption DEF ThrottleInv
  <2> QED
    BY <2>1, <2>2
<1>2. MissInv => missed < Cardinality(Requests)
  BY StrangerFacts DEF MissInv
<1>3. TableInv /\ ThrottleInv /\ MissInv => ThrottleHolds
  BY <1>1, <1>2 DEF ThrottleHolds, TableInv
<1>4. Init => MissInv
  <2> SUFFICES ASSUME Init PROVE MissInv
    OBVIOUS
  <2>1. Known = {} /\ missed = 0
    BY DEF Init, Known
  <2>2. ~Full
    BY <2>1, FS_EmptySet, ThrottleAssumption DEF Full
  <2> QED
    BY <2>1, <2>2 DEF MissInv
<1> QED
  BY <1>3, <1>4, UnderWayInit, UnderWayStep, MissStep, TableInvariant, AccessInvariant, PTL
     DEF Spec

===============================================================================
