----------------------------- MODULE AccessControl -----------------------------
(***************************************************************************)
(* Who may manage the service (app/security.py, app/routers/auth.py, the   *)
(* middleware of app/main.py): the access settings, sessions in browsers,  *)
(* the matrix that admits a request, the change of the settings, and the   *)
(* login with its throttle.                                                *)
(*                                                                         *)
(* A handler gives up the event loop at each statement of the database and *)
(* while a thread verifies a password: those are the steps.  Every request *)
(* passes the middleware, which reads the settings in a session of its own.*)
(* The installation role is written with the other two settings and read   *)
(* by nobody here; it is left out.                                         *)
(***************************************************************************)
EXTENDS Integers, FiniteSets

CONSTANTS
    Peers,       \* addresses that connect, with one browser each
    Loopback,    \* those that are this machine
    Requests,    \* requests in flight
    Passwords,
    NULL,
    KdfSlots,    \* _KDF_SEMAPHORE
    MaxPeers,    \* MAX_LOGIN_PEERS
    Limit, Window, Block,  \* LOGIN_FAILURE_LIMIT, _WINDOW, LOGIN_BLOCK_SECONDS
    Scenarios    \* bound: from which settings, whether logins are sent, how
                 \* many updates

ASSUME PeerAssumption ==
    Loopback \subseteq Peers /\ IsFiniteSet(Peers) /\ IsFiniteSet(Requests) /\ Requests # {}
ASSUME NullAssumption == NULL \notin Passwords /\ NULL \notin Peers
ASSUME ThrottleAssumption ==
    /\ KdfSlots \in Nat \ {0} /\ MaxPeers \in Nat \ {0} /\ Limit \in Nat \ {0}
    /\ Window \in Nat \ {0} /\ Block \in Nat /\ Block >= Window

VARIABLES
    setting,   \* [access, hash]: the rows, or the defaults while there are none
    stored,    \* the rows exist
    cookie,    \* the session in the browser of each peer
    req,       \* the requests in flight
    kdf,       \* free slots of the semaphore
    failures,  \* _login_failures: how many of each age
    block,     \* _login_blocked_until, as the time left
    recent,    \* history: the wrong passwords of each age that were counted,
               \* since the last success
    missed,    \* history: the wrong passwords nobody counted, since the table
               \* last had room
    raced,     \* history: a change was decided on a password that had changed
    sent       \* bound: what may still be sent

throttle == <<kdf, failures, block, recent, missed>>
vars == <<setting, stored, cookie, req, throttle, raced, sent>>

Modes == {"local_only", "lan_authenticated"}
Settings == [access : Modes, hash : Passwords \cup {NULL}]
SoundSettings == {s \in Settings : s.access = "lan_authenticated" => s.hash # NULL}
ASSUME ScenarioAssumption ==
    Scenarios \subseteq [logins : BOOLEAN, updates : Nat, start : SoundSettings]
Sessions == {"none", "implicit", "explicit"}
Ages == 0 .. Window - 1
NoFailure == [a \in Ages |-> 0]

Defaults == [access |-> "local_only", hash |-> NULL]

\* What a request says: the password it gives, and an update also the mode and
\* the new password it asks for.
LoginBodies == [peer : Peers, password : Passwords]
UpdateBodies == [peer : Peers, password : Passwords \cup {NULL},
                 access : Modes, new : Passwords \cup {NULL}]
Bodies == LoginBodies \cup UpdateBodies

\* `session` is the cookie it carries, `seen` what the handler decides on,
\* `rows` what it read again to write, `insert` that there were no rows.
Pcs == {"login", "load", "queued", "verifying", "select", "commit"}
Idle == [pc |-> "idle"]
Active == [pc : Pcs, kind : {"login", "update"}, body : Bodies,
           session : Sessions, seen : Settings, rows : Settings, insert : BOOLEAN]
Sent(pc, kind, body) == [pc |-> pc, kind |-> kind, body |-> body,
                         session |-> IF kind = "login" THEN "none" ELSE cookie[body.peer],
                         seen |-> Defaults, rows |-> Defaults, insert |-> FALSE]

-------------------------------------------------------------------------------
(* The matrix *)

\* "subscribe" stands for the GET of a subscription, whose token the route
\* checks; the other methods on that address are "api".
Paths == {"static", "subscribe", "public", "api", "page"}

\* The session that counts: an explicit one always, an implicit one only in
\* local_only and from this machine.
Bug_ImplicitAnywhere(session, loopback, access) == session
Resolved(session, loopback, access) ==
    IF session = "implicit" /\ ~(access = "local_only" /\ loopback) THEN "none" ELSE session

\* require_admin_request: the decision on a request, `csrf` saying that its
\* token is the one of the session it carries.
Decide(path, write, loopback, session, csrf, access) ==
    LET valid == Resolved(session, loopback, access) # "none"
    IN  IF path = "static" THEN "public"
        ELSE IF path = "subscribe" THEN "allow"
        ELSE IF access = "local_only" /\ ~loopback THEN "forbidden"
        ELSE IF path = "public" THEN "public"
        ELSE IF valid THEN IF write /\ ~csrf THEN "csrf_rejected" ELSE "allow"
        ELSE IF access = "local_only" THEN IF write THEN "csrf_rejected" ELSE "issue"
        ELSE IF path = "api" THEN "unauthorized" ELSE "redirect_login"

Admits(p, path, write, csrf) ==
    Decide(path, write, p \in Loopback, cookie[p], csrf, setting.access)

-------------------------------------------------------------------------------
(* The browser *)

\* A page is opened.  A request without a session from this machine gets an
\* implicit one in local_only.
Visit(p) ==
    /\ Admits(p, "page", FALSE, FALSE) = "issue"
    /\ cookie' = [cookie EXCEPT ![p] = "implicit"]
    /\ UNCHANGED <<setting, stored, req, throttle, raced, sent>>

Logout(p) ==
    /\ Admits(p, "api", TRUE, TRUE) = "allow"
    /\ cookie' = [cookie EXCEPT ![p] = "none"]
    /\ UNCHANGED <<setting, stored, req, throttle, raced, sent>>

\* SESSION_MAX_AGE has passed, for the browser and for the signature.
Expire(p) ==
    /\ cookie[p] # "none"
    /\ cookie' = [cookie EXCEPT ![p] = "none"]
    /\ UNCHANGED <<setting, stored, req, throttle, raced, sent>>

-------------------------------------------------------------------------------
(* Steps of a request *)

Step(r, pc) == req' = [req EXCEPT ![r].pc = pc]
End(r) == req' = [req EXCEPT ![r] = Idle]

\* Every lookup prunes first what is older than the window and the blocks
\* that are over; Tick does so for the model.
Known == {p \in Peers : failures[p] # NoFailure \/ block[p] > 0}
Full == Cardinality(Known) >= MaxPeers

\* login_throttle_wait
Bug_RoomNotAsked(p) == block[p] > 0
Refused(p) == block[p] > 0 \/ (p \notin Known /\ Full)

Total(f) == LET g[a \in 0 .. Window] == IF a = 0 THEN 0 ELSE g[a - 1] + f[a - 1]
            IN  g[Window]

\* The middleware lets a login through.
SendLogin(r, b) ==
    /\ sent.logins /\ req[r] = Idle
    /\ Admits(b.peer, "public", TRUE, FALSE) = "public"
    /\ req' = [req EXCEPT ![r] = Sent("login", "login", b)]
    /\ UNCHANGED <<setting, stored, cookie, throttle, raced, sent>>

\* login, up to load_access_settings: a refused peer gets a 429.
Bug_RefusalCounts(r) ==
    LET p == req[r].body.peer IN
    /\ req[r] # Idle /\ req[r].pc = "login"
    /\ IF Refused(p) THEN End(r) ELSE Step(r, "load")
    /\ block' = [block EXCEPT ![p] = IF @ > 0 THEN Block ELSE @]
    /\ UNCHANGED <<setting, stored, cookie, kdf, failures, recent, missed, raced, sent>>
CheckThrottle(r) ==
    /\ req[r] # Idle /\ req[r].pc = "login"
    /\ IF Refused(req[r].body.peer) THEN End(r) ELSE Step(r, "load")
    /\ UNCHANGED <<setting, stored, cookie, throttle, raced, sent>>

\* The middleware lets an update through; the handler checks the token again.
SendUpdate(r, b) ==
    /\ sent.updates > 0 /\ req[r] = Idle
    /\ Admits(b.peer, "api", TRUE, TRUE) = "allow"
    /\ req' = [req EXCEPT ![r] = Sent("load", "update", b)]
    /\ sent' = [sent EXCEPT !.updates = @ - 1]
    /\ UNCHANGED <<setting, stored, cookie, throttle, raced>>

\* load_access_settings and what is decided on it without waiting: a password
\* that is configured is asked for, one that is not must not be given, and
\* lan_authenticated needs one.
Bug_LanWithoutPassword(r) == LET b == req[r].body IN
    IF setting.hash # NULL THEN IF b.password = NULL THEN "end" ELSE "queued"
    ELSE IF req[r].kind = "login" \/ b.password # NULL THEN "end" ELSE "select"
Bug_MissingIsRight(r) == LET b == req[r].body IN
    IF setting.hash # NULL THEN IF b.password = NULL THEN "select" ELSE "queued"
    ELSE IF \/ req[r].kind = "login" \/ b.password # NULL
            \/ b.access = "lan_authenticated" /\ b.new = NULL
         THEN "end" ELSE "select"
AfterLoad(r) == LET b == req[r].body IN
    IF setting.hash # NULL THEN IF b.password = NULL THEN "end" ELSE "queued"
    ELSE IF \/ req[r].kind = "login" \/ b.password # NULL
            \/ b.access = "lan_authenticated" /\ b.new = NULL
         THEN "end" ELSE "select"

Load(r) ==
    /\ req[r] # Idle /\ req[r].pc = "load"
    /\ IF AfterLoad(r) = "end"
         THEN End(r)
         ELSE req' = [req EXCEPT ![r].seen = setting, ![r].pc = AfterLoad(r)]
    /\ UNCHANGED <<setting, stored, cookie, throttle, raced, sent>>

\* _verify_password_off_loop: a slot of the semaphore, and the thread.
Acquire(r) ==
    /\ req[r] # Idle /\ req[r].pc = "queued" /\ kdf > 0
    /\ Step(r, "verifying")
    /\ kdf' = kdf - 1
    /\ UNCHANGED <<setting, stored, cookie, failures, block, recent, missed, raced, sent>>

Verified(r) == req[r] # Idle /\ req[r].pc = "verifying"
Right(r) == req[r].body.password = req[r].seen.hash

Release(r) == kdf' = kdf + 1

\* record_login_failure: counted unless the peer is unknown and there is no
\* room; at the limit the count starts anew behind a block.
Recorded(p) == p \in Known \/ ~Full
Bug_NoBlock(p) ==
    /\ failures' = [failures EXCEPT ![p][0] = @ + 1]
    /\ block' = block
Record(p) ==
    IF ~Recorded(p) THEN UNCHANGED <<failures, block>>
    ELSE IF Total(failures[p]) + 1 >= Limit
    THEN /\ failures' = [failures EXCEPT ![p] = NoFailure]
         /\ block' = [block EXCEPT ![p] = Block]
    ELSE /\ failures' = [failures EXCEPT ![p][0] = @ + 1]
         /\ block' = block

LoginWrong(r) == LET p == req[r].body.peer IN
    /\ Verified(r) /\ req[r].kind = "login" /\ ~Right(r)
    /\ Record(p)
    /\ IF Recorded(p)
         THEN recent' = [recent EXCEPT ![p][0] = @ + 1] /\ missed' = missed
         ELSE recent' = recent /\ missed' = missed + 1
    /\ End(r) /\ Release(r)
    /\ UNCHANGED <<setting, stored, cookie, raced, sent>>

\* The table may have got room.
Recount == missed' = IF Full' THEN missed ELSE 0

\* record_login_success, and an explicit session.
LoginRight(r) == LET p == req[r].body.peer IN
    /\ Verified(r) /\ req[r].kind = "login" /\ Right(r)
    /\ failures' = [failures EXCEPT ![p] = NoFailure]
    /\ block' = [block EXCEPT ![p] = 0]
    /\ recent' = [recent EXCEPT ![p] = NoFailure]
    /\ Recount
    /\ cookie' = [cookie EXCEPT ![p] = "explicit"]
    /\ End(r) /\ Release(r)
    /\ UNCHANGED <<setting, stored, raced, sent>>

UpdateVerified(r) ==
    /\ Verified(r) /\ req[r].kind = "update"
    /\ IF Right(r) THEN Step(r, "select") ELSE End(r)
    /\ Release(r)
    /\ UNCHANGED <<setting, stored, cookie, failures, block, recent, missed, raced, sent>>

\* update_access reads the rows again to write them; nobody held those it
\* read first, so these are fresh.
Select(r) ==
    /\ req[r] # Idle /\ req[r].pc = "select"
    /\ req' = [req EXCEPT ![r].rows = setting, ![r].insert = ~stored, ![r].pc = "commit"]
    /\ UNCHANGED <<setting, stored, cookie, throttle, raced, sent>>

\* The hash an update asks for: the one it saw unless it brings a new one.
NewHash(r) == IF req[r].body.new = NULL THEN req[r].seen.hash ELSE req[r].body.new

\* The unit of work writes only the rows whose value differs from the one it
\* read (a new password always does, by its salt); another insert that was
\* first makes this one fail.
Merged(r) ==
    LET q == req[r] IN
    IF q.insert THEN [access |-> q.body.access, hash |-> NewHash(r)]
    ELSE [access |-> IF q.body.access = q.rows.access THEN setting.access ELSE q.body.access,
          hash |-> IF q.body.new = NULL /\ NewHash(r) = q.rows.hash
                  THEN setting.hash ELSE NewHash(r)]

Commit(r) ==
    LET p == req[r].body.peer IN
    /\ req[r] # Idle /\ req[r].pc = "commit"
    /\ End(r)
    /\ IF req[r].insert /\ stored
         THEN UNCHANGED <<setting, stored, cookie, raced>>
         ELSE /\ setting' = Merged(r)
              /\ stored' = TRUE
              /\ raced' = (raced \/ req[r].seen.hash # setting.hash)
              /\ cookie' = [cookie EXCEPT ![p] =
                    IF req[r].body.access = "lan_authenticated" /\ req[r].session = "implicit"
                    THEN "none" ELSE @]
    /\ UNCHANGED <<throttle, sent>>

\* A unit of time.
Older(f) == [a \in Ages |-> IF a = 0 THEN 0 ELSE f[a - 1]]
Tick ==
    /\ \E p \in Peers : block[p] > 0 \/ failures[p] # NoFailure \/ recent[p] # NoFailure
    /\ failures' = [p \in Peers |-> Older(failures[p])]
    /\ recent' = [p \in Peers |-> Older(recent[p])]
    /\ block' = [p \in Peers |-> IF block[p] > 0 THEN block[p] - 1 ELSE 0]
    /\ Recount
    /\ UNCHANGED <<setting, stored, cookie, req, kdf, raced, sent>>

-------------------------------------------------------------------------------
Init ==
    /\ sent \in Scenarios
    /\ setting = sent.start
    /\ stored \in BOOLEAN /\ (~stored => setting = Defaults)
    /\ cookie \in [Peers -> {"none", "explicit"}]
    /\ (\E p \in Peers : cookie[p] = "explicit") => setting.hash # NULL
    /\ req = [r \in Requests |-> Idle]
    /\ kdf = KdfSlots
    /\ failures = [p \in Peers |-> NoFailure]
    /\ block = [p \in Peers |-> 0]
    /\ recent = [p \in Peers |-> NoFailure]
    /\ missed = 0
    /\ raced = FALSE

Handle(r) ==
    \/ CheckThrottle(r) \/ Load(r) \/ Acquire(r)
    \/ LoginWrong(r) \/ LoginRight(r)
    \/ UpdateVerified(r) \/ Select(r) \/ Commit(r)

Next ==
    \/ \E p \in Peers : Visit(p) \/ Logout(p) \/ Expire(p)
    \/ \E r \in Requests, b \in LoginBodies : SendLogin(r, b)
    \/ \E r \in Requests, b \in UpdateBodies : SendUpdate(r, b)
    \/ \E r \in Requests : Handle(r)
    \/ Tick

\* The event loop runs every coroutine that can go on, the semaphore serves
\* its queue in order, and time passes.
Fairness ==
    /\ WF_vars(Tick)
    /\ \A r \in Requests : WF_vars(Handle(r)) /\ SF_vars(Acquire(r))

Spec == Init /\ [][Next]_vars /\ Fairness

-------------------------------------------------------------------------------
(* Properties *)

TypeOK ==
    /\ setting \in Settings /\ stored \in BOOLEAN
    /\ cookie \in [Peers -> Sessions]
    /\ req \in [Requests -> {Idle} \cup Active]
    /\ kdf \in 0 .. KdfSlots
    /\ failures \in [Peers -> [Ages -> Nat]]
    /\ block \in [Peers -> 0 .. Block]
    /\ recent \in [Peers -> [Ages -> Nat]]
    /\ missed \in Nat
    /\ raced \in BOOLEAN
    /\ sent \in [logins : BOOLEAN, updates : Nat, start : SoundSettings]

\* However the steps of several updates and logins interleave, the management
\* in the local network has a password, unless an update was committed that
\* had been decided on another password than the one then stored (which the
\* code does not exclude: the settings are read once and written later).
LanHasPassword ==
    ~raced => (setting.access = "lan_authenticated" => setting.hash # NULL)

\* The matrix over every kind of request, whatever the cookies and settings
\* have gone through: outside the public paths only this machine gets in in
\* local_only, only a session that logged in with a password does in
\* lan_authenticated, and nothing is changed without the session's token
\* (the promise at the head of security.py).
AdmitsOnlyAdmins ==
    \A p \in Peers, path \in {"api", "page"}, write, csrf \in BOOLEAN :
        Admits(p, path, write, csrf) \in {"allow", "issue"} =>
            /\ IF setting.access = "local_only"
                 THEN p \in Loopback
                 ELSE cookie[p] = "explicit"
            /\ write => csrf /\ cookie[p] # "none"

\* The throttle is checked when a login comes in and the failure recorded much
\* later, with other logins of the peer and of others in between.  A wrong
\* password is counted, unless the peer is new and the table full by then.  In
\* any window at most the limit and one more for each login that was under way
\* are counted of a peer.  Those that nobody counts are of logins let in before
\* the table filled: while it stays full, fewer than there are requests, of all
\* peers together.  The table never outgrows its capacity.  (Whenever the table
\* gets room and fills anew, a new peer may have that many more: the code has
\* no limit for the sum of them.)
TableBounded == Cardinality(Known) <= MaxPeers
ThrottleHolds ==
    /\ TableBounded
    /\ \A p \in Peers : Total(recent[p]) <= Limit + Cardinality(Requests) - 1
    /\ missed < Cardinality(Requests)

\* Once a password is stored, the settings change only by a request that gave
\* it, but for the changes decided on a password that had been replaced.
ChangesAreVerified ==
    [][setting' # setting /\ setting.hash # NULL /\ ~raced'
       => \E r \in Requests : req[r] # Idle /\ req'[r] = Idle
                              /\ req[r].body.password = setting.hash]_vars

\* Nobody stays locked out: a blocked peer is let in again, also when it keeps
\* trying, and every request is answered, because no slot of the semaphore is
\* lost, whichever way a verification ends.
NobodyLockedOut ==
    /\ \A p \in Peers : block[p] > 0 ~> block[p] = 0
    /\ \A r \in Requests : req[r] # Idle ~> req[r] = Idle

===============================================================================
