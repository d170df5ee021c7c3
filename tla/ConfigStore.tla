----------------------------- MODULE ConfigStore -----------------------------
(***************************************************************************)
(* Profiles, their UDP exceptions, the rule sources, the requests that     *)
(* edit them, and the generation of a configuration from them.             *)
(*                                                                         *)
(* A SELECT outside a write transaction is a snapshot of its own, so each  *)
(* read of a handler is a step and rows may change after it.  The first    *)
(* write of a handler takes SQLite's write lock until the commit: all that *)
(* follows is one step.  An ORM commit writes only the columns that differ *)
(* from what was loaded (Merge), and a row that the session holds is not   *)
(* refreshed by a later SELECT of the same session (SessionView).          *)
(***************************************************************************)
EXTENDS Integers, FiniteSets

CONSTANTS
    Profiles, Exceptions, Rules,  \* ids, each an initial segment of 1, 2, ...
    Kinds,          \* the identities of rule sources that the instance uses
    Orders,         \* values of sort_order
    Seeds,          \* the rule sources at the start: [Rules -> RuleRow or NULL]
    ProfileEdits,   \* the PUTs of profiles that are sent
    ExceptionEdits, \* the PUTs of UDP exceptions that are sent
    RuleEdits,      \* the PUTs of one rule, and the reorders of several
    Requests,       \* handlers that may run at the same time
    MaxRequests,    \* bound: how many requests arrive
    NULL, Keep      \* no row; "field not part of the request"

VARIABLES
    profile,    \* config_profiles by id
    exception,  \* udp_exceptions by id
    rule,       \* rule_sources by id
    req,        \* req[r]: the locals of the handler in slot r, NULL when free
    out,        \* the last generated configuration
    left,       \* requests that may still arrive
    raced,      \* a commit was decided on rows that had changed since
    chosen      \* is_default was written or deleted by hand

vars == <<profile, exception, rule, req, out, left, raced, chosen>>

-------------------------------------------------------------------------------
(* Targets, modes and the values of an exception *)
(* The operators named Bug_... are the mutants of the definition after them. *)

Targets == {"mac_workstation", "mac_gateway", "ios_mobile"}
Modes == {"strict", "scoped", "compatible"}
MatchTypes == {"process", "mac_address"}

\* A MAC address as it is stored, the same written otherwise, and no address.
MatchValues == {"mac", "raw", "name"}

Allowed == [mac_workstation |-> {"process"},
            mac_gateway |-> {"mac_address"}, ios_mobile |-> {}]
DefaultMode(t) == IF t = "ios_mobile" THEN "compatible" ELSE "scoped"
FitsTarget(t, m) == ~(t = "ios_mobile" /\ m = "scoped")

\* normalize_udp_match: the stored form of a value, NULL when it is refused.
Normalize(t, type, v) ==
    IF type \notin Allowed[t] \/ (type = "mac_address" /\ v = "name") THEN NULL
    ELSE IF type = "process" THEN v ELSE "mac"

-------------------------------------------------------------------------------
(* Rows *)

ProfileRow == [target: Targets, mode: Modes, default: BOOLEAN]
ExceptionRow == [profile: Profiles, type: MatchTypes, value: MatchValues,
                 on: BOOLEAN]
RuleRow == [kind: Kinds, on: BOOLEAN, order: Orders]

\* A request names the fields it gives a value.
ProfileEdit == [target: Targets \cup {Keep}, mode: Modes \cup {Keep},
                default: BOOLEAN \cup {Keep}]
ExceptionEdit == [type: MatchTypes \cup {Keep}, value: MatchValues \cup {Keep},
                  on: BOOLEAN \cup {Keep}]
RuleEdit == [kind: Kinds \cup {Keep}, on: BOOLEAN \cup {Keep},
             order: Orders \cup {Keep}]

ASSUME IdsAssumption ==
    /\ Profiles \subseteq Nat \ {0} /\ 1 \in Profiles
    /\ Exceptions \subseteq Nat \ {0}
    /\ Rules \subseteq Nat \ {0}
    /\ Orders \subseteq Int
    /\ MaxRequests \in Nat
ASSUME MarkAssumption ==
    /\ NULL \notin ProfileRow \cup ExceptionRow \cup RuleRow
    /\ NULL \notin MatchValues /\ NULL \notin Profiles \cup Exceptions
    /\ Keep \notin Targets \cup Modes \cup MatchTypes \cup MatchValues \cup Kinds
    /\ Keep \notin BOOLEAN /\ Keep \notin Orders
ASSUME InputAssumption ==
    /\ Seeds \in [Rules -> RuleRow \cup {NULL}]
    /\ ProfileEdits \subseteq ProfileEdit
    /\ ExceptionEdits \subseteq ExceptionEdit
    /\ RuleEdits \subseteq UNION {[I -> RuleEdit] : I \in SUBSET Rules}

Stored(table) == {i \in DOMAIN table : table[i] # NULL}

\* INTEGER PRIMARY KEY without AUTOINCREMENT: one more than the largest id.
IsNewId(table, i) ==
    /\ \A j \in Stored(table) : j < i
    /\ i = 1 \/ i - 1 \in Stored(table)

Patch(row, edit) ==
    [c \in DOMAIN row |-> IF c \in DOMAIN edit /\ edit[c] # Keep
                          THEN edit[c] ELSE row[c]]

\* The UPDATE of an ORM commit, on the row as it is now.
Merge(now, loaded, new) ==
    [c \in DOMAIN now |-> IF new[c] # loaded[c] THEN new[c] ELSE now[c]]

ExceptionsOf(p) ==
    {<<e, exception[e]>> : e \in {x \in Stored(exception) : exception[x].profile = p}}

-------------------------------------------------------------------------------
(* The order of rules *)

\* RULE_ORDER_INVARIANTS: every enabled source of the one kind before every
\* enabled source of the other.  A kind stands for a set of built-in identities
\* (DouYin is a domestic source too); "other" for all that take no part.
MustPrecede == ({"ai"} \X {"apple", "google", "global"})
               \cup {<<"douyin", "tiktok">>}
               \cup ({"domestic", "douyin"} \X {"global"})

\* sorted by (sort_order, id)
Precedes(rs, i, j) ==
    rs[i].order < rs[j].order \/ (rs[i].order = rs[j].order /\ i < j)

OrderValid(rs) ==
    \A i, j \in DOMAIN rs :
        <<rs[i].kind, rs[j].kind>> \in MustPrecede => Precedes(rs, i, j)

\* SELECT ... WHERE enabled
Enabled(table) ==
    [i \in {x \in Stored(table) : table[x].on} |-> table[i]]

\* The built-in sources (test_required_rule_order_in_generated_output), or
\* what upgrades and validated edits have made of them.
ASSUME SeedsAssumption == OrderValid(Enabled(Seeds))

-------------------------------------------------------------------------------
(* Requests *)

Ops == {"update_profile", "set_default", "create_exception",
        "update_exception", "edit_rules", "generate", "subscribe"}

\* prof: the profile as loaded; seen: what else the handler has read.
Request(op, pc, p, e, ask, prof, seen) ==
    [op |-> op, pc |-> pc, p |-> p, e |-> e, ask |-> ask, prof |-> prof,
     seen |-> seen]

At(r, op, pc) == req[r] # NULL /\ req[r].op = op /\ req[r].pc = pc
Goto(r, pc, seen) == req' = [req EXCEPT ![r].pc = pc, ![r].seen = seen]
Finish(r) == req' = [req EXCEPT ![r] = NULL]

Arrive == left > 0 /\ left' = left - 1

\* resolve_profile at the start of a handler; a missing one is 404.
Begin(r, op, pc, p, e, ask) ==
    /\ Arrive
    /\ req[r] = NULL
    /\ profile[p] # NULL
    /\ req' = [req EXCEPT ![r] = Request(op, pc, p, e, ask, profile[p], {})]
    /\ UNCHANGED <<profile, exception, rule, out, raced, chosen>>

\* The database is busy or gone, or the process: the transaction is rolled back.
Abandon(r) ==
    /\ req[r] # NULL
    /\ Finish(r)
    /\ UNCHANGED <<profile, exception, rule, out, left, raced, chosen>>

-------------------------------------------------------------------------------
(* routers/configs.py: profiles *)

\* POST: an omitted target is that of the installation's role, so any of two.
CreateProfile(t, m, d) ==
    LET mode == IF m = Keep THEN DefaultMode(t) ELSE m IN
    /\ Arrive
    /\ FitsTarget(t, mode)
    /\ \E p \in Profiles :
          /\ IsNewId(profile, p)
          /\ profile' = [profile EXCEPT
                 ![p] = [target |-> t, mode |-> mode, default |-> d]]
    /\ chosen' = (chosen \/ d)
    /\ UNCHANGED <<exception, rule, req, out, raced>>

\* PUT: a new target without a mode takes the default mode of the target.
Edited(row, ask) ==
    LET new == Patch(row, ask) IN
    IF ask.target # Keep /\ ask.mode = Keep
    THEN [new EXCEPT !.mode = DefaultMode(ask.target)] ELSE new

\* All exceptions count, the disabled ones too.
Bug_OnlyEnabled(p, t) ==
    {x \in ExceptionsOf(p) : x[2].type \notin Allowed[t] /\ x[2].on}
Incompatible(p, t) == {x \in ExceptionsOf(p) : x[2].type \notin Allowed[t]}

CheckTarget(r) ==
    LET q == req[r]  new == Edited(q.prof, q.ask) IN
    /\ At(r, "update_profile", "loaded")
    /\ \/ /\ FitsTarget(new.target, new.mode)
          /\ new.target = q.prof.target \/ Incompatible(q.p, new.target) = {}
          /\ Goto(r, "checked", ExceptionsOf(q.p))
       \/ /\ \/ ~FitsTarget(new.target, new.mode)
             \/ new.target # q.prof.target /\ Incompatible(q.p, new.target) # {}
          /\ Finish(r)
    /\ UNCHANGED <<profile, exception, rule, out, left, raced, chosen>>

\* ck_config_profiles_target_udp_mode
CheckConstraint(row) == FitsTarget(row.target, row.mode)

\* The row is gone or the constraint fails: nothing is written.
UpdateProfile(r) ==
    LET q == req[r]
        new == Edited(q.prof, q.ask)
        now == profile[q.p]
        row == Merge(now, q.prof, new)
        writes == new # q.prof /\ now # NULL /\ CheckConstraint(row) IN
    /\ At(r, "update_profile", "checked")
    /\ \/ /\ writes
          /\ profile' = [profile EXCEPT ![q.p] = row]
          /\ raced' = \/ raced
                      \/ row.target # now.target /\ ExceptionsOf(q.p) # q.seen
          /\ chosen' = (chosen \/ q.ask.default # Keep)
       \/ ~writes /\ UNCHANGED <<profile, raced, chosen>>
    /\ Finish(r)
    /\ UNCHANGED <<exception, rule, out, left>>

\* DELETE: the row was read only to answer 404; exceptions go by the cascade.
DeleteProfile(p) ==
    /\ Arrive
    /\ profile[p] # NULL
    /\ profile' = [profile EXCEPT ![p] = NULL]
    /\ exception' = [e \in Exceptions |->
          IF exception[e] # NULL /\ exception[e].profile = p THEN NULL
          ELSE exception[e]]
    /\ chosen' = (chosen \/ profile[p].default)
    /\ UNCHANGED <<rule, req, out, raced>>

\* PUT set-default: both updates or, when the row has gone, neither.
SetDefault(r) ==
    LET p == req[r].p IN
    /\ At(r, "set_default", "loaded")
    /\ \/ /\ profile[p] # NULL
          /\ profile' = [x \in Profiles |->
                IF profile[x] = NULL THEN NULL
                ELSE [profile[x] EXCEPT !.default = (x = p)]]
       \/ profile[p] = NULL /\ UNCHANGED profile
    /\ Finish(r)
    /\ UNCHANGED <<exception, rule, out, left, raced, chosen>>

-------------------------------------------------------------------------------
(* routers/udp.py: UDP exceptions *)

\* uq_udp_exceptions_profile_match
Taken(row, but) ==
    \E e \in Stored(exception) \ {but} :
        /\ exception[e].profile = row.profile
        /\ exception[e].type = row.type /\ exception[e].value = row.value

\* ValueError of the normalisation: 422.
Accepted(row) == row.value # NULL

\* POST: refused (422), or the profile has gone or the pair is taken (409).
CreateException(r) ==
    LET q == req[r]
        row == [profile |-> q.p, type |-> q.ask.type, on |-> q.ask.on,
                value |-> Normalize(q.prof.target, q.ask.type, q.ask.value)]
        writes == Accepted(row) /\ profile[q.p] # NULL /\ ~Taken(row, NULL) IN
    /\ At(r, "create_exception", "loaded")
    /\ \/ /\ writes
          /\ \E e \in Exceptions :
                /\ IsNewId(exception, e)
                /\ exception' = [exception EXCEPT ![e] = row]
          /\ raced' = (raced \/ profile[q.p].target # q.prof.target)
       \/ ~writes /\ UNCHANGED <<exception, raced>>
    /\ Finish(r)
    /\ UNCHANGED <<profile, rule, out, left, chosen>>

\* _require_exception: by id and profile.
LoadException(r) ==
    LET q == req[r] IN
    /\ At(r, "update_exception", "loaded")
    /\ IF \E x \in ExceptionsOf(q.p) : x[1] = q.e
       THEN Goto(r, "row", {<<q.e, exception[q.e]>>}) ELSE Finish(r)
    /\ UNCHANGED <<profile, exception, rule, out, left, raced, chosen>>

\* PUT: type and value are normalised as a pair when either is given.
NewException(q, row) ==
    LET new == Patch(row, q.ask) IN
    IF q.ask.type = Keep /\ q.ask.value = Keep THEN new
    ELSE [new EXCEPT !.value = Normalize(q.prof.target, new.type, new.value)]

UpdateException(r) ==
    LET q == req[r] IN
    /\ At(r, "update_exception", "row")
    /\ \E x \in q.seen :
          LET new == NewException(q, x[2])
              now == exception[q.e]
              row == Merge(now, x[2], new)
              writes == /\ Accepted(new) /\ new # x[2]
                        /\ now # NULL /\ ~Taken(row, q.e) IN
          \/ /\ writes
             /\ exception' = [exception EXCEPT ![q.e] = row]
             /\ raced' = \/ raced
                         \/ /\ <<row.type, row.value>> # <<now.type, now.value>>
                            /\ \/ now.type # x[2].type
                               \/ profile[now.profile].target # q.prof.target
          \/ ~writes /\ UNCHANGED <<exception, raced>>
    /\ Finish(r)
    /\ UNCHANGED <<profile, rule, out, left, chosen>>

\* DELETE: what was read only decides between 404 and the delete by id.
DeleteException(e) ==
    /\ Arrive
    /\ exception[e] # NULL
    /\ exception' = [exception EXCEPT ![e] = NULL]
    /\ UNCHANGED <<profile, rule, req, out, raced, chosen>>

-------------------------------------------------------------------------------
(* routers/configs.py: rule sources *)

\* POST: insert, validate, commit in one transaction.
CreateRule(row) ==
    /\ Arrive
    /\ \E i \in Rules :
          /\ IsNewId(rule, i)
          /\ rule' = [rule EXCEPT ![i] = row]
    /\ OrderValid(Enabled(rule'))
    /\ UNCHANGED <<profile, exception, req, out, raced, chosen>>

\* Removal cannot break an order: it is not validated.
DeleteRule(i) ==
    /\ Arrive
    /\ rule[i] # NULL
    /\ rule' = [rule EXCEPT ![i] = NULL]
    /\ UNCHANGED <<profile, exception, req, out, raced, chosen>>

\* PUT of one rule, or PUT reorder: ask gives each named id its new fields.
BeginEdit(r, ask) ==
    /\ Arrive
    /\ req[r] = NULL
    /\ req' = [req EXCEPT ![r] =
                  Request("edit_rules", "loading", NULL, NULL, ask, NULL, {})]
    /\ UNCHANGED <<profile, exception, rule, out, raced, chosen>>

\* q.seen: the pairs <<id, row>> read without the write lock.
SeenIds(q) == {x[1] : x \in q.seen}
Dirty(q) == \E x \in q.seen : x[2] # NULL /\ Patch(x[2], q.ask[x[1]]) # x[2]

\* The next item, while no item before it has started the transaction.
LoadRule(r) ==
    LET q == req[r] IN
    /\ At(r, "edit_rules", "loading")
    /\ ~Dirty(q)
    /\ \E i \in DOMAIN q.ask \ SeenIds(q) :
          Goto(r, "loading", q.seen \cup {<<i, rule[i]>>})
    /\ UNCHANGED <<profile, exception, rule, out, left, raced, chosen>>

\* The named rows as the session loads them, those not yet seen under the lock;
\* as it changes them; and as its UPDATEs leave them.
Loaded(q) == [i \in DOMAIN q.ask |->
                 IF i \in SeenIds(q) THEN (CHOOSE x \in q.seen : x[1] = i)[2]
                 ELSE rule[i]]
Changed(q) == [i \in DOMAIN q.ask |->
                  IF Loaded(q)[i] = NULL THEN NULL
                  ELSE Patch(Loaded(q)[i], q.ask[i])]
Gone(q) == \E i \in DOMAIN q.ask :
               Changed(q)[i] # Loaded(q)[i] /\ rule[i] = NULL
Written(q) == [i \in Rules |->
                  IF i \in DOMAIN q.ask /\ Changed(q)[i] # Loaded(q)[i]
                  THEN Merge(rule[i], Loaded(q)[i], Changed(q)[i]) ELSE rule[i]]

\* _validate_rule_order_or_422: the database selects the enabled rows, but a row
\* that the session holds keeps the values that the session has for it.
SessionView(q) ==
    [i \in DOMAIN Enabled(Written(q)) |->
        IF i \in DOMAIN q.ask /\ Changed(q)[i] # NULL
        THEN Changed(q)[i] ELSE Written(q)[i]]

CommitRules(r) ==
    LET q == req[r]
        writes == ~Gone(q) /\ OrderValid(SessionView(q)) IN
    /\ At(r, "edit_rules", "loading")
    /\ Dirty(q) \/ SeenIds(q) = DOMAIN q.ask
    /\ \/ /\ writes
          /\ rule' = Written(q)
          /\ raced' = \/ raced
                      \/ Written(q) # rule /\ \E x \in q.seen : rule[x[1]] # x[2]
       \/ ~writes /\ UNCHANGED <<rule, raced>>
    /\ Finish(r)
    /\ UNCHANGED <<profile, exception, out, left, chosen>>

-------------------------------------------------------------------------------
(* services/generator.py *)

\* subscribe has verified the token on a row; generation resolves it again,
\* but the session keeps the values it has.
Resolve(r) ==
    /\ At(r, "subscribe", "loaded")
    /\ IF profile[req[r].p] # NULL THEN Goto(r, "resolved", {}) ELSE Finish(r)
    /\ UNCHANGED <<profile, exception, rule, out, left, raced, chosen>>

Generating(r, pc) == At(r, "generate", pc) \/ At(r, "subscribe", pc)

\* The rules are selected and their order is validated once more.
ReadRules(r) ==
    LET rs == Enabled(rule) IN
    /\ Generating(r, "resolved")
    /\ IF OrderValid(rs)
       THEN Goto(r, "rules", {<<i, rs[i]>> : i \in DOMAIN rs}) ELSE Finish(r)
    /\ UNCHANGED <<profile, exception, rule, out, left, raced, chosen>>

\* build_udp_rules: every enabled exception must fit, whatever the mode.
Bug_Trusting(t, es) == TRUE
AllFit(t, es) == \A e \in es : Normalize(t, e.type, e.value) # NULL

Lines(t, m, es) ==
    IF m = "scoped" THEN {<<e.type, Normalize(t, e.type, e.value)>> : e \in es}
    ELSE {}

\* The exceptions are read last; what was read makes the configuration.
ReadExceptions(r) ==
    LET q == req[r]
        es == {x[2] : x \in {y \in ExceptionsOf(q.p) : y[2].on}} IN
    /\ Generating(r, "rules")
    /\ \/ /\ AllFit(q.prof.target, es)
          /\ out' = [target |-> q.prof.target, mode |-> q.prof.mode,
                     rules |-> q.seen, stun |-> q.prof.mode # "compatible",
                     lines |-> Lines(q.prof.target, q.prof.mode, es)]
       \/ ~AllFit(q.prof.target, es) /\ UNCHANGED out
    /\ Finish(r)
    /\ UNCHANGED <<profile, exception, rule, left, raced, chosen>>

-------------------------------------------------------------------------------
(* Specification *)

\* The default target of the default role of an installation.
SeedTarget == "mac_workstation"

Init ==
    /\ profile = [p \in Profiles |->
          IF p = 1 THEN [target |-> SeedTarget, mode |-> DefaultMode(SeedTarget),
                         default |-> TRUE]
          ELSE NULL]
    /\ exception = [e \in Exceptions |-> NULL]
    /\ rule = Seeds
    /\ req = [r \in Requests |-> NULL]
    /\ out = NULL
    /\ left = MaxRequests
    /\ raced = FALSE
    /\ chosen = FALSE

ProfileRequest ==
    \/ \E t \in Targets, m \in Modes \cup {Keep}, d \in BOOLEAN : CreateProfile(t, m, d)
    \/ \E p \in Profiles : DeleteProfile(p)
    \/ \E r \in Requests, p \in Profiles :
          \/ Begin(r, "set_default", "loaded", p, NULL, NULL)
          \/ \E ask \in ProfileEdits :
                Begin(r, "update_profile", "loaded", p, NULL, ask)
    \/ \E r \in Requests : CheckTarget(r) \/ UpdateProfile(r) \/ SetDefault(r)

ExceptionRequest ==
    \/ \E r \in Requests, p \in Profiles :
          \/ \E type \in MatchTypes, v \in MatchValues, on \in BOOLEAN :
                Begin(r, "create_exception", "loaded", p, NULL,
                      [type |-> type, value |-> v, on |-> on])
          \/ \E e \in Exceptions, ask \in ExceptionEdits :
                Begin(r, "update_exception", "loaded", p, e, ask)
    \/ \E r \in Requests :
          CreateException(r) \/ LoadException(r) \/ UpdateException(r)
    \/ \E e \in Exceptions : DeleteException(e)

RuleRequest ==
    \/ \E row \in RuleRow : CreateRule(row)
    \/ \E i \in Rules : DeleteRule(i)
    \/ \E r \in Requests, ask \in RuleEdits : BeginEdit(r, ask)
    \/ \E r \in Requests : LoadRule(r) \/ CommitRules(r)

Generation ==
    \/ \E r \in Requests, p \in Profiles :
          \/ Begin(r, "generate", "resolved", p, NULL, NULL)
          \/ Begin(r, "subscribe", "loaded", p, NULL, NULL)
    \/ \E r \in Requests : Resolve(r) \/ ReadRules(r) \/ ReadExceptions(r)

Next ==
    \/ ProfileRequest \/ ExceptionRequest \/ RuleRequest \/ Generation
    \/ \E r \in Requests : Abandon(r)

Spec == Init /\ [][Next]_vars

-------------------------------------------------------------------------------
(* Properties *)

Asks(op) ==
    CASE op = "update_profile" -> ProfileEdits
      [] op = "update_exception" -> ExceptionEdits
      [] op = "create_exception" ->
            [type: MatchTypes, value: MatchValues, on: BOOLEAN]
      [] op = "edit_rules" -> RuleEdits
      [] OTHER -> {NULL}
Reads(op) ==
    IF op \in {"update_profile", "update_exception"}
    THEN Exceptions \X ExceptionRow ELSE Rules \X (RuleRow \cup {NULL})

RequestOK(q) ==
    /\ DOMAIN q = {"op", "pc", "p", "e", "ask", "prof", "seen"}
    /\ q.op \in Ops
    /\ q.pc \in {"loaded", "checked", "row", "loading", "resolved", "rules"}
    /\ q.p \in Profiles \cup {NULL} /\ q.e \in Exceptions \cup {NULL}
    /\ q.ask \in Asks(q.op)
    /\ q.prof \in ProfileRow \cup {NULL}
    /\ q.seen \subseteq Reads(q.op)

Output == [target: Targets, mode: Modes, stun: BOOLEAN,
           rules: SUBSET (Rules \X RuleRow),
           lines: SUBSET (MatchTypes \X MatchValues)]

\* Rows have the types of their columns; a stored value is never a refused one.
TypeOK ==
    /\ profile \in [Profiles -> ProfileRow \cup {NULL}]
    /\ exception \in [Exceptions -> ExceptionRow \cup {NULL}]
    /\ rule \in [Rules -> RuleRow \cup {NULL}]
    /\ \A r \in Requests : req[r] # NULL => RequestOK(req[r])
    /\ DOMAIN req = Requests
    /\ out = NULL \/ out \in Output
    /\ left \in 0..MaxRequests
    /\ raced \in BOOLEAN /\ chosen \in BOOLEAN

\* No profile has a mode that its target does not have, whatever two overlapping
\* PUTs of target and mode commit.
ModeFits ==
    \A p \in Stored(profile) : FitsTarget(profile[p].target, profile[p].mode)

\* Every exception belongs to a profile, and no two of a profile are the same.
ExceptionsOwned ==
    /\ \A e \in Stored(exception) : exception[e].profile \in Stored(profile)
    /\ \A e, f \in Stored(exception) : e # f =>
          \/ exception[e].profile # exception[f].profile
          \/ exception[e].type # exception[f].type
          \/ exception[e].value # exception[f].value

\* Every exception, enabled or not, is one that the target of its profile admits,
\* in its stored form.
ExceptionsFit ==
    \A e \in Stored(exception) :
        LET x == exception[e] IN
        x.profile \in Stored(profile) =>
            Normalize(profile[x.profile].target, x.type, x.value) = x.value

OneDefault == Cardinality({p \in Stored(profile) : profile[p].default}) = 1

\* The stored rows are consistent.  Modes, owners and uniqueness always; targets
\* and the order of rules as long as no commit was decided on rows that had
\* changed since (the checks of routers/configs.py and udp.py run before the write
\* lock is taken); one default as long as only set-default chooses it.
RowsFit ==
    /\ ModeFits
    /\ ExceptionsOwned
    /\ raced \/ (ExceptionsFit /\ OrderValid(Enabled(rule)))
    /\ chosen \/ OneDefault

\* Whatever changed between the reads of a generation, and whatever is stored: a
\* configuration that is served has only exceptions that its target admits, only
\* in scoped mode and in their normal form, and its rules are in a valid order.
OutputFits ==
    out # NULL =>
        /\ FitsTarget(out.target, out.mode)
        /\ \A l \in out.lines :
              /\ out.mode = "scoped" /\ out.stun
              /\ l[2] # NULL
              /\ Normalize(out.target, l[1], l[2]) = l[2]
        /\ \A x, y \in out.rules :
              <<x[2].kind, y[2].kind>> \in MustPrecede =>
                  \/ x[2].order < y[2].order
                  \/ x[2].order = y[2].order /\ x[1] < y[1]
===============================================================================
