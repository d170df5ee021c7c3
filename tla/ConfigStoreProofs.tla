-------------------------- MODULE ConfigStoreProofs --------------------------
(***************************************************************************)
(* For any number of requests, profiles, exceptions and rules: rows and    *)
(* requests have their types, the stored rows are consistent with each     *)
(* other, and so is every configuration that is served.                    *)
(***************************************************************************)
EXTENDS ConfigStore, FiniteSetTheorems, TLAPS

Pcs == {"loaded", "checked", "row", "loading", "resolved", "rules"}
Generates(q) == q.op \in {"generate", "subscribe"}

Ordered(rs) ==
    \A x, y \in rs :
        <<x[2].kind, y[2].kind>> \in MustPrecede =>
            \/ x[2].order < y[2].order
            \/ x[2].order = y[2].order /\ x[1] < y[1]

\* What a handler has loaded: a profile whose mode fits, and, where a generation
\* has passed the validation, rules in a valid order.
Ready(q) ==
    /\ RequestOK(q)
    /\ q.op # "edit_rules" =>
          /\ q.p \in Profiles /\ q.prof \in ProfileRow
          /\ FitsTarget(q.prof.target, q.prof.mode)
    /\ q.op = "update_exception" => q.e \in Exceptions
    /\ Generates(q) /\ q.pc = "rules" =>
          q.seen \subseteq Rules \X RuleRow /\ Ordered(q.seen)

ProfilesOK == profile \in [Profiles -> ProfileRow \cup {NULL}] /\ ModeFits
ExceptionsOK == exception \in [Exceptions -> ExceptionRow \cup {NULL}]
RulesOK == rule \in [Rules -> RuleRow \cup {NULL}]
RequestsOK ==
    DOMAIN req = Requests /\ \A r \in Requests : req[r] # NULL => Ready(req[r])
OutOK == (out = NULL \/ out \in Output) /\ OutputFits
CountsOK == left \in 0..MaxRequests /\ raced \in BOOLEAN /\ chosen \in BOOLEAN

IInv ==
    /\ ProfilesOK /\ ExceptionsOK /\ RulesOK
    /\ RequestsOK /\ OutOK /\ CountsOK

-------------------------------------------------------------------------------
(* Lemmas *)

\* The columns of an UPDATE are a row again.
LEMMA MergeProfile ==
  ASSUME NEW now \in ProfileRow, NEW loaded \in ProfileRow, NEW new \in ProfileRow
  PROVE Merge(now, loaded, new) \in ProfileRow
BY DEF Merge, ProfileRow

\* The same of UDP exceptions.
LEMMA MergeException ==
  ASSUME NEW now \in ExceptionRow, NEW loaded \in ExceptionRow,
         NEW new \in ExceptionRow
  PROVE Merge(now, loaded, new) \in ExceptionRow
BY DEF Merge, ExceptionRow

\* The same of rule sources.
LEMMA MergeRule ==
  ASSUME NEW now \in RuleRow, NEW loaded \in RuleRow, NEW new \in RuleRow
  PROVE Merge(now, loaded, new) \in RuleRow
BY DEF Merge, RuleRow

\* A row with the fields of a request is a row.
LEMMA PatchProfile ==
  ASSUME NEW row \in ProfileRow, NEW ask \in ProfileEdit
  PROVE Patch(row, ask) \in ProfileRow
BY DEF Patch, ProfileRow, ProfileEdit

\* The same of UDP exceptions, where only the three fields are given.
LEMMA PatchException ==
  ASSUME NEW row \in ExceptionRow, NEW ask \in ExceptionEdit
  PROVE Patch(row, ask) \in ExceptionRow
BY DEF Patch, ExceptionRow, ExceptionEdit

\* The same of rule sources.
LEMMA PatchRule ==
  ASSUME NEW row \in RuleRow, NEW ask \in RuleEdit
  PROVE Patch(row, ask) \in RuleRow
BY DEF Patch, RuleRow, RuleEdit

\* The profile that a PUT asks for is a row.
LEMMA EditedProfile ==
  ASSUME NEW row \in ProfileRow, NEW ask \in ProfileEdit
  PROVE Edited(row, ask) \in ProfileRow
<1>1. Patch(row, ask) \in ProfileRow
  BY PatchProfile
<1>2. ASSUME ask.target # Keep PROVE DefaultMode(ask.target) \in Modes
  BY DEF DefaultMode, Modes
<1> QED
  BY <1>1, <1>2 DEF Edited, ProfileRow

\* A value that normalize_udp_match returns is its own stored form.
LEMMA NormalIsStored ==
  ASSUME NEW t, NEW type, NEW v, Normalize(t, type, v) # NULL
  PROVE Normalize(t, type, Normalize(t, type, v)) = Normalize(t, type, v)
BY DEF Normalize

\* It returns a value of a row or refuses.
LEMMA NormalizeValue ==
  ASSUME NEW t, NEW type, NEW v \in MatchValues
  PROVE Normalize(t, type, v) \in MatchValues \cup {NULL}
BY DEF Normalize, MatchValues

\* A handler that ends leaves the others as they are.
LEMMA Finished ==
  ASSUME RequestsOK, NEW r \in Requests, Finish(r)
  PROVE RequestsOK'
BY DEF RequestsOK, Finish, Ready, RequestOK, Generates, Ordered

\* A handler that goes on with what it has read.
LEMMA Advanced ==
  ASSUME RequestsOK, NEW r \in Requests, req[r] # NULL,
         NEW pc \in Pcs, NEW seen, Goto(r, pc, seen),
         seen \subseteq Reads(req[r].op),
         Generates(req[r]) /\ pc = "rules" =>
             seen \subseteq Rules \X RuleRow /\ Ordered(seen)
  PROVE RequestsOK'
<1>1. Ready(req[r])
  BY DEF RequestsOK
<1>2. req' = [req EXCEPT ![r] = [req[r] EXCEPT !.pc = pc, !.seen = seen]]
  BY DEF Goto
<1> DEFINE new == [req[r] EXCEPT !.pc = pc, !.seen = seen]
<1>3. /\ DOMAIN new = DOMAIN req[r]
      /\ new.op = req[r].op /\ new.p = req[r].p /\ new.e = req[r].e
      /\ new.ask = req[r].ask /\ new.prof = req[r].prof
      /\ new.pc = pc /\ new.seen = seen
  BY <1>1 DEF Ready, RequestOK
<1> HIDE DEF new
<1>4. RequestOK(new)
  BY <1>1, <1>3 DEF Ready, RequestOK, Pcs
<1>5. Ready(new)
  BY <1>1, <1>3, <1>4 DEF Ready, Generates
<1>6. \A x \in Requests : req'[x] = IF x = r THEN new ELSE req[x]
  BY <1>2 DEF RequestsOK, new
<1>7. DOMAIN req' = Requests
  BY <1>2 DEF RequestsOK
<1>8. \A x \in Requests : req'[x] # NULL => Ready(req'[x])
  BY <1>5, <1>6 DEF RequestsOK
<1>9. (\A x \in Requests : req'[x] # NULL => Ready(req'[x])) /\ DOMAIN req' = Requests => RequestsOK'
  BY DEF RequestsOK, Ready, RequestOK, Generates, Ordered
<1> QED
  BY <1>7, <1>8, <1>9

\* A request that arrives has loaded a profile as it is now.
LEMMA Begun ==
  ASSUME IInv, NEW r \in Requests, NEW op \in Ops \ {"edit_rules"},
         NEW pc \in Pcs \ {"rules"}, NEW p \in Profiles,
         NEW e \in Exceptions \cup {NULL}, NEW ask \in Asks(op),
         op = "update_exception" => e \in Exceptions,
         Begin(r, op, pc, p, e, ask)
  PROVE IInv'
<1> DEFINE new == Request(op, pc, p, e, ask, profile[p], {})
<1>1. profile[p] \in ProfileRow /\ FitsTarget(profile[p].target, profile[p].mode)
  BY DEF Begin, IInv, ProfilesOK, ModeFits, Stored
<1>2. /\ DOMAIN new = {"op", "pc", "p", "e", "ask", "prof", "seen"}
      /\ new.op = op /\ new.pc = pc /\ new.p = p /\ new.e = e
      /\ new.ask = ask /\ new.prof = profile[p] /\ new.seen = {}
  BY DEF Request
<1>3. req' = [req EXCEPT ![r] = new]
  BY DEF Begin
<1> HIDE DEF new
<1>4. RequestOK(new)
  BY <1>1, <1>2 DEF RequestOK, Pcs
<1>5. Ready(new)
  BY <1>1, <1>2, <1>4 DEF Ready, Generates
<1>6. DOMAIN req' = Requests /\ \A x \in Requests : req'[x] # NULL => Ready(req'[x])
  BY <1>3, <1>5 DEF IInv, RequestsOK
<1>7. RequestsOK'
  BY <1>6 DEF RequestsOK, Ready, RequestOK, Generates, Ordered
<1>8. left' \in 0..MaxRequests
  BY IdsAssumption DEF Begin, Arrive, IInv, CountsOK
<1> QED
  BY <1>7, <1>8 DEF Begin, IInv, ProfilesOK, ExceptionsOK, RulesOK, OutOK,
     CountsOK, ModeFits, Stored, OutputFits

\* What an action that writes no profile, rule or output leaves.
LEMMA Untouched ==
  ASSUME IInv
  PROVE /\ UNCHANGED profile => ProfilesOK'
        /\ UNCHANGED exception => ExceptionsOK'
        /\ UNCHANGED rule => RulesOK'
        /\ UNCHANGED req => RequestsOK'
        /\ UNCHANGED out => OutOK'
        /\ UNCHANGED <<left, raced, chosen>> => CountsOK'
        /\ Arrive /\ raced' \in BOOLEAN /\ chosen' \in BOOLEAN => CountsOK'
        /\ UNCHANGED left /\ raced' \in BOOLEAN /\ chosen' \in BOOLEAN => CountsOK'
<1>1. UNCHANGED profile => ProfilesOK'
  BY DEF IInv, ProfilesOK, ModeFits, Stored
<1>2. UNCHANGED req => RequestsOK'
  BY DEF IInv, RequestsOK, Ready, RequestOK, Generates, Ordered
<1>3. UNCHANGED out => OutOK'
  BY DEF IInv, OutOK, OutputFits
<1>4. Arrive => left' \in 0..MaxRequests
  BY IdsAssumption DEF IInv, CountsOK, Arrive
<1> QED
  BY <1>1, <1>2, <1>3, <1>4 DEF IInv, ExceptionsOK, RulesOK, CountsOK

-------------------------------------------------------------------------------
(* The invariant *)

\* The seeded database.
LEMMA Initial == ASSUME Init PROVE IInv
<1>1. ProfilesOK
  BY DEF Init, ProfilesOK, ModeFits, Stored, ProfileRow, SeedTarget, Targets,
     Modes, DefaultMode, FitsTarget
<1>2. CountsOK
  <2>1. left \in 0..MaxRequests
    BY IdsAssumption DEF Init
  <2>2. raced \in BOOLEAN /\ chosen \in BOOLEAN
    BY Zenon DEF Init
  <2> QED
    BY <2>1, <2>2 DEF CountsOK
<1>3. OutOK
  BY DEF Init, OutOK, OutputFits
<1>4. ExceptionsOK /\ RulesOK
  BY InputAssumption DEF Init, ExceptionsOK, RulesOK
<1>5. RequestsOK
  BY DEF Init, RequestsOK
<1> QED
  BY <1>1, <1>2, <1>3, <1>4, <1>5 DEF IInv

\* Requests on profiles: the column constraint is what keeps modes fitting.
LEMMA ProfileStep == ASSUME IInv, ProfileRequest PROVE IInv'
<1>1. ASSUME NEW t \in Targets, NEW m \in Modes \cup {Keep}, NEW d \in BOOLEAN,
             CreateProfile(t, m, d)
      PROVE IInv'
  <2> DEFINE mode == IF m = Keep THEN DefaultMode(t) ELSE m
  <2>1. mode \in Modes
    BY DEF DefaultMode, Modes
  <2>2. FitsTarget(t, mode)
    BY <1>1 DEF CreateProfile
  <2>3. PICK p \in Profiles :
           profile' = [profile EXCEPT
               ![p] = [target |-> t, mode |-> mode, default |-> d]]
    BY <1>1 DEF CreateProfile
  <2> HIDE DEF mode
  <2>4. ProfilesOK'
    BY <2>1, <2>2, <2>3 DEF IInv, ProfilesOK, ModeFits, Stored, ProfileRow
  <2>5. chosen' \in BOOLEAN
    BY <1>1, Zenon DEF CreateProfile, IInv, CountsOK
  <2> QED
    BY <1>1, <2>4, <2>5, Untouched DEF CreateProfile, IInv, CountsOK
<1>2. ASSUME NEW p \in Profiles, DeleteProfile(p) PROVE IInv'
  <2>1. ProfilesOK'
    BY <1>2 DEF DeleteProfile, IInv, ProfilesOK, ModeFits, Stored
  <2>2. ExceptionsOK'
    BY <1>2 DEF DeleteProfile, IInv, ExceptionsOK
  <2>3. chosen' \in BOOLEAN
    <3>1. profile[p].default \in BOOLEAN
      BY <1>2 DEF DeleteProfile, IInv, ProfilesOK, ProfileRow
    <3> QED
      BY <1>2, <3>1, Zenon DEF DeleteProfile, IInv, CountsOK
  <2> QED
    BY <1>2, <2>1, <2>2, <2>3, Untouched DEF DeleteProfile, IInv, CountsOK
<1>3. ASSUME NEW r \in Requests, NEW p \in Profiles,
             Begin(r, "set_default", "loaded", p, NULL, NULL)
      PROVE IInv'
  BY <1>3, Begun DEF Ops, Pcs, Asks
<1>4. ASSUME NEW r \in Requests, NEW p \in Profiles, NEW ask \in ProfileEdits,
             Begin(r, "update_profile", "loaded", p, NULL, ask)
      PROVE IInv'
  BY <1>4, Begun DEF Ops, Pcs, Asks
<1>5. ASSUME NEW r \in Requests, CheckTarget(r) PROVE IInv'
  <2>1. RequestsOK'
    <3>1. CASE Finish(r)
      BY <3>1, Finished DEF IInv
    <3>2. CASE Goto(r, "checked", ExceptionsOf(req[r].p))
      <4>1. req[r] # NULL /\ req[r].op = "update_profile"
        BY <1>5 DEF CheckTarget, At
      <4>2. ExceptionsOf(req[r].p) \subseteq Reads(req[r].op)
        BY <4>1 DEF ExceptionsOf, Stored, Reads, IInv, ExceptionsOK
      <4> QED
        BY <3>2, <4>1, <4>2, Advanced DEF IInv, Pcs
    <3> QED
      BY <1>5, <3>1, <3>2 DEF CheckTarget
  <2> QED
    BY <1>5, <2>1, Untouched DEF CheckTarget, IInv
<1>6. ASSUME NEW r \in Requests, UpdateProfile(r) PROVE IInv'
  <2> DEFINE q == req[r]
             row == Merge(profile[q.p], q.prof, Edited(q.prof, q.ask))
  <2>1. Ready(q) /\ q.op = "update_profile"
    BY <1>6 DEF UpdateProfile, At, IInv, RequestsOK
  <2>2. q.p \in Profiles /\ q.prof \in ProfileRow /\ q.ask \in ProfileEdit
    BY <2>1, InputAssumption DEF Ready, RequestOK, Asks
  <2>3. ProfilesOK'
    <3>1. CASE UNCHANGED profile
      BY <3>1, Untouched
    <3>2. CASE /\ profile[q.p] # NULL /\ CheckConstraint(row)
               /\ profile' = [profile EXCEPT ![q.p] = row]
      <4>1. profile[q.p] \in ProfileRow
        BY <2>2, <3>2 DEF IInv, ProfilesOK
      <4>2. row \in ProfileRow
        BY <2>2, <4>1, EditedProfile, MergeProfile
      <4> HIDE DEF row, q
      <4> QED
        BY <2>2, <3>2, <4>2 DEF IInv, ProfilesOK, ModeFits, Stored, CheckConstraint
    <3> QED
      BY <1>6, <3>1, <3>2 DEF UpdateProfile
  <2>4. raced' \in BOOLEAN /\ chosen' \in BOOLEAN
    BY <1>6, Zenon DEF UpdateProfile, IInv, CountsOK
  <2>5. RequestsOK'
    BY <1>6, Finished DEF UpdateProfile, IInv
  <2> QED
    BY <1>6, <2>3, <2>4, <2>5, Untouched DEF UpdateProfile, IInv
<1>7. ASSUME NEW r \in Requests, SetDefault(r) PROVE IInv'
  <2>1. ProfilesOK'
    <3>1. CASE UNCHANGED profile
      BY <3>1, Untouched
    <3>2. CASE profile' = [x \in Profiles |->
                  IF profile[x] = NULL THEN NULL
                  ELSE [profile[x] EXCEPT !.default = (x = req[r].p)]]
      <4>1. ASSUME NEW x \in Profiles, profile[x] # NULL
            PROVE /\ [profile[x] EXCEPT !.default = (x = req[r].p)] \in ProfileRow
                  /\ profile'[x].target = profile[x].target
                  /\ profile'[x].mode = profile[x].mode
        <5>1. profile[x] \in ProfileRow
          BY <4>1 DEF IInv, ProfilesOK
        <5>2. (x = req[r].p) \in BOOLEAN
          BY Zenon
        <5> QED
          BY <3>2, <4>1, <5>1, <5>2 DEF ProfileRow
      <4>2. profile' \in [Profiles -> ProfileRow \cup {NULL}]
        BY <3>2, <4>1 DEF IInv, ProfilesOK
      <4>3. \A x \in Profiles : profile'[x] # NULL => profile[x] # NULL
        BY <3>2
      <4>4. ModeFits'
        BY <4>1, <4>2, <4>3 DEF IInv, ProfilesOK, ModeFits, Stored
      <4> QED
        BY <4>2, <4>4 DEF ProfilesOK
    <3> QED
      BY <1>7, <3>1, <3>2 DEF SetDefault
  <2>2. RequestsOK'
    BY <1>7, Finished DEF SetDefault, IInv
  <2> QED
    BY <1>7, <2>1, <2>2, Untouched DEF SetDefault, IInv
<1> QED
  BY <1>1, <1>2, <1>3, <1>4, <1>5, <1>6, <1>7 DEF ProfileRequest

\* Requests on UDP exceptions: a refused value is never written.
LEMMA ExceptionStep == ASSUME IInv, ExceptionRequest PROVE IInv'
<1>1. ASSUME NEW r \in Requests, NEW p \in Profiles, NEW type \in MatchTypes,
             NEW v \in MatchValues, NEW on \in BOOLEAN,
             Begin(r, "create_exception", "loaded", p, NULL,
                   [type |-> type, value |-> v, on |-> on])
      PROVE IInv'
  <2>1. [type |-> type, value |-> v, on |-> on] \in Asks("create_exception")
    BY DEF Asks
  <2> QED
    BY <1>1, <2>1, Begun DEF Ops, Pcs
<1>2. ASSUME NEW r \in Requests, NEW p \in Profiles, NEW e \in Exceptions,
             NEW ask \in ExceptionEdits,
             Begin(r, "update_exception", "loaded", p, e, ask)
      PROVE IInv'
  BY <1>2, Begun DEF Ops, Pcs, Asks
<1>3. ASSUME NEW r \in Requests, CreateException(r) PROVE IInv'
  <2> DEFINE q == req[r]
             row == [profile |-> q.p, type |-> q.ask.type, on |-> q.ask.on,
                     value |-> Normalize(q.prof.target, q.ask.type, q.ask.value)]
  <2>1. Ready(q) /\ q.op = "create_exception"
    BY <1>3 DEF CreateException, At, IInv, RequestsOK
  <2>2. q.p \in Profiles /\ q.ask \in [type: MatchTypes, value: MatchValues, on: BOOLEAN]
    BY <2>1 DEF Ready, RequestOK, Asks
  <2>3. ExceptionsOK'
    <3>1. CASE UNCHANGED exception
      BY <3>1, Untouched
    <3>2. CASE /\ Accepted(row)
               /\ \E e \in Exceptions : exception' = [exception EXCEPT ![e] = row]
      <4>1. row.value \in MatchValues
        BY <2>2, <3>2, NormalizeValue DEF Accepted
      <4>2. row \in ExceptionRow
        BY <2>2, <4>1 DEF ExceptionRow
      <4> HIDE DEF row, q
      <4> QED
        BY <3>2, <4>2 DEF IInv, ExceptionsOK
    <3> QED
      BY <1>3, <3>1, <3>2 DEF CreateException
  <2>4. raced' \in BOOLEAN
    BY <1>3, Zenon DEF CreateException, IInv, CountsOK
  <2>5. RequestsOK'
    BY <1>3, Finished DEF CreateException, IInv
  <2> QED
    BY <1>3, <2>3, <2>4, <2>5, Untouched DEF CreateException, IInv, CountsOK
<1>4. ASSUME NEW r \in Requests, LoadException(r) PROVE IInv'
  <2>1. RequestsOK'
    <3>1. CASE Finish(r)
      BY <3>1, Finished DEF IInv
    <3>2. CASE /\ \E x \in ExceptionsOf(req[r].p) : x[1] = req[r].e
               /\ Goto(r, "row", {<<req[r].e, exception[req[r].e]>>})
      <4>1. req[r] # NULL /\ req[r].op = "update_exception"
        BY <1>4 DEF LoadException, At
      <4>2. <<req[r].e, exception[req[r].e]>> \in Exceptions \X ExceptionRow
        BY <3>2 DEF ExceptionsOf, Stored, IInv, ExceptionsOK
      <4>3. {<<req[r].e, exception[req[r].e]>>} \subseteq Reads(req[r].op)
        BY <4>1, <4>2 DEF Reads
      <4> QED
        BY <3>2, <4>1, <4>3, Advanced DEF IInv, Pcs
    <3> QED
      BY <1>4, <3>1, <3>2 DEF LoadException
  <2> QED
    BY <1>4, <2>1, Untouched DEF LoadException, IInv
<1>5. ASSUME NEW r \in Requests, UpdateException(r) PROVE IInv'
  <2> DEFINE q == req[r]
  <2>1. Ready(q) /\ q.op = "update_exception"
    BY <1>5 DEF UpdateException, At, IInv, RequestsOK
  <2>2. /\ q.e \in Exceptions /\ q.ask \in ExceptionEdit
        /\ q.seen \subseteq Exceptions \X ExceptionRow
    BY <2>1, InputAssumption DEF Ready, RequestOK, Asks, Reads
  <2>3. ExceptionsOK'
    <3>1. CASE UNCHANGED exception
      BY <3>1, Untouched
    <3>2. ASSUME NEW x \in q.seen, Accepted(NewException(q, x[2])),
                 exception[q.e] # NULL,
                 exception' = [exception EXCEPT
                     ![q.e] = Merge(exception[q.e], x[2], NewException(q, x[2]))]
          PROVE ExceptionsOK'
      <4>1. x[2] \in ExceptionRow /\ exception[q.e] \in ExceptionRow
        BY <2>2, <3>2 DEF IInv, ExceptionsOK
      <4>2. Patch(x[2], q.ask) \in ExceptionRow
        BY <2>2, <4>1, PatchException
      <4>3. NewException(q, x[2]) \in ExceptionRow
        <5> DEFINE new == Patch(x[2], q.ask)
                   v == Normalize(q.prof.target, new.type, new.value)
        <5>1. v \in MatchValues \cup {NULL}
          BY <4>2, NormalizeValue DEF ExceptionRow
        <5>2. CASE NewException(q, x[2]) = new
          BY <4>2, <5>2
        <5>3. CASE NewException(q, x[2]) = [new EXCEPT !.value = v]
          <6>1. v = NewException(q, x[2]).value
            BY <4>2, <5>3 DEF ExceptionRow
          <6>2. v \in MatchValues
            BY <3>2, <5>1, <6>1 DEF Accepted
          <6> HIDE DEF new, v
          <6>3. new \in ExceptionRow
            BY <4>2 DEF new
          <6> QED
            BY <5>3, <6>2, <6>3 DEF ExceptionRow
        <5> QED
          BY <5>2, <5>3 DEF NewException
      <4>4. Merge(exception[q.e], x[2], NewException(q, x[2])) \in ExceptionRow
        BY <4>1, <4>3, MergeException
      <4> QED
        BY <2>2, <3>2, <4>4 DEF IInv, ExceptionsOK
    <3> QED
      BY <1>5, <3>1, <3>2 DEF UpdateException
  <2>4. raced' \in BOOLEAN
    BY <1>5, Zenon DEF UpdateException, IInv, CountsOK
  <2>5. RequestsOK'
    BY <1>5, Finished DEF UpdateException, IInv
  <2> QED
    BY <1>5, <2>3, <2>4, <2>5, Untouched DEF UpdateException, IInv, CountsOK
<1>6. ASSUME NEW e \in Exceptions, DeleteException(e) PROVE IInv'
  <2>1. ExceptionsOK'
    BY <1>6 DEF DeleteException, IInv, ExceptionsOK
  <2> QED
    BY <1>6, <2>1, Untouched DEF DeleteException, IInv, CountsOK
<1> QED
  BY <1>1, <1>2, <1>3, <1>4, <1>5, <1>6 DEF ExceptionRequest

\* Requests on rules: rows stay rows, whatever was read when.
LEMMA RuleStep == ASSUME IInv, RuleRequest PROVE IInv'
<1>1. ASSUME NEW row \in RuleRow, CreateRule(row) PROVE IInv'
  <2>1. RulesOK'
    BY <1>1 DEF CreateRule, IInv, RulesOK
  <2> QED
    BY <1>1, <2>1, Untouched DEF CreateRule, IInv, CountsOK
<1>2. ASSUME NEW i \in Rules, DeleteRule(i) PROVE IInv'
  <2>1. RulesOK'
    BY <1>2 DEF DeleteRule, IInv, RulesOK
  <2> QED
    BY <1>2, <2>1, Untouched DEF DeleteRule, IInv, CountsOK
<1>3. ASSUME NEW r \in Requests, NEW ask \in RuleEdits, BeginEdit(r, ask)
      PROVE IInv'
  <2> DEFINE new == Request("edit_rules", "loading", NULL, NULL, ask, NULL, {})
  <2>1. /\ DOMAIN new = {"op", "pc", "p", "e", "ask", "prof", "seen"}
        /\ new.op = "edit_rules" /\ new.pc = "loading" /\ new.p = NULL
        /\ new.e = NULL /\ new.ask = ask /\ new.prof = NULL /\ new.seen = {}
    BY DEF Request
  <2>2. req' = [req EXCEPT ![r] = new]
    BY <1>3 DEF BeginEdit
  <2> HIDE DEF new
  <2>3. Ready(new)
    BY <2>1 DEF Ready, RequestOK, Ops, Asks, Generates
  <2>4. DOMAIN req' = Requests /\ \A x \in Requests : req'[x] # NULL => Ready(req'[x])
    BY <2>2, <2>3 DEF IInv, RequestsOK
  <2>5. RequestsOK'
    BY <2>4 DEF RequestsOK, Ready, RequestOK, Generates, Ordered
  <2> QED
    BY <1>3, <2>5, Untouched DEF BeginEdit, IInv, CountsOK
<1>4. ASSUME NEW r \in Requests, LoadRule(r) PROVE IInv'
  <2>1. Ready(req[r]) /\ req[r] # NULL /\ req[r].op = "edit_rules"
    BY <1>4 DEF LoadRule, At, IInv, RequestsOK
  <2>2. DOMAIN req[r].ask \subseteq Rules
    BY <2>1, InputAssumption DEF Ready, RequestOK, Asks
  <2>3. PICK i \in DOMAIN req[r].ask :
           Goto(r, "loading", req[r].seen \cup {<<i, rule[i]>>})
    BY <1>4 DEF LoadRule
  <2>4. req[r].seen \cup {<<i, rule[i]>>} \subseteq Reads(req[r].op)
    BY <2>1, <2>2 DEF Ready, RequestOK, Reads, IInv, RulesOK
  <2>5. RequestsOK'
    BY <2>1, <2>3, <2>4, Advanced DEF IInv, Pcs, Generates
  <2> QED
    BY <1>4, <2>5, Untouched DEF LoadRule, IInv
<1>5. ASSUME NEW r \in Requests, CommitRules(r) PROVE IInv'
  <2> DEFINE q == req[r]
  <2>1. Ready(q) /\ q.op = "edit_rules"
    BY <1>5 DEF CommitRules, At, IInv, RequestsOK
  <2>2. /\ q.seen \subseteq Rules \X (RuleRow \cup {NULL})
        /\ DOMAIN q.ask \subseteq Rules
        /\ \A i \in DOMAIN q.ask : q.ask[i] \in RuleEdit
    BY <2>1, InputAssumption DEF Ready, RequestOK, Asks, Reads
  <2>3. ASSUME NEW i \in DOMAIN q.ask
        PROVE Loaded(q)[i] \in RuleRow \cup {NULL}
    <3>1. CASE i \in SeenIds(q)
      <4>1. \E x \in q.seen : x[1] = i
        BY <3>1 DEF SeenIds
      <4>2. (CHOOSE x \in q.seen : x[1] = i) \in q.seen
        BY <4>1
      <4> QED
        BY <2>2, <3>1, <4>2 DEF Loaded
    <3>2. CASE i \notin SeenIds(q)
      BY <2>2, <3>2 DEF Loaded, IInv, RulesOK
    <3> QED
      BY <3>1, <3>2
  <2>4. ASSUME NEW i \in DOMAIN q.ask, Loaded(q)[i] # NULL
        PROVE Changed(q)[i] \in RuleRow
    BY <2>2, <2>3, <2>4, PatchRule DEF Changed
  <2>5. ASSUME ~Gone(q), NEW i \in Rules
        PROVE Written(q)[i] \in RuleRow \cup {NULL}
    <3>1. CASE i \in DOMAIN q.ask /\ Changed(q)[i] # Loaded(q)[i]
      <4>1. Loaded(q)[i] \in RuleRow
        BY <2>3, <3>1 DEF Changed
      <4>2. Loaded(q)[i] # NULL
        BY <4>1, MarkAssumption
      <4>3. rule[i] \in RuleRow
        BY <2>5, <3>1 DEF Gone, IInv, RulesOK
      <4>4. Merge(rule[i], Loaded(q)[i], Changed(q)[i]) \in RuleRow
        BY <2>4, <3>1, <4>1, <4>2, <4>3, MergeRule
      <4> QED
        BY <3>1, <4>4 DEF Written
    <3>2. CASE ~(i \in DOMAIN q.ask /\ Changed(q)[i] # Loaded(q)[i])
      BY <3>2 DEF Written, IInv, RulesOK
    <3> QED
      BY <3>1, <3>2
  <2>6. RulesOK'
    <3>1. CASE UNCHANGED rule
      BY <3>1, Untouched
    <3>2. CASE ~Gone(q) /\ rule' = Written(q)
      BY <2>5, <3>2 DEF RulesOK, Written
    <3> QED
      BY <1>5, <3>1, <3>2 DEF CommitRules
  <2>7. raced' \in BOOLEAN
    BY <1>5, Zenon DEF CommitRules, IInv, CountsOK
  <2>8. RequestsOK'
    BY <1>5, Finished DEF CommitRules, IInv
  <2> QED
    BY <1>5, <2>6, <2>7, <2>8, Untouched DEF CommitRules, IInv, CountsOK
<1> QED
  BY <1>1, <1>2, <1>3, <1>4, <1>5 DEF RuleRequest

\* A generation: what is served is the profile as it was loaded, whose mode fits,
\* the rules as they were validated, and exceptions that were normalised.
LEMMA GenerationStep == ASSUME IInv, Generation PROVE IInv'
<1>1. ASSUME NEW r \in Requests, NEW p \in Profiles,
             Begin(r, "generate", "resolved", p, NULL, NULL)
      PROVE IInv'
  BY <1>1, Begun DEF Ops, Pcs, Asks
<1>2. ASSUME NEW r \in Requests, NEW p \in Profiles,
             Begin(r, "subscribe", "loaded", p, NULL, NULL)
      PROVE IInv'
  BY <1>2, Begun DEF Ops, Pcs, Asks
<1>3. ASSUME NEW r \in Requests, Resolve(r) PROVE IInv'
  <2>1. RequestsOK'
    <3>1. CASE Finish(r)
      BY <3>1, Finished DEF IInv
    <3>2. CASE Goto(r, "resolved", {})
      BY <1>3, <3>2, Advanced DEF Resolve, At, IInv, Pcs
    <3> QED
      BY <1>3, <3>1, <3>2 DEF Resolve
  <2> QED
    BY <1>3, <2>1, Untouched DEF Resolve, IInv
<1>4. ASSUME NEW r \in Requests, ReadRules(r) PROVE IInv'
  <2> DEFINE rs == Enabled(rule)
             pairs == {<<i, rs[i]>> : i \in DOMAIN rs}
  <2>1. RequestsOK'
    <3>1. CASE Finish(r)
      BY <3>1, Finished DEF IInv
    <3>2. CASE OrderValid(rs) /\ Goto(r, "rules", pairs)
      <4>1. req[r] # NULL /\ Generates(req[r])
        BY <1>4 DEF ReadRules, Generating, At, Generates
      <4>2. pairs \subseteq Rules \X RuleRow
        <5>1. \A i \in DOMAIN rs : i \in Rules /\ rs[i] \in RuleRow
          BY DEF Enabled, Stored, IInv, RulesOK
        <5> QED
          BY <5>1
      <4>3. Ordered(pairs)
        <5> SUFFICES ASSUME NEW x \in pairs, NEW y \in pairs,
                            <<x[2].kind, y[2].kind>> \in MustPrecede
                     PROVE \/ x[2].order < y[2].order
                           \/ x[2].order = y[2].order /\ x[1] < y[1]
          BY DEF Ordered
        <5>1. PICK i \in DOMAIN rs : x = <<i, rs[i]>>
          OBVIOUS
        <5>2. PICK j \in DOMAIN rs : y = <<j, rs[j]>>
          OBVIOUS
        <5> HIDE DEF rs
        <5> QED
          BY <3>2, <5>1, <5>2 DEF OrderValid, Precedes
      <4>4. pairs \subseteq Reads(req[r].op)
        BY <4>1, <4>2 DEF Generates, Reads
      <4> QED
        BY <3>2, <4>1, <4>2, <4>3, <4>4, Advanced DEF IInv, Pcs
    <3> QED
      BY <1>4, <3>1, <3>2 DEF ReadRules
  <2> QED
    BY <1>4, <2>1, Untouched DEF ReadRules, IInv
<1>5. ASSUME NEW r \in Requests, ReadExceptions(r) PROVE IInv'
  <2> DEFINE q == req[r]
             es == {x[2] : x \in {y \in ExceptionsOf(q.p) : y[2].on}}
             ls == Lines(q.prof.target, q.prof.mode, es)
             new == [target |-> q.prof.target, mode |-> q.prof.mode,
                     rules |-> q.seen, stun |-> q.prof.mode # "compatible",
                     lines |-> ls]
  <2>1. Ready(q) /\ Generates(q) /\ q.pc = "rules"
    BY <1>5 DEF ReadExceptions, Generating, At, Generates, IInv, RequestsOK
  <2>2. /\ q.prof \in ProfileRow /\ FitsTarget(q.prof.target, q.prof.mode)
        /\ q.seen \subseteq Rules \X RuleRow /\ Ordered(q.seen)
    BY <2>1 DEF Ready, Generates
  <2>3. es \subseteq ExceptionRow
    BY DEF ExceptionsOf, Stored, IInv, ExceptionsOK
  <2>4. OutOK'
    <3>1. CASE UNCHANGED out
      BY <3>1, Untouched
    <3>2. CASE AllFit(q.prof.target, es) /\ out' = new
      <4>1. ASSUME NEW l \in ls
            PROVE /\ q.prof.mode = "scoped"
                  /\ l[1] \in MatchTypes /\ l[2] \in MatchValues /\ l[2] # NULL
                  /\ Normalize(q.prof.target, l[1], l[2]) = l[2]
                  /\ l = <<l[1], l[2]>>
        <5> HIDE DEF es, q
        <5>1. q.prof.mode = "scoped"
          BY DEF Lines
        <5>2. PICK e \in es : l = <<e.type, Normalize(q.prof.target, e.type, e.value)>>
          BY <5>1 DEF Lines
        <5>3. Normalize(q.prof.target, e.type, e.value) # NULL
          BY <3>2 DEF AllFit
        <5>4. e.type \in MatchTypes /\ e.value \in MatchValues
          BY <2>3 DEF ExceptionRow
        <5> QED
          BY <5>1, <5>2, <5>3, <5>4, NormalIsStored, NormalizeValue
      <4>2. ls \subseteq MatchTypes \X MatchValues
        BY <4>1
      <4>3. (q.prof.mode # "compatible") \in BOOLEAN
        BY Zenon
      <4>4. /\ new.target = q.prof.target /\ new.mode = q.prof.mode
            /\ new.rules = q.seen /\ new.lines = ls
            /\ new.stun = (q.prof.mode # "compatible")
        OBVIOUS
      <4>5. new \in Output
        <5> HIDE DEF q, ls
        <5> QED
          BY <2>2, <4>2, <4>3 DEF Output, ProfileRow
      <4> HIDE DEF new, ls, q
      <4>6. OutputFits'
        BY <2>2, <3>2, <4>1, <4>4 DEF OutputFits, Ordered
      <4> QED
        BY <3>2, <4>5, <4>6 DEF OutOK
    <3> QED
      BY <1>5, <3>1, <3>2 DEF ReadExceptions
  <2>5. RequestsOK'
    BY <1>5, Finished DEF ReadExceptions, IInv
  <2> QED
    BY <1>5, <2>4, <2>5, Untouched DEF ReadExceptions, IInv
<1> QED
  BY <1>1, <1>2, <1>3, <1>4, <1>5 DEF Generation

\* Every step keeps the invariant.
LEMMA Step == ASSUME IInv, [Next]_vars PROVE IInv'
<1>1. ASSUME NEW r \in Requests, Abandon(r) PROVE IInv'
  BY <1>1, Finished, Untouched DEF Abandon, IInv
<1>2. CASE UNCHANGED vars
  BY <1>2, Untouched DEF vars, IInv
<1> QED
  BY <1>1, <1>2, ProfileStep, ExceptionStep, RuleStep, GenerationStep DEF Next

\* IInv holds of every reachable state.
LEMMA Invariance == Spec => []IInv
<1>1. Init => IInv
  BY Initial
<1>2. IInv /\ [Next]_vars => IInv'
  BY Step
<1> QED
  BY <1>1, <1>2, PTL DEF Spec

-------------------------------------------------------------------------------
(* Theorems *)

\* Rows, requests and outputs have their types; a value that the normalisation
\* refused (udp_policy.py) is never stored.
THEOREM TypesHold == Spec => []TypeOK
<1>1. IInv => TypeOK
  BY DEF IInv, TypeOK, ProfilesOK, ExceptionsOK, RulesOK, RequestsOK, Ready,
     OutOK, CountsOK
<1> QED
  BY <1>1, Invariance, PTL

\* No two PUTs of target and mode, however they overlap, leave a profile with a
\* mode that its target does not have: the column constraint decides on the row
\* as the commit leaves it (models.py:110).
THEOREM ModesAlwaysFit == Spec => []ModeFits
<1>1. IInv => ModeFits
  BY DEF IInv, ProfilesOK
<1> QED
  BY <1>1, Invariance, PTL

\* Whatever changes between the reads of a generation, and although overlapping
\* edits may store exceptions that do not fit and rules out of order: what
\* generate_surge_config serves is consistent.
THEOREM ServedOutputFits == Spec => []OutputFits
<1>1. IInv => OutputFits
  BY DEF IInv, OutOK
<1> QED
  BY <1>1, Invariance, PTL
-------------------------------------------------------------------------------
(* The rows of the tables among each other *)

\* A PUT of a profile that has passed the check knows exceptions that the
\* target it asks for admits.
CheckedTarget(q) ==
    q.op = "update_profile" /\ q.pc = "checked" =>
        LET new == Edited(q.prof, q.ask) IN
        \/ new.target = q.prof.target
        \/ \A x \in q.seen : x[2].type \in Allowed[new.target]
ChecksOK == \A r \in Requests : req[r] # NULL => CheckedTarget(req[r])

Defaults(table) == {p \in Stored(table) : table[p].default}
DefaultOK == \E p : Defaults(profile) = {p}

RInv ==
    /\ IInv
    /\ ExceptionsOwned
    /\ raced \/ ExceptionsFit
    /\ raced \/ OrderValid(Enabled(rule))
    /\ chosen \/ DefaultOK
    /\ ChecksOK

\* What a step leaves that writes neither profiles nor exceptions.
LEMMA TablesKept ==
  ASSUME RInv
  PROVE /\ UNCHANGED <<profile, exception>> => ExceptionsOwned'
        /\ UNCHANGED <<profile, exception, raced>> => (raced \/ ExceptionsFit)'
        /\ UNCHANGED <<rule, raced>> => (raced \/ OrderValid(Enabled(rule)))'
        /\ UNCHANGED <<profile, chosen>> => (chosen \/ DefaultOK)'
        /\ UNCHANGED req => ChecksOK'
<1>1. UNCHANGED <<profile, exception>> => ExceptionsOwned'
  BY DEF RInv, ExceptionsOwned, Stored
<1>2. UNCHANGED <<profile, exception, raced>> => (raced \/ ExceptionsFit)'
  BY DEF RInv, ExceptionsFit, Stored
<1>3. UNCHANGED <<rule, raced>> => (raced \/ OrderValid(Enabled(rule)))'
  BY DEF RInv, OrderValid, Enabled, Stored, Precedes
<1>4. UNCHANGED <<profile, chosen>> => (chosen \/ DefaultOK)'
  BY DEF RInv, DefaultOK, Defaults, Stored
<1>5. UNCHANGED req => ChecksOK'
  BY DEF RInv, ChecksOK, CheckedTarget
<1> QED
  BY <1>1, <1>2, <1>3, <1>4, <1>5

LEMMA ChecksFinished ==
  ASSUME RInv, NEW r \in Requests, Finish(r)
  PROVE ChecksOK'
<1>1. \A x \in Requests : req'[x] # NULL => req'[x] = req[x]
  BY DEF Finish, RInv, IInv, RequestsOK
<1> QED
  BY <1>1 DEF RInv, ChecksOK, CheckedTarget

\* A request that arrives or goes on to any other place has no claim to keep.
LEMMA ChecksReplaced ==
  ASSUME RInv, NEW r \in Requests, NEW q, req' = [req EXCEPT ![r] = q],
         ~(q.op = "update_profile" /\ q.pc = "checked")
  PROVE ChecksOK'
<1>1. \A x \in Requests : req'[x] = IF x = r THEN q ELSE req[x]
  BY DEF RInv, IInv, RequestsOK
<1> QED
  BY <1>1 DEF RInv, ChecksOK, CheckedTarget

LEMMA ChecksBegun ==
  ASSUME RInv, NEW r \in Requests, NEW op, NEW pc, pc # "checked", NEW p, NEW e,
         NEW ask, Begin(r, op, pc, p, e, ask)
  PROVE ChecksOK'
<1> DEFINE q == Request(op, pc, p, e, ask, profile[p], {})
<1>1. q.pc = pc
  BY DEF Request
<1>2. req' = [req EXCEPT ![r] = q]
  BY DEF Begin
<1> HIDE DEF q
<1> QED
  BY <1>1, <1>2, ChecksReplaced

LEMMA ChecksGone ==
  ASSUME RInv, NEW r \in Requests, req[r] # NULL, NEW pc, pc # "checked", NEW seen,
         Goto(r, pc, seen)
  PROVE ChecksOK'
<1> DEFINE q == [req[r] EXCEPT !.pc = pc, !.seen = seen]
<1>1. q.pc = pc
  BY DEF RInv, IInv, RequestsOK, Ready, RequestOK
<1>2. req' = [req EXCEPT ![r] = q]
  BY DEF Goto
<1> HIDE DEF q
<1> QED
  BY <1>1, <1>2, ChecksReplaced

LEMMA NewIdIsNew ==
  ASSUME NEW table, NEW i \in Nat, IsNewId(table, i)
  PROVE i \notin Stored(table)
BY DEF IsNewId

\* Each target admits a type of its own, so a type tells the target.
LEMMA TypeTellsTarget ==
  ASSUME NEW t \in Targets, NEW u \in Targets, NEW type,
         type \in Allowed[t], type \in Allowed[u]
  PROVE t = u
BY DEF Targets, Allowed

LEMMA NormalMeansAllowed ==
  ASSUME NEW t, NEW type, NEW v, Normalize(t, type, v) # NULL
  PROVE type \in Allowed[t]
BY DEF Normalize

\* Two targets that admit a type normalise its values alike.
LEMMA NormalAlike ==
  ASSUME NEW t, NEW u, NEW type, NEW v, type \in Allowed[t], type \in Allowed[u]
  PROVE Normalize(t, type, v) = Normalize(u, type, v)
BY DEF Normalize

LEMMA RowsAreNotNull ==
  /\ \A x \in ProfileRow : x # NULL
  /\ \A x \in ExceptionRow : x # NULL
  /\ \A x \in RuleRow : x # NULL
BY MarkAssumption

LEMMA RInitial == ASSUME Init PROVE RInv
<1>1. IInv
  BY Initial
<1>2. Stored(exception) = {}
  BY DEF Init, Stored
<1>3. ExceptionsOwned /\ ExceptionsFit
  BY <1>2 DEF ExceptionsOwned, ExceptionsFit
<1>4. OrderValid(Enabled(rule))
  BY SeedsAssumption DEF Init
<1>5. DefaultOK
  <2> DEFINE row == [target |-> SeedTarget, mode |-> DefaultMode(SeedTarget), default |-> TRUE]
  <2>1. 1 \in Profiles /\ profile = [p \in Profiles |-> IF p = 1 THEN row ELSE NULL]
    BY IdsAssumption DEF Init
  <2>2. row \in ProfileRow
    BY DEF ProfileRow, SeedTarget, DefaultMode, Targets, Modes
  <2>3. row # NULL /\ row.default = TRUE
    BY <2>2, RowsAreNotNull
  <2> HIDE DEF row
  <2>4. Defaults(profile) = {1}
    BY <2>1, <2>3 DEF Defaults, Stored
  <2> QED
    BY <2>4 DEF DefaultOK
<1>6. ChecksOK
  BY DEF Init, ChecksOK
<1> QED
  BY <1>1, <1>3, <1>4, <1>5, <1>6 DEF RInv

\* Requests on profiles.  A change of the target keeps what fitted, because the
\* commit knows all exceptions of the profile or counts as raced.
LEMMA RCreateProfile ==
  ASSUME RInv, NEW t \in Targets, NEW m \in Modes \cup {Keep}, NEW d \in BOOLEAN,
         CreateProfile(t, m, d)
  PROVE IInv' => RInv'
<1> DEFINE mode == IF m = Keep THEN DefaultMode(t) ELSE m
           row == [target |-> t, mode |-> mode, default |-> d]
<1>1. PICK p \in Profiles : IsNewId(profile, p) /\ profile' = [profile EXCEPT ![p] = row]
  BY DEF CreateProfile
<1>2. p \notin Stored(profile)
  BY <1>1, NewIdIsNew, IdsAssumption
<1>3. row.default = d
  OBVIOUS
<1> HIDE DEF row
<1>4. /\ \A x \in Stored(profile) : x \in Stored(profile') /\ profile'[x] = profile[x]
      /\ \A x \in Stored(profile') : x = p \/ x \in Stored(profile)
      /\ profile'[p] = row
  BY <1>1, <1>2 DEF RInv, IInv, ProfilesOK, Stored
<1>5. ExceptionsOwned' /\ (raced \/ ExceptionsFit)'
  <2>1. UNCHANGED <<exception, raced>>
    BY DEF CreateProfile
  <2>2. ExceptionsOwned'
    BY <1>4, <2>1 DEF RInv, ExceptionsOwned, Stored
  <2>3. ExceptionsFit => ExceptionsFit'
    <3> SUFFICES ASSUME ExceptionsFit, NEW e \in Stored(exception),
                        exception[e].profile \in Stored(profile')
                 PROVE  Normalize(profile'[exception[e].profile].target,
                                  exception[e].type, exception[e].value)
                        = exception[e].value
      BY <2>1 DEF ExceptionsFit
    <3>1. exception[e].profile \in Stored(profile)
      BY DEF RInv, ExceptionsOwned
    <3> QED
      BY <3>1, <1>4 DEF ExceptionsFit
  <2> QED
    BY <2>1, <2>2, <2>3 DEF RInv
<1>6. (chosen \/ DefaultOK)'
  <2>1. CASE d
    BY <2>1 DEF CreateProfile
  <2>2. CASE ~d
    <3>1. chosen' = chosen
      BY <2>2 DEF CreateProfile, RInv, IInv, CountsOK
    <3>2. Defaults(profile') = Defaults(profile)
      BY <1>3, <1>4, <2>2 DEF Defaults
    <3> QED
      BY <3>1, <3>2 DEF RInv, DefaultOK
  <2> QED
    BY <2>1, <2>2
<1> QED
  BY <1>5, <1>6, TablesKept DEF CreateProfile, RInv

LEMMA RDeleteProfile ==
  ASSUME RInv, NEW p \in Profiles, DeleteProfile(p)
  PROVE IInv' => RInv'
<1>1. /\ profile' = [profile EXCEPT ![p] = NULL] /\ profile[p] # NULL
      /\ \A e \in Exceptions : exception'[e] =
            IF exception[e] # NULL /\ exception[e].profile = p THEN NULL ELSE exception[e]
      /\ DOMAIN exception' = Exceptions
  BY DEF DeleteProfile
<1>2. /\ \A x \in Profiles : x # p => profile'[x] = profile[x]
      /\ profile'[p] = NULL /\ DOMAIN profile' = Profiles /\ DOMAIN profile = Profiles
  BY <1>1 DEF RInv, IInv, ProfilesOK
<1>3. \A e \in Stored(exception') :
         /\ e \in Stored(exception) /\ exception'[e] = exception[e]
         /\ exception[e].profile # p
  BY <1>1 DEF Stored, RInv, IInv, ExceptionsOK
<1>4. ExceptionsOwned'
  BY <1>2, <1>3 DEF RInv, ExceptionsOwned, Stored
<1>5. ExceptionsFit => ExceptionsFit'
  <2> SUFFICES ASSUME ExceptionsFit, NEW e \in Stored(exception'),
                      exception'[e].profile \in Stored(profile')
               PROVE  Normalize(profile'[exception'[e].profile].target,
                                exception'[e].type, exception'[e].value)
                      = exception'[e].value
    BY DEF ExceptionsFit
  <2>1. /\ e \in Stored(exception) /\ exception'[e] = exception[e]
        /\ exception[e].profile # p
    BY <1>3
  <2>2. /\ exception[e].profile \in Stored(profile)
        /\ profile'[exception[e].profile] = profile[exception[e].profile]
    BY <1>2, <2>1 DEF Stored
  <2> QED
    BY <2>1, <2>2 DEF ExceptionsFit
<1>6. (chosen \/ DefaultOK)'
  <2>1. CASE profile[p].default
    BY <2>1 DEF DeleteProfile
  <2>2. CASE ~profile[p].default
    <3>1. profile[p].default \in BOOLEAN
      BY <1>1 DEF RInv, IInv, ProfilesOK, ProfileRow
    <3>2. Defaults(profile') = Defaults(profile)
      BY <1>2, <2>2 DEF Defaults, Stored
    <3>3. chosen' = chosen
      BY <2>2, <3>1 DEF DeleteProfile, RInv, IInv, CountsOK
    <3> QED
      BY <3>2, <3>3 DEF RInv, DefaultOK
  <2> QED
    BY <2>1, <2>2
<1> QED
  BY <1>4, <1>5, <1>6, TablesKept DEF DeleteProfile, RInv

LEMMA RCheckTarget ==
  ASSUME RInv, NEW r \in Requests, CheckTarget(r)
  PROVE IInv' => RInv'
<1> DEFINE q == req[r]
           new == Edited(q.prof, q.ask)
<1>1. ChecksOK'
  <2>1. CASE Finish(r)
    BY <2>1, ChecksFinished
  <2>2. CASE /\ new.target = q.prof.target \/ Incompatible(q.p, new.target) = {}
             /\ Goto(r, "checked", ExceptionsOf(q.p))
    <3> DEFINE s == [q EXCEPT !.pc = "checked", !.seen = ExceptionsOf(q.p)]
    <3>1. req' = [req EXCEPT ![r] = s]
      BY <2>2 DEF Goto
    <3>2. s.prof = q.prof /\ s.ask = q.ask /\ s.seen = ExceptionsOf(q.p)
      BY DEF CheckTarget, At, RInv, IInv, RequestsOK, Ready, RequestOK
    <3> HIDE DEF s
    <3>3. CheckedTarget(s)
      BY <2>2, <3>2 DEF CheckedTarget, Incompatible
    <3>4. \A x \in Requests : req'[x] = IF x = r THEN s ELSE req[x]
      BY <3>1 DEF RInv, IInv, RequestsOK
    <3> QED
      BY <3>3, <3>4 DEF RInv, ChecksOK, CheckedTarget
  <2> QED
    BY <2>1, <2>2 DEF CheckTarget
<1> QED
  BY <1>1, TablesKept DEF CheckTarget, RInv

LEMMA RUpdateProfile ==
  ASSUME RInv, NEW r \in Requests, UpdateProfile(r)
  PROVE IInv' => RInv'
<1> DEFINE q == req[r]
           new == Edited(q.prof, q.ask)
           row == Merge(profile[q.p], q.prof, new)
<1>1. Ready(q) /\ CheckedTarget(q) /\ q.op = "update_profile" /\ q.pc = "checked"
  BY DEF UpdateProfile, At, RInv, IInv, RequestsOK, ChecksOK
<1>2. q.p \in Profiles /\ q.prof \in ProfileRow /\ q.ask \in ProfileEdit
  BY <1>1, InputAssumption DEF Ready, RequestOK, Asks
<1>3. ChecksOK'
  BY ChecksFinished DEF UpdateProfile
<1>4. CASE UNCHANGED <<profile, raced, chosen>>
  BY <1>3, <1>4, TablesKept DEF UpdateProfile, RInv
<1>5. CASE /\ profile[q.p] # NULL
           /\ profile' = [profile EXCEPT ![q.p] = row]
           /\ raced' = \/ raced
                       \/ row.target # profile[q.p].target /\ ExceptionsOf(q.p) # q.seen
           /\ chosen' = (chosen \/ q.ask.default # Keep)
  <2>1. profile[q.p] \in ProfileRow /\ new \in ProfileRow
    BY <1>2, <1>5, EditedProfile DEF RInv, IInv, ProfilesOK
  <2>2. row \in ProfileRow /\ row # NULL
    BY <1>2, <2>1, MergeProfile, RowsAreNotNull
  <2>3. /\ row.target = (IF new.target # q.prof.target THEN new.target ELSE profile[q.p].target)
        /\ row.default = (IF new.default # q.prof.default THEN new.default
                          ELSE profile[q.p].default)
    BY <2>1 DEF Merge, ProfileRow
  <2>4. q.ask.default = Keep => new.default = q.prof.default
    BY <1>2 DEF Edited, Patch, ProfileRow, ProfileEdit
  <2> HIDE DEF row, new
  <2>5. /\ Stored(profile') = Stored(profile)
        /\ \A x \in Profiles : profile'[x] = IF x = q.p THEN row ELSE profile[x]
    BY <1>2, <1>5, <2>2 DEF Stored, RInv, IInv, ProfilesOK
  <2>6. UNCHANGED <<exception, rule>>
    BY DEF UpdateProfile
  <2>7. ExceptionsOwned'
    BY <2>5, <2>6 DEF RInv, ExceptionsOwned
  <2>8. (raced \/ ExceptionsFit)'
    <3> SUFFICES ASSUME ~raced' PROVE ExceptionsFit'
      OBVIOUS
    <3>1. ~raced /\ ExceptionsFit
      BY <1>5 DEF RInv
    <3> SUFFICES ASSUME NEW e \in Stored(exception), exception[e].profile \in Stored(profile)
                 PROVE  Normalize(profile'[exception[e].profile].target,
                                  exception[e].type, exception[e].value)
                        = exception[e].value
      BY <2>5, <2>6 DEF ExceptionsFit
    <3> DEFINE x == exception[e]
    <3>2. Normalize(profile[x.profile].target, x.type, x.value) = x.value
      BY <3>1 DEF ExceptionsFit
    <3>3. x \in ExceptionRow /\ x.profile \in Profiles /\ x.value # NULL
      BY MarkAssumption DEF RInv, IInv, ExceptionsOK, Stored, ExceptionRow
    <3>4. CASE x.profile # q.p \/ row.target = profile[q.p].target
      BY <2>5, <3>2, <3>3, <3>4
    <3>5. CASE x.profile = q.p /\ row.target # profile[q.p].target
      <4>1. ExceptionsOf(q.p) = q.seen
        BY <1>5, <3>5
      <4>2. <<e, x>> \in q.seen
        BY <3>5, <4>1 DEF ExceptionsOf
      <4>3. new.target # q.prof.target /\ row.target = new.target
        BY <2>3, <3>5
      <4>4. x.type \in Allowed[row.target]
        <5>1. \A y \in q.seen : y[2].type \in Allowed[new.target]
          BY <1>1, <4>3 DEF CheckedTarget, new
        <5> QED
          BY <4>2, <4>3, <5>1
      <4>5. x.type \in Allowed[profile[q.p].target]
        BY <3>2, <3>3, <3>5, NormalMeansAllowed
      <4> QED
        BY <2>5, <3>2, <3>3, <3>5, <4>4, <4>5, NormalAlike
    <3> QED
      BY <3>4, <3>5
  <2>9. (chosen \/ DefaultOK)'
    <3>1. CASE q.ask.default # Keep
      BY <1>5, <3>1
    <3>2. CASE q.ask.default = Keep
      <4>1. chosen' = chosen
        BY <1>5, <3>2 DEF RInv, IInv, CountsOK
      <4>2. row.default = profile[q.p].default
        BY <2>3, <2>4, <3>2
      <4>3. Defaults(profile') = Defaults(profile)
        BY <2>5, <4>2 DEF Defaults, Stored, RInv, IInv, ProfilesOK
      <4> QED
        BY <4>1, <4>3 DEF RInv, DefaultOK
    <3> QED
      BY <3>1, <3>2
  <2>10. (raced \/ OrderValid(Enabled(rule)))'
    <3>1. raced => raced'
      BY <1>5
    <3> QED
      BY <2>6, <3>1 DEF RInv
  <2> QED
    BY <1>3, <2>7, <2>8, <2>9, <2>10 DEF RInv
<1> QED
  BY <1>4, <1>5 DEF UpdateProfile

LEMMA RSetDefault ==
  ASSUME RInv, NEW r \in Requests, SetDefault(r)
  PROVE IInv' => RInv'
<1> DEFINE p == req[r].p
<1>1. ChecksOK'
  BY ChecksFinished DEF SetDefault
<1>2. CASE UNCHANGED profile
  BY <1>1, <1>2, TablesKept DEF SetDefault, RInv
<1>3. CASE /\ profile[p] # NULL
           /\ profile' = [x \in Profiles |->
                 IF profile[x] = NULL THEN NULL
                 ELSE [profile[x] EXCEPT !.default = (x = p)]]
  <2>0. p \in Profiles
    BY DEF SetDefault, At, RInv, IInv, RequestsOK, Ready
  <2>1. ASSUME NEW x \in Profiles, profile[x] # NULL
        PROVE  /\ profile'[x] # NULL /\ profile'[x].target = profile[x].target
               /\ profile'[x].default = (x = p)
    <3>1. profile[x] \in ProfileRow
      BY <2>1 DEF RInv, IInv, ProfilesOK
    <3>2. profile'[x] = [profile[x] EXCEPT !.default = (x = p)]
      BY <1>3, <2>1
    <3>3. (x = p) \in BOOLEAN
      BY Zenon
    <3>4. profile'[x] \in ProfileRow
      BY <3>1, <3>2, <3>3 DEF ProfileRow
    <3> QED
      BY <3>1, <3>2, <3>4, RowsAreNotNull DEF ProfileRow
  <2>2. Stored(profile') = Stored(profile)
    <3>1. \A x \in Profiles : profile[x] = NULL => profile'[x] = NULL
      BY <1>3
    <3>2. DOMAIN profile' = Profiles /\ DOMAIN profile = Profiles
      BY <1>3 DEF RInv, IInv, ProfilesOK
    <3> QED
      BY <2>1, <3>1, <3>2 DEF Stored
  <2>3. UNCHANGED <<exception, rule, raced, chosen>>
    BY DEF SetDefault
  <2>4. \A x \in Stored(profile) : profile'[x].target = profile[x].target
    BY <2>1 DEF Stored, RInv, IInv, ProfilesOK
  <2>5. ExceptionsOwned' /\ (ExceptionsFit => ExceptionsFit')
    BY <2>2, <2>3, <2>4 DEF RInv, ExceptionsOwned, ExceptionsFit
  <2>6. DefaultOK'
    <3>1. p \in Stored(profile)
      BY <1>3, <2>0 DEF Stored, RInv, IInv, ProfilesOK
    <3>2. \A x \in Stored(profile) : profile'[x].default = (x = p)
      BY <2>1 DEF Stored, RInv, IInv, ProfilesOK
    <3>3. Defaults(profile') = {p}
      BY <2>2, <3>1, <3>2 DEF Defaults
    <3>4. \E z : Defaults(profile') = {z}
      BY <3>3
    <3> QED
      BY <3>4 DEF DefaultOK
  <2> QED
    BY <1>1, <2>3, <2>5, <2>6, TablesKept DEF RInv
<1> QED
  BY <1>2, <1>3 DEF SetDefault

\* Requests on UDP exceptions.
LEMMA RCreateException ==
  ASSUME RInv, NEW r \in Requests, CreateException(r)
  PROVE IInv' => RInv'
<1> DEFINE q == req[r]
           row == [profile |-> q.p, type |-> q.ask.type, on |-> q.ask.on,
                   value |-> Normalize(q.prof.target, q.ask.type, q.ask.value)]
<1>1. ChecksOK'
  BY ChecksFinished DEF CreateException
<1>2. CASE UNCHANGED <<exception, raced>>
  BY <1>1, <1>2, TablesKept DEF CreateException, RInv
<1>3. CASE /\ Accepted(row) /\ profile[q.p] # NULL /\ ~Taken(row, NULL)
           /\ \E e \in Exceptions : exception' = [exception EXCEPT ![e] = row]
           /\ raced' = (raced \/ profile[q.p].target # q.prof.target)
  <2>1. PICK e \in Exceptions : exception' = [exception EXCEPT ![e] = row]
    BY <1>3
  <2>2. UNCHANGED <<profile, rule, chosen>>
    BY DEF CreateException
  <2>3. q.p \in Stored(profile)
    BY <1>3 DEF CreateException, At, RInv, IInv, RequestsOK, Ready, ProfilesOK, Stored
  <2>4. /\ row.profile = q.p /\ row.type = q.ask.type
        /\ row.value = Normalize(q.prof.target, q.ask.type, q.ask.value)
        /\ row.value # NULL
    BY <1>3 DEF Accepted
  <2>5. \A f \in Stored(exception) : ~(/\ exception[f].profile = row.profile
                                       /\ exception[f].type = row.type
                                       /\ exception[f].value = row.value)
    <3>1. NULL \notin Stored(exception)
      BY MarkAssumption DEF Stored, RInv, IInv, ExceptionsOK
    <3> HIDE DEF row
    <3> QED
      BY <1>3, <3>1 DEF Taken
  <2> HIDE DEF row
  <2>6. /\ \A f \in Stored(exception') : f # e =>
              f \in Stored(exception) /\ exception'[f] = exception[f]
        /\ exception'[e] = row
    BY <2>1 DEF Stored, RInv, IInv, ExceptionsOK
  <2>7. ExceptionsOwned'
    <3>1. \A f \in Stored(exception') : exception'[f].profile \in Stored(profile')
      BY <2>2, <2>3, <2>4, <2>6 DEF RInv, ExceptionsOwned
    <3>2. \A f, g \in Stored(exception') : f # g =>
             \/ exception'[f].profile # exception'[g].profile
             \/ exception'[f].type # exception'[g].type
             \/ exception'[f].value # exception'[g].value
      BY <2>5, <2>6 DEF RInv, ExceptionsOwned
    <3> QED
      BY <3>1, <3>2 DEF ExceptionsOwned
  <2>8. (raced \/ ExceptionsFit)'
    <3> SUFFICES ASSUME ~raced' PROVE ExceptionsFit'
      OBVIOUS
    <3>1. ~raced /\ ExceptionsFit /\ profile[q.p].target = q.prof.target
      BY <1>3 DEF RInv
    <3>2. Normalize(profile[row.profile].target, row.type, row.value) = row.value
      BY <2>4, <3>1, NormalIsStored
    <3> QED
      BY <2>2, <2>6, <3>1, <3>2 DEF ExceptionsFit
  <2>9. raced => raced'
    BY <1>3
  <2> QED
    BY <1>1, <2>2, <2>7, <2>8, <2>9, TablesKept DEF RInv
<1> QED
  BY <1>2, <1>3 DEF CreateException

\* What an UPDATE of an exception leaves: its owner, and, when it changes type
\* or value without having raced, a pair that the target of its profile admits.
LEMMA MergedExceptionFits ==
  ASSUME NEW now \in ExceptionRow, NEW loaded \in ExceptionRow, NEW t \in Targets,
         NEW ask \in ExceptionEdit, NEW new, NEW row,
         new = IF ask.type = Keep /\ ask.value = Keep THEN Patch(loaded, ask)
               ELSE [Patch(loaded, ask) EXCEPT
                        !.value = Normalize(t, Patch(loaded, ask).type,
                                               Patch(loaded, ask).value)],
         Accepted(new), row = Merge(now, loaded, new)
  PROVE /\ row.profile = now.profile
        /\ /\ now.type = loaded.type
           /\ Normalize(t, now.type, now.value) = now.value
           => Normalize(t, row.type, row.value) = row.value
<1> DEFINE patched == Patch(loaded, ask)
<1>1. /\ patched \in ExceptionRow /\ patched.profile = loaded.profile
      /\ ask.type = Keep => patched.type = loaded.type
      /\ ask.value = Keep => patched.value = loaded.value
  <2>1. patched \in ExceptionRow
    BY PatchException
  <2> QED
    BY <2>1 DEF Patch, ExceptionRow, ExceptionEdit
<1> HIDE DEF patched
<1>2. /\ new.profile = patched.profile /\ new.type = patched.type
      /\ new.value = (IF ask.type = Keep /\ ask.value = Keep THEN patched.value
                      ELSE Normalize(t, patched.type, patched.value))
  BY <1>1 DEF patched, ExceptionRow
<1>3. /\ row.profile = (IF new.profile # loaded.profile THEN new.profile ELSE now.profile)
      /\ row.type = (IF new.type # loaded.type THEN new.type ELSE now.type)
      /\ row.value = (IF new.value # loaded.value THEN new.value ELSE now.value)
  BY DEF Merge, ExceptionRow
<1>4. ASSUME now.type = loaded.type, Normalize(t, now.type, now.value) = now.value
      PROVE  Normalize(t, row.type, row.value) = row.value
  <2>1. now.value # NULL
    BY MarkAssumption DEF ExceptionRow
  <2>2. now.type \in Allowed[t]
    BY <1>4, <2>1, NormalMeansAllowed
  <2>3. CASE ask.type = Keep /\ ask.value = Keep
    BY <1>1, <1>2, <1>3, <1>4, <2>3
  <2>4. CASE ~(ask.type = Keep /\ ask.value = Keep)
    <3>1. new.value = Normalize(t, new.type, patched.value) /\ new.value # NULL
      BY <1>2, <2>4 DEF Accepted
    <3>2. new.type \in Allowed[t]
      BY <3>1, NormalMeansAllowed
    <3>3. new.type = now.type
      BY <2>2, <3>2 DEF Targets, Allowed
    <3>4. row.type = now.type
      BY <1>3, <1>4, <3>3
    <3>5. Normalize(t, new.type, new.value) = new.value
      BY <3>1, NormalIsStored
    <3> QED
      BY <1>3, <1>4, <3>3, <3>4, <3>5
  <2> QED
    BY <2>3, <2>4
<1> QED
  BY <1>1, <1>2, <1>3, <1>4

LEMMA RUpdateException ==
  ASSUME RInv, NEW r \in Requests, UpdateException(r)
  PROVE IInv' => RInv'
<1> SUFFICES ASSUME IInv' PROVE RInv'
  OBVIOUS
<1> DEFINE q == req[r]
<1>1. ChecksOK'
  BY ChecksFinished DEF UpdateException
<1>2. CASE UNCHANGED <<exception, raced>>
  BY <1>1, <1>2, TablesKept DEF UpdateException, RInv
<1>3. ASSUME NEW x \in q.seen,
             LET new == NewException(q, x[2])
                 now == exception[q.e]
                 row == Merge(now, x[2], new) IN
             /\ Accepted(new) /\ new # x[2] /\ now # NULL /\ ~Taken(row, q.e)
             /\ exception' = [exception EXCEPT ![q.e] = row]
             /\ raced' = \/ raced
                         \/ /\ <<row.type, row.value>> # <<now.type, now.value>>
                            /\ \/ now.type # x[2].type
                               \/ profile[now.profile].target # q.prof.target
      PROVE RInv'
  <2> DEFINE new == NewException(q, x[2])
             now == exception[q.e]
             row == Merge(now, x[2], new)
  <2>1. /\ q.e \in Exceptions /\ q.ask \in ExceptionEdit
        /\ x[2] \in ExceptionRow /\ q.prof.target \in Targets
    <3>1. Ready(q) /\ q.op = "update_exception"
      BY DEF UpdateException, At, RInv, IInv, RequestsOK
    <3> QED
      BY <3>1, InputAssumption DEF Ready, RequestOK, Asks, Reads, ProfileRow
  <2>2. now \in ExceptionRow /\ q.e \in Stored(exception)
    BY <1>3, <2>1 DEF RInv, IInv, ExceptionsOK, Stored
  <2>3. UNCHANGED <<profile, rule, chosen>>
    BY DEF UpdateException
  <2>4. /\ row.profile = now.profile
        /\ /\ now.type = x[2].type
           /\ Normalize(q.prof.target, now.type, now.value) = now.value
           => Normalize(q.prof.target, row.type, row.value) = row.value
    <3>1. new = IF q.ask.type = Keep /\ q.ask.value = Keep THEN Patch(x[2], q.ask)
                ELSE [Patch(x[2], q.ask) EXCEPT
                        !.value = Normalize(q.prof.target, Patch(x[2], q.ask).type,
                                            Patch(x[2], q.ask).value)]
      BY DEF NewException
    <3>2. Accepted(new)
      BY <1>3
    <3> HIDE DEF new, now, q
    <3> QED
      BY <2>1, <2>2, <3>1, <3>2, MergedExceptionFits
  <2>5. \A f \in Stored(exception) : f # q.e =>
           ~(/\ exception[f].profile = row.profile
             /\ exception[f].type = row.type
             /\ exception[f].value = row.value)
    BY <1>3 DEF Taken
  <2>6. /\ exception' = [exception EXCEPT ![q.e] = row]
        /\ raced' = \/ raced
                    \/ /\ <<row.type, row.value>> # <<now.type, now.value>>
                       /\ \/ now.type # x[2].type
                          \/ profile[now.profile].target # q.prof.target
    BY <1>3
  <2> HIDE DEF row, now, new
  <2>7. /\ \A f \in Stored(exception') : f # q.e =>
              f \in Stored(exception) /\ exception'[f] = exception[f]
        /\ exception'[q.e] = row
    BY <2>1, <2>6 DEF Stored, RInv, IInv, ExceptionsOK
  <2>8. now.profile \in Stored(profile) /\ now = exception[q.e]
    BY <2>2 DEF RInv, ExceptionsOwned, now
  <2>9. ExceptionsOwned'
    <3>1. \A f \in Stored(exception') : exception'[f].profile \in Stored(profile')
      BY <2>3, <2>4, <2>7, <2>8 DEF RInv, ExceptionsOwned
    <3>2. \A f, g \in Stored(exception') : f # g =>
             \/ exception'[f].profile # exception'[g].profile
             \/ exception'[f].type # exception'[g].type
             \/ exception'[f].value # exception'[g].value
      BY <2>5, <2>7 DEF RInv, ExceptionsOwned
    <3> QED
      BY <3>1, <3>2 DEF ExceptionsOwned
  <2>10. (raced \/ ExceptionsFit)'
    <3> SUFFICES ASSUME ~raced' PROVE ExceptionsFit'
      OBVIOUS
    <3>1. ~raced /\ ExceptionsFit
      BY <2>6 DEF RInv
    <3>2. Normalize(profile[now.profile].target, now.type, now.value) = now.value
      BY <2>2, <2>8, <3>1 DEF ExceptionsFit
    <3>3. Normalize(profile[row.profile].target, row.type, row.value) = row.value
      <4>1. CASE row.type = now.type /\ row.value = now.value
        BY <2>4, <3>2, <4>1
      <4>2. CASE ~(row.type = now.type /\ row.value = now.value)
        <5>1. now.type = x[2].type /\ profile[now.profile].target = q.prof.target
          BY <2>6, <4>2
        <5> QED
          BY <2>4, <3>2, <5>1
      <4> QED
        BY <4>1, <4>2
    <3> QED
      BY <2>3, <2>7, <3>1, <3>3 DEF ExceptionsFit
  <2>11. raced => raced'
    BY <2>6
  <2> QED
    BY <1>1, <2>3, <2>9, <2>10, <2>11, TablesKept DEF RInv
<1> QED
  BY <1>2, <1>3 DEF UpdateException

LEMMA RExceptionRequest ==
  ASSUME RInv, ExceptionRequest
  PROVE IInv' => RInv'
<1>1. ASSUME NEW r \in Requests, NEW p \in Profiles, NEW e, NEW ask,
             \/ Begin(r, "create_exception", "loaded", p, NULL, ask)
             \/ Begin(r, "update_exception", "loaded", p, e, ask)
      PROVE IInv' => RInv'
  <2>1. ChecksOK'
    BY <1>1, ChecksBegun
  <2> QED
    BY <1>1, <2>1, TablesKept DEF Begin, RInv
<1>2. ASSUME NEW r \in Requests, LoadException(r) PROVE IInv' => RInv'
  <2>1. ChecksOK'
    <3>1. CASE Finish(r)
      BY <3>1, ChecksFinished
    <3>2. CASE Goto(r, "row", {<<req[r].e, exception[req[r].e]>>})
      BY <1>2, <3>2, ChecksGone DEF LoadException, At
    <3> QED
      BY <1>2, <3>1, <3>2 DEF LoadException
  <2> QED
    BY <1>2, <2>1, TablesKept DEF LoadException, RInv
<1>3. ASSUME NEW e \in Exceptions, DeleteException(e) PROVE IInv' => RInv'
  <2>1. \A f \in Stored(exception') : f \in Stored(exception) /\ exception'[f] = exception[f]
    BY <1>3 DEF DeleteException, Stored, RInv, IInv, ExceptionsOK
  <2>2. UNCHANGED profile
    BY <1>3 DEF DeleteException
  <2>3. ExceptionsOwned'
    BY <2>1, <2>2 DEF RInv, ExceptionsOwned
  <2>4. ExceptionsFit => ExceptionsFit'
    BY <2>1, <2>2 DEF ExceptionsFit
  <2> QED
    BY <1>3, <2>3, <2>4, TablesKept DEF DeleteException, RInv
<1> QED
  BY <1>1, <1>2, <1>3, RCreateException, RUpdateException DEF ExceptionRequest

LEMMA RProfileRequest ==
  ASSUME RInv, ProfileRequest
  PROVE IInv' => RInv'
<1>1. ASSUME NEW r \in Requests, NEW p \in Profiles, NEW ask,
             \/ Begin(r, "set_default", "loaded", p, NULL, NULL)
             \/ Begin(r, "update_profile", "loaded", p, NULL, ask)
      PROVE IInv' => RInv'
  <2>1. ChecksOK'
    BY <1>1, ChecksBegun
  <2> QED
    BY <1>1, <2>1, TablesKept DEF Begin, RInv
<1> QED
  BY <1>1, RCreateProfile, RDeleteProfile, RCheckTarget, RUpdateProfile, RSetDefault
     DEF ProfileRequest

\* Rules.  When nothing it has read has changed, the rows that a commit leaves
\* are the rows it has validated.
LEMMA RCommitRules ==
  ASSUME RInv, NEW r \in Requests, CommitRules(r)
  PROVE IInv' => RInv'
<1> DEFINE q == req[r]
<1>1. ChecksOK'
  BY ChecksFinished DEF CommitRules
<1>2. UNCHANGED <<profile, exception, chosen>>
  BY DEF CommitRules
<1>3. CASE UNCHANGED <<rule, raced>>
  BY <1>1, <1>2, <1>3, TablesKept DEF RInv
<1>4. CASE /\ ~Gone(q) /\ OrderValid(SessionView(q)) /\ rule' = Written(q)
           /\ raced' = \/ raced
                       \/ Written(q) # rule /\ \E x \in q.seen : rule[x[1]] # x[2]
  <2>1. (raced \/ OrderValid(Enabled(rule)))'
    <3> SUFFICES ASSUME ~raced' PROVE OrderValid(Enabled(rule'))
      OBVIOUS
    <3>1. ~raced /\ OrderValid(Enabled(rule))
      BY <1>4 DEF RInv
    <3>2. CASE Written(q) = rule
      BY <1>4, <3>1, <3>2
    <3>3. CASE \A x \in q.seen : rule[x[1]] = x[2]
      <4>1. DOMAIN q.ask \subseteq Rules /\ \A i \in DOMAIN q.ask : q.ask[i] \in RuleEdit
        BY InputAssumption DEF CommitRules, At, RInv, IInv, RequestsOK, Ready, RequestOK, Asks
      <4>2. ASSUME NEW i \in DOMAIN q.ask PROVE Loaded(q)[i] = rule[i]
        <5>1. CASE i \in SeenIds(q)
          <6>1. \E x \in q.seen : x[1] = i
            BY <5>1 DEF SeenIds
          <6>2. (CHOOSE x \in q.seen : x[1] = i) \in q.seen
                /\ (CHOOSE x \in q.seen : x[1] = i)[1] = i
            BY <6>1
          <6> QED
            BY <3>3, <5>1, <6>2 DEF Loaded
        <5>2. CASE i \notin SeenIds(q)
          BY <5>2 DEF Loaded
        <5> QED
          BY <5>1, <5>2
      <4>3. ASSUME NEW i \in DOMAIN q.ask, Changed(q)[i] # NULL
            PROVE  Written(q)[i] = Changed(q)[i]
        <5>1. Loaded(q)[i] # NULL /\ rule[i] \in RuleRow
          BY <4>1, <4>2, <4>3 DEF Changed, RInv, IInv, RulesOK
        <5>2. Changed(q)[i] \in RuleRow
          BY <4>1, <4>2, <5>1, PatchRule DEF Changed
        <5>3. CASE Changed(q)[i] = Loaded(q)[i]
          BY <4>1, <4>2, <5>3 DEF Written
        <5>4. CASE Changed(q)[i] # Loaded(q)[i]
          <6>1. Written(q)[i] = Merge(rule[i], rule[i], Changed(q)[i])
            BY <4>1, <4>2, <5>4 DEF Written
          <6>2. \A a, b \in RuleRow : Merge(a, a, b) = b
            BY DEF Merge, RuleRow
          <6> QED
            BY <5>1, <5>2, <6>1, <6>2
        <5> QED
          BY <5>3, <5>4
      <4>4. SessionView(q) = Enabled(Written(q))
        <5> DEFINE en == Enabled(Written(q))
        <5>1. \A i \in DOMAIN en : en[i] = Written(q)[i]
          BY DEF Enabled
        <5>2. en = [i \in DOMAIN en |-> en[i]]
          BY DEF Enabled
        <5> HIDE DEF en
        <5>3. \A i \in DOMAIN en :
                 (IF i \in DOMAIN q.ask /\ Changed(q)[i] # NULL
                  THEN Changed(q)[i] ELSE Written(q)[i]) = en[i]
          BY <5>1, <4>3
        <5>4. SessionView(q) = [i \in DOMAIN en |->
                 IF i \in DOMAIN q.ask /\ Changed(q)[i] # NULL
                 THEN Changed(q)[i] ELSE Written(q)[i]]
          BY DEF SessionView, en
        <5> QED
          BY <5>2, <5>3, <5>4 DEF en
      <4> QED
        BY <1>4, <4>4
    <3> QED
      BY <1>4, <3>2, <3>3
  <2>2. raced => raced'
    BY <1>4
  <2>3. (raced \/ ExceptionsFit)'
    <3>1. ExceptionsFit => ExceptionsFit'
      BY <1>2 DEF ExceptionsFit
    <3> QED
      BY <2>2, <3>1 DEF RInv
  <2> QED
    BY <1>1, <1>2, <2>1, <2>3, TablesKept DEF RInv
<1> QED
  BY <1>3, <1>4 DEF CommitRules

LEMMA RRuleRequest ==
  ASSUME RInv, RuleRequest
  PROVE IInv' => RInv'
<1>1. ASSUME NEW row \in RuleRow, CreateRule(row) PROVE IInv' => RInv'
  <2>1. OrderValid(Enabled(rule'))
    BY <1>1 DEF CreateRule
  <2> QED
    BY <1>1, <2>1, TablesKept DEF CreateRule, RInv
<1>2. ASSUME NEW i \in Rules, DeleteRule(i) PROVE IInv' => RInv'
  <2>1. \A j \in DOMAIN Enabled(rule') :
           j \in DOMAIN Enabled(rule) /\ Enabled(rule')[j] = Enabled(rule)[j]
    BY <1>2 DEF DeleteRule, Enabled, Stored, RInv, IInv, RulesOK
  <2>2. OrderValid(Enabled(rule)) => OrderValid(Enabled(rule'))
    BY <2>1 DEF OrderValid, Precedes
  <2> QED
    BY <1>2, <2>2, TablesKept DEF DeleteRule, RInv
<1>3. ASSUME NEW r \in Requests, NEW ask, BeginEdit(r, ask) PROVE IInv' => RInv'
  <2> DEFINE q == Request("edit_rules", "loading", NULL, NULL, ask, NULL, {})
  <2>1. req' = [req EXCEPT ![r] = q] /\ q.pc = "loading"
    BY <1>3 DEF BeginEdit, Request
  <2> HIDE DEF q
  <2>2. ChecksOK'
    BY <2>1, ChecksReplaced
  <2> QED
    BY <1>3, <2>2, TablesKept DEF BeginEdit, RInv
<1>4. ASSUME NEW r \in Requests, LoadRule(r) PROVE IInv' => RInv'
  <2>1. ChecksOK'
    BY <1>4, ChecksGone DEF LoadRule, At
  <2> QED
    BY <1>4, <2>1, TablesKept DEF LoadRule, RInv
<1> QED
  BY <1>1, <1>2, <1>3, <1>4, RCommitRules DEF RuleRequest

\* A generation writes none of the tables.
LEMMA RGeneration ==
  ASSUME RInv, Generation
  PROVE IInv' => RInv'
<1>1. UNCHANGED <<profile, exception, rule, raced, chosen>>
  BY DEF Generation, Begin, Resolve, ReadRules, ReadExceptions
<1>2. ChecksOK'
  <2>1. ASSUME NEW r \in Requests, NEW p \in Profiles,
               \/ Begin(r, "generate", "resolved", p, NULL, NULL)
               \/ Begin(r, "subscribe", "loaded", p, NULL, NULL)
        PROVE ChecksOK'
    BY <2>1, ChecksBegun
  <2>2. ASSUME NEW r \in Requests, Resolve(r) PROVE ChecksOK'
    BY <2>2, ChecksFinished, ChecksGone DEF Resolve, At
  <2>3. ASSUME NEW r \in Requests, ReadRules(r) PROVE ChecksOK'
    <3>1. CASE Finish(r)
      BY <3>1, ChecksFinished
    <3>2. CASE \E seen : Goto(r, "rules", seen)
      BY <2>3, <3>2, ChecksGone DEF ReadRules, Generating, At
    <3> QED
      BY <2>3, <3>1, <3>2 DEF ReadRules
  <2>4. ASSUME NEW r \in Requests, ReadExceptions(r) PROVE ChecksOK'
    BY <2>4, ChecksFinished DEF ReadExceptions
  <2> QED
    BY <2>1, <2>2, <2>3, <2>4 DEF Generation
<1> QED
  BY <1>1, <1>2, TablesKept DEF RInv

LEMMA RStep == ASSUME RInv, [Next]_vars PROVE RInv'
<1>1. IInv'
  BY Step DEF RInv
<1>2. ASSUME NEW r \in Requests, Abandon(r) PROVE RInv'
  BY <1>1, <1>2, ChecksFinished, TablesKept DEF Abandon, RInv
<1>3. CASE UNCHANGED vars
  BY <1>1, <1>3, TablesKept DEF vars, RInv
<1> QED
  BY <1>1, <1>2, <1>3, RProfileRequest, RExceptionRequest, RRuleRequest, RGeneration DEF Next

\* The stored rows are consistent whatever requests overlap: modes, owners and
\* uniqueness always; targets and the order of rules as long as no commit was
\* decided on rows that had changed since; one default as long as nothing but
\* set-default chooses it.
THEOREM RowsAlwaysFit == Spec => []RowsFit
<1>1. Init => RInv
  BY RInitial
<1>2. RInv /\ [Next]_vars => RInv'
  BY RStep
<1>3. RInv => RowsFit
  <2> SUFFICES ASSUME RInv PROVE RowsFit
    OBVIOUS
  <2>1. chosen \/ OneDefault
    BY FS_Singleton DEF RInv, DefaultOK, Defaults, OneDefault
  <2> QED
    BY <2>1 DEF RInv, IInv, ProfilesOK, RowsFit
<1> QED
  BY <1>1, <1>2, <1>3, PTL DEF Spec

===============================================================================
