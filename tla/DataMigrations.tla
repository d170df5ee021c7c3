---------------------------- MODULE DataMigrations -----------------------------
(***************************************************************************)
(* What an upgrade does to the rows, and what is generated from them.      *)
(*                                                                         *)
(* A start that finds something pending copies the live database, brings   *)
(* the copy to the newest schema (migrations/versions/0006), seeds it when *)
(* it is empty (app/bootstrap.py) and applies the business migrations that *)
(* are not in its ledger, each in a transaction of its own with its record *)
(* (app/services/data_migrations.py); then the copy becomes the live       *)
(* database.  PublishChain is about the files of this chain, this module   *)
(* about the rows.  While the program is up, the pages edit the rows       *)
(* (app/routers/groups.py, nodes.py, configs.py, which hardly validate)    *)
(* and configurations are generated, table by table (GeneratedConfig).     *)
(***************************************************************************)
EXTENDS GeneratedConfig, SequencesExt

CONSTANTS
    Databases,    \* the databases a start may find
    Seeds,        \* the default rows of an empty database
    SecurityRule, \* SECURITY_PRE_RULES
    Legacy,       \* legacy_stream: built-in source to the group it referred to
    Regions,                   \* names the region page may write
    Services, Policies,        \* names and policy lists the service page may write
    NewRules, NewSources,      \* rows the rule pages may add
    Actions,                   \* actions of a source, policies of FINAL
    Pages,                     \* requests that edit rule sources
    NULL,
    MaxEdits, MaxOpen, MaxStops  \* bounds: edits, requests at a time, stops or crashes

VARIABLES
    db,        \* the live database
    registry,  \* DATA_MIGRATIONS of the installed program, in order
    phase,     \* "down", of a start "schema", "seed", "keys", or "up"
    stage,     \* the staging copy, NULL outside a start
    gen,       \* the generation in progress
    session,   \* of each page: Idle, or the rule source it has loaded to change
    disturbed, \* history: since its repair, the order was written unvalidated
    edits, stops

vars == <<db, registry, phase, stage, gen, session, disturbed, edits, stops>>

Published ==
    <<"security", "douyin", "ipv6", "dns", "quic", "keywords", "dangling", "ipflags",
      "order", "retire", "udp">>

Without(rows, gone) == [i \in DOMAIN rows \ gone |-> rows[i]]
\* A row under the next id.
Insert(rows, row) ==
    LET id == 1 + Max({0} \cup DOMAIN rows)
    IN  [i \in DOMAIN rows \cup {id} |-> IF i = id THEN row ELSE rows[i]]
\* Rows under the ids after the last.
InsertAll(rows, new) ==
    LET top == Max({0} \cup DOMAIN rows)
    IN  [i \in DOMAIN rows \cup {top + j : j \in DOMAIN new} |->
            IF i \in DOMAIN rows THEN rows[i] ELSE new[i - top]]

-------------------------------------------------------------------------------
(* 0006: nodes of a subscription with the same connection become one row,  *)
(* subscriptions get the time of their next update.                        *)

Twins(nodes, i) ==
    {j \in DOMAIN nodes : nodes[j].sub # 0 /\ nodes[j].sub = nodes[i].sub
                                           /\ nodes[j].conn = nodes[i].conn}

\* _survivor_rank: a region set by hand, pins, switched off, the smaller id.
Weight(n) == (IF n.region = "" THEN 4 ELSE 0) + (IF n.pins = {} THEN 2 ELSE 0)
                 + (IF n.enabled THEN 1 ELSE 0)
Outranks(nodes, i, j) ==
    Weight(nodes[i]) < Weight(nodes[j]) \/ (Weight(nodes[i]) = Weight(nodes[j]) /\ i < j)
Survivors(nodes) ==
    {i \in DOMAIN nodes : nodes[i].sub = 0
        \/ \A j \in Twins(nodes, i) \ {i} : Outranks(nodes, i, j)}

\* The row of a survivor: it has a region if any of them has.
Bug_SurvivorsPins(nodes, i) ==
    [nodes[i] EXCEPT !.enabled = \A j \in Twins(nodes, i) : nodes[j].enabled]
MergedRow(nodes, i) ==
    IF nodes[i].sub = 0 THEN nodes[i]
    ELSE [nodes[i] EXCEPT !.pins = UNION {nodes[j].pins : j \in Twins(nodes, i)},
                          !.enabled = \A j \in Twins(nodes, i) : nodes[j].enabled]
Merged(nodes) == [i \in Survivors(nodes) |-> MergedRow(nodes, i)]

\* _normalized_interval, and the first time the scheduler is to serve the row.
MinInterval == 300
MaxInterval == 7 * 86400
Interval(seconds) == IF seconds \in MinInterval..MaxInterval THEN seconds ELSE 86400
Scheduled(s) ==
    [s EXCEPT !.interval = Interval(@),
              !.next = IF ~(s.enabled /\ s.auto) THEN NULL
                       ELSE IF s.last = NULL THEN s.created ELSE s.last + Interval(s.interval)]

\* _frozen_key raises for a node whose connection cannot be read.
BadConnection(d) == \E i \in DOMAIN d.nodes : d.nodes[i].sub # 0 /\ d.nodes[i].conn = "bad"

SchemaUpgraded(d) ==
    [d EXCEPT !.schema = "0006", !.nodes = Merged(@),
              !.subs = [i \in DOMAIN @ |-> Scheduled(@[i])]]

-------------------------------------------------------------------------------
(* The business migrations, d to d *)

SecurityRules(d) ==
    IF \E i \in DOMAIN d.rules : d.rules[i].text = SecurityRule.text THEN d
    ELSE [d EXCEPT !.rules = Insert(@, SecurityRule)]

\* A default source as it is inserted.
DefaultSource(name) ==
    [name |-> name, url |-> name, enabled |-> TRUE, order |-> Defaults[name].order,
     action |-> Defaults[name].action, ip |-> Defaults[name].ip]

\* Room is made at its place: all from there on move by one.
Bug_ShiftOneRow(sources, at) ==
    [i \in DOMAIN sources |->
        IF sources[i].order = at THEN [sources[i] EXCEPT !.order = @ + 1] ELSE sources[i]]
Shifted(sources, at) ==
    [i \in DOMAIN sources |->
        IF sources[i].order >= at THEN [sources[i] EXCEPT !.order = @ + 1] ELSE sources[i]]
DouyinRule(d) ==
    IF \E i \in DOMAIN d.sources : "DouYin" \in {d.sources[i].name, d.sources[i].url} THEN d
    ELSE [d EXCEPT !.sources = Insert(Shifted(@, Defaults["DouYin"].order), DefaultSource("DouYin"))]

\* Values of profile.general: "absent", "old" (an old default), "new", "own".
Ipv6Vif(d) == IF d.general.ipv6 = "old" THEN [d EXCEPT !.general.ipv6 = "new"] ELSE d
DnsDefaults(d) ==
    [d EXCEPT !.general =
        [k \in DOMAIN @ |->
            IF k = "geoip" THEN "absent"
            ELSE IF (k = "quic" /\ @[k] = "absent")
                    \/ (k \in {"encrypted", "hijack", "dashboard"} /\ @[k] = "old") THEN "new"
            ELSE @[k]]]

GlobalPre(r) == r.global /\ r.position = "pre"
RemoveGlobalQuic(d) ==
    [d EXCEPT !.rules = Without(@, {i \in DOMAIN @ : GlobalPre(@[i]) /\ @[i].text = "quic"})]

\* The key of the keywords is added when it is missing, and retired later.
NoResolveKeywords(d) == [d EXCEPT !.keyword = TRUE]
RetireKeywords(d) == [d EXCEPT !.keyword = FALSE]

\* Any of these names may make the old action valid, in one language or the other.
Bug_OnlyStoredName(b) == {b}
Candidates(b) == {Translate(Plain(b), language)[1] : language \in Languages}
Reserved(d) == {d.nodes[i].name : i \in Enabled(d.nodes)} \cup Enabled(d.services)
GroupGenerated(d, b) == b \in AutoRegions(d) \cup ManualRegions(d)
Dangling(d, s) ==
    /\ s.enabled /\ BuiltinSource(s) /\ s.name \in DOMAIN Legacy
    /\ s.action = Plain(Legacy[s.name])
    /\ ~GroupGenerated(d, Legacy[s.name])
    /\ Candidates(Legacy[s.name]) \cap Reserved(d) = {}
DanglingActions(d) ==
    LET fallback == Plain(IF "Global" \in Enabled(d.services) THEN "Global" ELSE "DIRECT")
    IN  [d EXCEPT !.sources =
            [i \in DOMAIN @ |-> IF Dangling(d, @[i]) THEN [@[i] EXCEPT !.action = fallback] ELSE @[i]]]

Flagged(s) == IF BuiltinSource(s) /\ Defaults[s.name].ip THEN [s EXCEPT !.ip = TRUE] ELSE s
IpFlags(d) == [d EXCEPT !.sources = [i \in DOMAIN @ |-> Flagged(@[i])]]

\* Only the built-in sources on the wrong side go back to their default place.
Repaired(sources) ==
    LET crossing == UNION {{p[1], p[2]} : p \in Misplaced(sources)}
    IN  [i \in DOMAIN sources |->
            IF i \in crossing THEN [sources[i] EXCEPT !.order = Defaults[sources[i].name].order]
            ELSE sources[i]]
\* The check after the repair: the migration fails and is not recorded.
Bug_NoRecheck(d) == FALSE
OrderFails(d) == Misplaced(Repaired(d.sources)) # {}
Bug_OnlyChecked(d) == d
OrderRepaired(d) == [d EXCEPT !.sources = Repaired(@)]

\* The exact rules of old versions: their text up to blanks, comment and place.
LegacyStun(r) == GlobalPre(r) /\ r.text = "stun" /\ r.exact
UdpModes(d) == [d EXCEPT !.rules = Without(@, {i \in DOMAIN @ : LegacyStun(@[i])})]

Effect(key, d) ==
    CASE key = "security" -> SecurityRules(d)
      [] key = "douyin"   -> DouyinRule(d)
      [] key = "ipv6"     -> Ipv6Vif(d)
      [] key = "dns"      -> DnsDefaults(d)
      [] key = "quic"     -> RemoveGlobalQuic(d)
      [] key = "keywords" -> NoResolveKeywords(d)
      [] key = "dangling" -> DanglingActions(d)
      [] key = "ipflags"  -> IpFlags(d)
      [] key = "order"    -> OrderRepaired(d)
      [] key = "retire"   -> RetireKeywords(d)
      [] key = "udp"      -> UdpModes(d)
      [] OTHER            -> d

-------------------------------------------------------------------------------
(* A start *)

\* The places in the registry of what is not recorded.
Pending(d) == {i \in DOMAIN registry : registry[i] \notin d.ledger}

(* The databases a start may find have the tables and columns the migrations *)
(* use, and their ledger was written in the order of the registry.  Of the   *)
(* profiles the model follows one, with its final and general, and whether   *)
(* one has the name of the default profile, another name, or there is none.  *)
Tables == {"schema", "ledger", "profile", "final", "general", "keyword", "other", "nodes",
           "regions", "services", "sources", "rules", "subs"}
SourceColumns == {"name", "url", "enabled", "order", "action"}
NodeColumns == {"sub", "conn", "enabled", "pins", "region"}
Subscription == [enabled : BOOLEAN, auto : BOOLEAN, interval : Int, created : Int,
                 last : Int \cup {NULL}, next : Int \cup {NULL}]
WellFormed(d) ==
    /\ Tables \subseteq DOMAIN d
    /\ \A i \in DOMAIN d.sources : SourceColumns \subseteq DOMAIN d.sources[i]
    /\ "order" \in d.ledger => "douyin" \in d.ledger
    /\ "retire" \in d.ledger => "keywords" \in d.ledger
    /\ d.profile \in {"default", "own", "none"}
\* The tables of rules and sources are finite, their ids and places are numbers.
Numbered(d) ==
    /\ \A ids \in {DOMAIN d.rules, DOMAIN d.sources} : ids \subseteq Nat /\ IsFiniteSet(ids)
    /\ \A i \in DOMAIN d.sources : d.sources[i].order \in Int
\* What 0006 reads.
Stored(d) ==
    /\ DOMAIN d.nodes \subseteq Nat
    /\ \A i \in DOMAIN d.nodes : NodeColumns \subseteq DOMAIN d.nodes[i]
                               /\ d.nodes[i].enabled \in BOOLEAN
    /\ \A i \in DOMAIN d.subs : d.subs[i] \in Subscription

ASSUME NullAssumption == NULL \notin Int
ASSUME DatabasesAssumption == \A d \in Databases : WellFormed(d) /\ Numbered(d) /\ Stored(d)
ASSUME NewSourcesAssumption ==
    \A row \in NewSources : SourceColumns \subseteq DOMAIN row /\ row.order \in Int
\* The default rows are complete, in order, and have the groups they refer to.
ASSUME SeedsAssumption ==
    /\ WellFormed(Seeds) /\ Numbered(Seeds) /\ Seeds.profile = "default"
    /\ Misplaced(Seeds.sources) = {}
    /\ {"AI", "Mainland"} \subseteq Enabled(Seeds.services)
ASSUME DefaultsAssumption ==
    /\ \A name \in DOMAIN Defaults : Defaults[name].order \in Int
    /\ "DouYin" \in DOMAIN Defaults /\ Defaults["DouYin"].action = Plain("Mainland")
    /\ SecurityRule.policy = Plain("AI") /\ SecurityRule.form = "plain"
\* The old groups have an English name of their own, none is a fixed name.
FixedNames == {"DIRECT", "REJECT", "AllServer", "Other", "Automatic", "Proxy", "NoAuto"}
ASSUME LegacyAssumption ==
    \A s \in DOMAIN Legacy : LET b == Legacy[s] IN
        /\ b \in DOMAIN En /\ \A x \in DOMAIN En : En[x] = En[b] => x = b
        /\ {b, En[b]} \cap (FixedNames \cup {""}) = {}

Idle == [pc |-> "idle"]
Init ==
    /\ db \in Databases
    /\ registry = Published
    /\ phase = "down" /\ stage = NULL
    /\ gen = Idle /\ session = [p \in Pages |-> Idle] /\ disturbed = (Misplaced(db.sources) # {})
    /\ edits = 0 /\ stops = 0

\* prepare_database: nothing pending, or a copy of the live database.
Start ==
    /\ phase = "down"
    /\ IF db.schema = "0006" /\ Pending(db) = {}
       THEN phase' = "up" /\ UNCHANGED stage
       ELSE phase' = "schema" /\ stage' = db
    /\ UNCHANGED <<db, registry, gen, session, disturbed, edits, stops>>

\* Any exception of the chain: the copy is dropped, the start fails.
Fails == phase' = "down" /\ stage' = NULL

SyncSchema ==
    /\ phase = "schema"
    /\ \/ stage.schema = "0006" /\ phase' = "seed" /\ UNCHANGED stage
       \/ stage.schema # "0006" /\ BadConnection(stage) /\ Fails
       \/ /\ stage.schema # "0006" /\ ~BadConnection(stage)
          /\ stage' = SchemaUpgraded(stage) /\ phase' = "seed"
    /\ UNCHANGED <<db, registry, gen, session, disturbed, edits, stops>>

\* seed_defaults: a database without a region counts as empty, and the default
\* rows are put beside what it has; the names of profiles and of services are
\* unique.  The settings of the profile that is followed stay, if there is one.
SeedsClash(d) == d.profile = "default" \/ DOMAIN d.services \cap DOMAIN Seeds.services # {}
Vacant(d) == DOMAIN d.regions = {} /\ ~SeedsClash(d)
Seeded(d) ==
    [d EXCEPT !.regions = Seeds.regions, !.services = @ @@ Seeds.services,
              !.sources = InsertAll(@, Seeds.sources), !.rules = InsertAll(@, Seeds.rules),
              !.profile = "default",
              !.final = IF d.profile = "none" THEN Seeds.final ELSE @,
              !.general = IF d.profile = "none" THEN Seeds.general ELSE @]
Bug_SeedsMissingRows ==
    /\ phase = "seed" /\ phase' = "keys"
    /\ stage' = IF \E i \in DOMAIN stage.sources : stage.sources[i].name = "DouYin" THEN stage
                ELSE [stage EXCEPT !.sources = Insert(@, DefaultSource("DouYin"))]
    /\ UNCHANGED <<db, registry, gen, session, disturbed, edits, stops>>
SeedDefaults ==
    /\ phase = "seed"
    /\ \/ DOMAIN stage.regions # {} /\ phase' = "keys" /\ UNCHANGED stage
       \/ DOMAIN stage.regions = {} /\ SeedsClash(stage) /\ Fails
       \/ Vacant(stage) /\ stage' = Seeded(stage) /\ phase' = "keys"
    /\ UNCHANGED <<db, registry, gen, session, disturbed, edits, stops>>

\* apply_data_migrations: the first key that is not recorded, in one
\* transaction with its record.
ApplyKey ==
    /\ phase = "keys"
    /\ \E i \in Pending(stage) : LET key == registry[i] IN
        /\ \A j \in Pending(stage) : i <= j
        /\ \/ key = "order" /\ OrderFails(stage) /\ Fails
           \/ /\ ~(key = "order" /\ OrderFails(stage))
              /\ stage' = [Effect(key, stage) EXCEPT !.ledger = @ \cup {key}] /\ UNCHANGED phase
    /\ UNCHANGED <<db, registry, gen, session, disturbed, edits, stops>>

\* Default rows that were put beside those of a repaired order are not validated.
Publish ==
    /\ phase = "keys" /\ Pending(stage) = {}
    /\ db' = stage /\ stage' = NULL /\ phase' = "up"
    /\ disturbed' = ("order" \in db.ledger /\ (disturbed \/ Vacant(db)))
    /\ UNCHANGED <<registry, gen, session, edits, stops>>

\* The program stops or dies, also in the middle of a start.
Stop ==
    /\ phase # "down" /\ stops < MaxStops
    /\ phase' = "down" /\ stage' = NULL /\ gen' = Idle /\ session' = [p \in Pages |-> Idle]
    /\ stops' = stops + 1
    /\ UNCHANGED <<db, registry, disturbed, edits>>

\* The next release brings one more migration, of which nothing is known here.
NewRelease ==
    /\ phase = "down" /\ registry = Published
    /\ registry' = Append(registry, "later")
    /\ UNCHANGED <<db, phase, stage, gen, session, disturbed, edits, stops>>

-------------------------------------------------------------------------------
(* The pages.  An update writes the fields that are given; one of them at a  *)
(* time is enough here.                                                    *)

\* There is room for one more request within the bounds.
Loaded == {p \in Pages : session[p] # Idle}
Room == edits < MaxEdits /\ Cardinality(Loaded) + (IF gen = Idle THEN 0 ELSE 1) < MaxOpen

Write(d) ==
    /\ phase = "up" /\ Room
    /\ db' = d /\ edits' = edits + 1
    /\ UNCHANGED <<registry, phase, stage, gen, session, disturbed, stops>>

Toggled(row, field) == [row EXCEPT ![field] = ~@]
\* A group under another name: only the uniqueness of names is checked.
Renamed(rows, old, new) ==
    [x \in (DOMAIN rows \ {old}) \cup {new} |-> rows[IF x = new THEN old ELSE x]]

CreateRegion ==
    \E r \in Regions \ DOMAIN db.regions, auto, manual \in BOOLEAN :
        Write([db EXCEPT !.regions = @ @@ (r :> [enabled |-> TRUE, auto |-> auto, manual |-> manual])])
UpdateRegion ==
    \E r \in DOMAIN db.regions :
        \/ \E field \in {"enabled", "auto", "manual"} :
              Write([db EXCEPT !.regions[r] = Toggled(@, field)])
        \/ \E new \in Regions \ DOMAIN db.regions : Write([db EXCEPT !.regions = Renamed(@, r, new)])
DeleteRegion ==
    \E r \in DOMAIN db.regions : Write([db EXCEPT !.regions = Without(@, {r})])

CreateService ==
    \E s \in Services \ DOMAIN db.services, policies \in Policies :
        Write([db EXCEPT !.services = @ @@ (s :> [policies |-> policies, enabled |-> TRUE])])
UpdateService ==
    \E s \in DOMAIN db.services :
        \/ Write([db EXCEPT !.services[s] = Toggled(@, "enabled")])
        \/ \E policies \in Policies : Write([db EXCEPT !.services[s].policies = policies])
        \/ \E new \in Services \ DOMAIN db.services : Write([db EXCEPT !.services = Renamed(@, s, new)])
DeleteService ==
    \E s \in DOMAIN db.services : Write([db EXCEPT !.services = Without(@, {s})])

UpdateNode == \E i \in DOMAIN db.nodes : Write([db EXCEPT !.nodes[i] = Toggled(@, "enabled")])
PinNode ==
    \E i \in DOMAIN db.nodes, s \in Services :
        Write([db EXCEPT !.nodes[i].pins = IF s \in @ THEN @ \ {s} ELSE @ \cup {s}])

\* The rule page refuses a FINAL and several lines.
Accepted(rule) == rule.form \notin {"final", "lines"}
CreateRule ==
    \E rule \in NewRules : Accepted(rule) /\ Write([db EXCEPT !.rules = Insert(@, rule)])
UpdateRule ==
    \E i \in DOMAIN db.rules :
        \/ Write([db EXCEPT !.rules[i] = Toggled(@, "enabled")])
        \/ \E rule \in NewRules : Accepted(rule) /\ Write([db EXCEPT !.rules[i] = rule])
DeleteRule == \E i \in DOMAIN db.rules : Write([db EXCEPT !.rules = Without(@, {i})])

(* A new source is inserted, which takes the write lock, before the order of *)
(* all enabled ones is validated.  An update and a reordering load the row   *)
(* before they have the lock: it may change until they write.                *)
CreateSource ==
    \E row \in NewSources : LET sources == Insert(db.sources, row) IN
        Write([db EXCEPT !.sources = sources]) /\ Misplaced(sources) = {}
DeleteSource == \E i \in DOMAIN db.sources : Write([db EXCEPT !.sources = Without(@, {i})])

Load(p, i, new) ==
    /\ phase = "up" /\ session[p] = Idle /\ new # db.sources[i] /\ Room
    /\ session' = [session EXCEPT ![p] = [id |-> i, row |-> db.sources[i], new |-> new]]
    /\ UNCHANGED <<db, registry, phase, stage, gen, disturbed, edits, stops>>
UpdateSource(p) ==
    \E i \in DOMAIN db.sources : LET row == db.sources[i] IN
        \/ Load(p, i, Toggled(row, "enabled"))
        \/ \E action \in Actions : Load(p, i, [row EXCEPT !.action = action])
        \/ \E other \in NewSources : Load(p, i, [row EXCEPT !.name = other.name, !.url = other.url])
ReorderSources(p) ==
    \E i, place \in DOMAIN db.sources :
        Load(p, i, [db.sources[i] EXCEPT !.order = db.sources[place].order])

\* The flush writes the columns that the session changed.  The database then
\* selects the enabled rows, but the row of the session keeps its values; when
\* the row is gone or the order is refused, everything stays as it was.
Flushed(s) ==
    [db.sources EXCEPT ![s.id] =
        [c \in DOMAIN @ |-> IF s.new[c] # s.row[c] THEN s.new[c] ELSE @[c]]]
Validated(s) ==
    [i \in Enabled(Flushed(s)) |->
        IF i = s.id THEN [s.new EXCEPT !.enabled = TRUE] ELSE Flushed(s)[i]]
CommitSource(p) ==
    LET s == session[p]
        writes == s.id \in DOMAIN db.sources /\ Misplaced(Validated(s)) = {}
    IN  /\ phase = "up" /\ p \in Loaded
        /\ \/ /\ writes
              /\ db' = [db EXCEPT !.sources = Flushed(s)]
              /\ disturbed' = (disturbed \/ (db' # db /\ s.row # db.sources[s.id]))
           \/ ~writes /\ UNCHANGED <<db, disturbed>>
        /\ session' = [session EXCEPT ![p] = Idle] /\ edits' = edits + 1
        /\ UNCHANGED <<registry, phase, stage, gen, stops>>

\* The profile that is followed; its own rules go with it.
CreateProfile ==
    \E name \in {"default", "own"}, policy \in Actions \cup {Seeds.final}, value \in {"absent", "own"} :
        /\ db.profile = "none"
        /\ Write([db EXCEPT !.profile = name, !.final = policy,
                            !.general = [k \in DOMAIN @ |-> value]])
RenameProfile ==
    \E name \in {"default", "own"} : db.profile # "none" /\ Write([db EXCEPT !.profile = name])
UpdateFinal == \E policy \in Actions : db.profile # "none" /\ Write([db EXCEPT !.final = policy])
DeleteProfile ==
    /\ db.profile # "none"
    /\ Write([db EXCEPT !.profile = "none",
                        !.rules = Without(@, {i \in DOMAIN @ : ~@[i].global})])

-------------------------------------------------------------------------------
(* A generation reads one table after the other; what is read is not a     *)
(* snapshot, an edit may be committed between two of them.                 *)

Reads == <<"nodes", "regions", "services", "sources", "other", "pre", "general">>
Asked == [language : Languages, ios : BOOLEAN]

Generate ==
    /\ phase = "up" /\ gen = Idle /\ db.profile # "none" /\ Room
    /\ gen' = [pc |-> "reading", next |-> 1, view |-> [final |-> db.final, rules |-> <<>>]]
    /\ UNCHANGED <<db, registry, phase, stage, session, disturbed, edits, stops>>

Positioned(position) ==
    [i \in {i \in DOMAIN db.rules : db.rules[i].position = position} |-> db.rules[i]]

\* The sources are refused as soon as they are read, when they are misplaced.
Read ==
    /\ gen.pc = "reading" /\ gen.next <= Len(Reads)
    /\ LET table == Reads[gen.next]
           rows == IF table \in {"pre", "general"} THEN Positioned(table) @@ gen.view.rules
                   ELSE db[table]
           field == IF table \in {"pre", "general"} THEN "rules" ELSE table
       IN  IF table = "sources" /\ Misplaced(rows) # {} THEN gen' = Idle
           ELSE gen' = [gen EXCEPT !.next = @ + 1, !.view = (field :> rows) @@ @]
    /\ UNCHANGED <<db, registry, phase, stage, session, disturbed, edits, stops>>

\* validate_generated_references and the other refusals, or the output.
Answer ==
    /\ gen.pc = "reading" /\ gen.next > Len(Reads)
    /\ \E a \in Asked :
          IF Invalid(gen.view, a.language, a.ios) THEN gen' = Idle
          ELSE gen' = [pc |-> "answered", output |-> Output(gen.view, a.language, a.ios)]
    /\ UNCHANGED <<db, registry, phase, stage, session, disturbed, edits, stops>>

Close ==
    /\ gen.pc = "answered" /\ gen' = Idle
    /\ UNCHANGED <<db, registry, phase, stage, session, disturbed, edits, stops>>

Edit ==
    \/ CreateRegion \/ UpdateRegion \/ DeleteRegion
    \/ CreateService \/ UpdateService \/ DeleteService
    \/ UpdateNode \/ PinNode
    \/ CreateProfile \/ RenameProfile \/ UpdateFinal \/ DeleteProfile
    \/ CreateRule \/ UpdateRule \/ DeleteRule
    \/ CreateSource \/ DeleteSource
    \/ \E p \in Pages : UpdateSource(p) \/ ReorderSources(p) \/ CommitSource(p)

Next ==
    \/ Start \/ SyncSchema \/ SeedDefaults \/ ApplyKey \/ Publish \/ Stop \/ NewRelease
    \/ Edit \/ Generate \/ Read \/ Answer \/ Close

Spec == Init /\ [][Next]_vars

-------------------------------------------------------------------------------
(* Properties *)

Sound(o) ==
    /\ \A g \in o.groups : g.members \subseteq o.defined
    /\ \A l \in o.lines : l.policy \in o.defined
    /\ {l.section : l \in {l \in o.lines : l.form = "final"}} = {"final"}
    /\ \A l \in o.lines : l.form # "lines" /\ ~(o.ios /\ l.form = "mac")

(* A configuration that is handed out refers only to what it defines, in its *)
(* groups and rules, ends in the only FINAL, has no rule of several lines    *)
(* and, for iOS, none about processes: whatever was edited between the reads *)
(* of its tables (generator.py 128-342).                                     *)
ServedIsSound == gen.pc = "answered" => Sound(gen.output)

(* What a migration added or removed once is not added again after the user  *)
(* deleted it: in the live database, what is recorded and absent stays       *)
(* absent over stops, starts and releases, whatever the pages do in between  *)
(* (data_migrations.py 3-5).  One exception: a start that finds no region,   *)
(* no default service and no profile of the default name takes the database  *)
(* for a new one and puts all default rows back (bootstrap.py 39-76).        *)
Absent(key, d) ==
    CASE key = "security" -> \A i \in DOMAIN d.rules : d.rules[i].text # SecurityRule.text
      [] key = "douyin"   -> \A i \in DOMAIN d.sources : d.sources[i].name # "DouYin"
      [] OTHER            -> ~d.keyword
DeletedStayDeleted ==
    [][\A key \in {"security", "douyin", "retire"} :
          phase # "up" /\ key \in db.ledger /\ Absent(key, db)
              => Absent(key, db') \/ (Vacant(db) /\ key # "retire")]_vars

(* Once the order is repaired and recorded, no enabled source of the live    *)
(* database is on the wrong side, over later migrations, stops and edits     *)
(* (data_migrations.py 253-309, configs.py 342-433).  Two exceptions         *)
(* disturb it: an edit that writes on a row another edit changed after it    *)
(* was loaded, and default rows put beside those of the user.                *)
OrderOnceRepaired == "order" \in db.ledger /\ ~disturbed => Misplaced(db.sources) = {}

(* A migration leaves alone what is the user's: own sources keep their rows  *)
(* and their order among themselves, own rules and own settings stay (the    *)
(* promises of the docstrings of data_migrations.py).  One setting does not: *)
(* geoip is removed whatever its value (data_migrations.py 112).             *)
OwnSources(d) == {i \in DOMAIN d.sources : ~BuiltinSource(d.sources[i])}
OwnRules(d) == {i \in DOMAIN d.rules : d.rules[i].text \notin {"quic", "stun"} \/ ~GlobalPre(d.rules[i])
                                        \/ (d.rules[i].text = "stun" /\ ~d.rules[i].exact)}
KeepsOwn(d, e) ==
    /\ \A i \in OwnSources(d) : i \in DOMAIN e.sources
                                /\ [e.sources[i] EXCEPT !.order = 0] = [d.sources[i] EXCEPT !.order = 0]
    /\ \A i, j \in OwnSources(d) : Precedes(e.sources, i, j) <=> Precedes(d.sources, i, j)
    /\ \A i \in OwnRules(d) : i \in DOMAIN e.rules /\ e.rules[i] = d.rules[i]
    /\ \A k \in DOMAIN d.general \ {"geoip"} : d.general[k] = "own" => e.general[k] = "own"
OwnRowsKept == [][phase = "keys" /\ phase' # "down" => KeepsOwn(stage, IF phase' = "up" THEN db' ELSE stage')]_vars

(* An action is rewritten only when it resolved to nothing in either         *)
(* language, and then to something that exists in both.  One exception: the  *)
(* group of a region that is stored under the translated name is not looked  *)
(* for (data_migrations.py 185-223, config_validation.py 116-123).           *)
Resolves(n, d, language) == Resolve(n, d, language) \in Available(d, language)
RepairsOnlyDangling ==
    [][phase = "keys" /\ phase' = "keys" =>
          \A i \in DOMAIN stage.sources : stage.sources[i].action # stage'.sources[i].action =>
              \A language \in Languages : LET old == stage.sources[i].action IN
                  /\ Resolves(old, stage, language) =>
                        Translate(old, language)[1] \in AutoRegions(stage) \ {old[1]}
                  /\ Resolves(stage'.sources[i].action, stage', language)]_vars

(* What could be generated before an upgrade can be generated after it: no   *)
(* business migration leaves a reference or an order that the validation     *)
(* refuses, as long as the groups of the default rules are there.            *)
Usable(d) == {"AI", "Mainland"} \subseteq Enabled(d.services)
UpgradeKeepsServing ==
    [][phase = "keys" /\ phase' = "up" /\ db.schema = "0006" /\ Usable(db) =>
          \A a \in Asked : ~Invalid(db, a.language, a.ios) => ~Invalid(db', a.language, a.ios)]_vars

(* 0006 makes one row of the rows of one connection and loses nothing the    *)
(* user set on any of them: pins, a region, being switched off; rows without *)
(* a subscription stay; and whatever the scheduler is to serve has a time    *)
(* for it (0006_subscription_lifecycle.py 286-378).                          *)
Keeps(old, new) ==
    /\ old.pins \subseteq new.pins
    /\ old.enabled \/ ~new.enabled
    /\ old.region = "" \/ new.region # ""
MergeLosesNothing ==
    [][phase = "schema" /\ phase' = "seed" /\ db.schema # "0006" =>
          /\ \A i \in DOMAIN stage.nodes :
                LET n == stage.nodes[i]
                    rows == {j \in DOMAIN stage'.nodes :
                                stage'.nodes[j].sub = n.sub /\ stage'.nodes[j].conn = n.conn}
                IN  IF n.sub = 0 THEN i \in rows /\ stage'.nodes[i] = n
                    ELSE \E j \in rows : rows = {j} /\ Keeps(n, stage'.nodes[j])
          /\ \A i \in DOMAIN stage'.subs : LET s == stage'.subs[i] IN
                /\ s.next # NULL <=> s.enabled /\ s.auto
                /\ s.next # NULL /\ s.last # NULL => s.next \in (s.last + MinInterval)..(s.last + MaxInterval)]_vars

(* A built-in source that still has its old action after the repair resolves *)
(* in some language: what the comment at data_migrations.py:218 says of a    *)
(* region of which any group is generated.                                   *)
DanglingIsRepaired ==
    phase = "keys" /\ "dangling" \in stage.ledger =>
        \A i \in Enabled(stage.sources) :
            LET s == stage.sources[i]
            IN  BuiltinSource(s) /\ s.name \in DOMAIN Legacy /\ s.action = Plain(Legacy[s.name])
                    => \E language \in Languages : Resolves(s.action, stage, language)

===============================================================================
