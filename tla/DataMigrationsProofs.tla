------------------------- MODULE DataMigrationsProofs --------------------------
(***************************************************************************)
(* Proofs about DataMigrations: what a generation hands out, what a start  *)
(* may bring back, reorder or refuse, and what the migrations may write.   *)
(***************************************************************************)
EXTENDS DataMigrations, FiniteSetTheorems, WellFoundedInduction, TLAPS

(* What the validation lets through is sound: a member of a group and the    *)
(* policy of a line are among the names that are defined, and the only FINAL *)
(* is the one of the generator (config_validation.py 126-158).               *)
LEMMA ValidIsSound ==
    ASSUME NEW d, NEW language, NEW ios, ~Invalid(d, language, ios)
    PROVE  Sound(Output(d, language, ios))
<1> DEFINE o == Output(d, language, ios)
           available == Available(d, language)
<1>1. /\ o.defined = available /\ o.groups = Groups(d, language)
      /\ o.lines = RuleLines(d, language, ios) /\ o.ios = ios
  BY DEF Output
<1>2. ~InvalidReference(d, language, ios)
  BY DEF Invalid
<1>3. \A g \in o.groups : g.members \subseteq o.defined
  BY <1>1, <1>2 DEF InvalidReference
<1>4. \A i \in Custom(d, ios) : /\ d.rules[i].form # "text"
                                /\ Resolve(d.rules[i].policy, d, language) \in available
  BY <1>2 DEF InvalidReference
<1>5. \A i \in Enabled(d.sources) : Resolve(d.sources[i].action, d, language) \in available
  BY <1>2 DEF InvalidReference
<1>6. Resolve(d.final, d, language) \in available
  BY <1>2 DEF InvalidReference
<1>7. Plain("DIRECT") \in available
  BY DEF Available, Builtin
<1>8. \A i \in Custom(d, ios) : /\ d.rules[i].form \notin {"final", "lines"}
                                /\ ~(ios /\ d.rules[i].form = "mac")
  BY DEF Invalid, Custom, Enabled, Excluded
<1> DEFINE Allowed(l) == /\ l.policy \in available
                         /\ l.form # "lines" /\ ~(ios /\ l.form = "mac")
                         /\ l.form = "final" => l.section = "final"
<1>9. \A l \in RuleLines(d, language, ios) : Allowed(l)
  <2> SUFFICES ASSUME NEW l \in RuleLines(d, language, ios) PROVE Allowed(l)
    OBVIOUS
  <2>1. CASE \E i \in Custom(d, ios) : l = Line(d.rules[i].position, d.rules[i].form,
                IF d.rules[i].form = "text" THEN NoName ELSE Resolve(d.rules[i].policy, d, language))
    BY <2>1, <1>4, <1>8 DEF Line
  <2>2. CASE \E i \in Enabled(d.sources) :
                l = Line("source", "plain", Resolve(d.sources[i].action, d, language))
    BY <2>2, <1>5 DEF Line
  <2>3. CASE l = Line("lan", "plain", Plain("DIRECT"))
    BY <2>3, <1>7 DEF Line
  <2>4. CASE l = Line("final", "final", Resolve(d.final, d, language))
    BY <2>4, <1>6 DEF Line
  <2> QED BY <2>1, <2>2, <2>3, <2>4 DEF RuleLines
<1>10. Line("final", "final", Resolve(d.final, d, language)) \in RuleLines(d, language, ios)
  BY DEF RuleLines
<1>11. {l.section : l \in {l \in o.lines : l.form = "final"}} = {"final"}
  <2>1. \A l \in o.lines : l.form = "final" => l.section = "final"
    BY <1>1, <1>9
  <2>2. \E l \in o.lines : l.form = "final" /\ l.section = "final"
    BY <1>1, <1>10 DEF Line
  <2> QED BY <2>1, <2>2
<1>12. \A l \in o.lines : l.policy \in o.defined /\ l.form # "lines" /\ ~(o.ios /\ l.form = "mac")
  BY <1>1, <1>9
<1> HIDE DEF o
<1> QED BY <1>3, <1>11, <1>12 DEF Sound, o

(* That gen has a field pc makes ServedIsSound inductive: Read keeps it, and  *)
(* only Answer makes an output.                                              *)
GenInv == "pc" \in DOMAIN gen /\ ServedIsSound

(* The pages are served between the starts only, and edit the live rows.     *)
LEMMA EditIsUp ==
    ASSUME Edit PROVE phase = "up" /\ UNCHANGED <<registry, phase, stage, gen>>
BY DEF Edit, CreateRegion, UpdateRegion, DeleteRegion, CreateService, UpdateService, DeleteService,
    UpdateNode, PinNode, CreateProfile, RenameProfile, UpdateFinal, DeleteProfile, CreateRule,
    UpdateRule, DeleteRule, CreateSource, DeleteSource, UpdateSource, ReorderSources, Load,
    CommitSource, Write

LEMMA SoundStep ==
    ASSUME GenInv, [Next]_vars PROVE GenInv'
<1>1. CASE UNCHANGED gen
  BY <1>1 DEF GenInv, ServedIsSound, Sound
<1>2. CASE gen' = Idle
  BY <1>2 DEF GenInv, ServedIsSound, Idle
<1>3. CASE Generate
  BY <1>3 DEF Generate, GenInv, ServedIsSound
<1>4. CASE Read
  <2>1. CASE gen' = Idle
    BY <2>1, <1>2
  <2>2. CASE gen' # Idle
    <3>1. PICK next, view : gen' = [gen EXCEPT !.next = next, !.view = view]
      BY <1>4, <2>2 DEF Read
    <3>2. "pc" \in DOMAIN gen' /\ gen'.pc = gen.pc
      BY <3>1 DEF GenInv
    <3> QED BY <3>2, <1>4 DEF Read, GenInv, ServedIsSound
  <2> QED BY <2>1, <2>2
<1>5. CASE Answer
  <2>1. PICK a \in Asked :
            IF Invalid(gen.view, a.language, a.ios) THEN gen' = Idle
            ELSE gen' = [pc |-> "answered", output |-> Output(gen.view, a.language, a.ios)]
    BY <1>5 DEF Answer
  <2>2. CASE gen' # Idle
    <3>1. /\ gen' = [pc |-> "answered", output |-> Output(gen.view, a.language, a.ios)]
          /\ ~Invalid(gen.view, a.language, a.ios)
      BY <2>1, <2>2
    <3>2. Sound(Output(gen.view, a.language, a.ios))
      BY <3>1, ValidIsSound
    <3>3. Sound(gen'.output) /\ "pc" \in DOMAIN gen'
      BY <3>1, <3>2
    <3> QED BY <3>3 DEF GenInv, ServedIsSound, Sound
  <2> QED BY <1>2, <2>2
<1>6. CASE Start \/ SyncSchema \/ SeedDefaults \/ ApplyKey \/ Publish \/ NewRelease
  BY <1>6, <1>1 DEF Start, SyncSchema, SeedDefaults, ApplyKey, Publish, NewRelease
<1>7. CASE Edit
  BY <1>7, <1>1, EditIsUp
<1> QED BY <1>1, <1>2, <1>3, <1>4, <1>5, <1>6, <1>7 DEF Next, vars, Stop, Close

(* Whatever the tables hold and whatever is edited between the reads of      *)
(* them, a configuration that is handed out is sound (generator.py 128-342). *)
THEOREM ServedAlwaysSound == Spec => []ServedIsSound
<1>1. Init => GenInv
  BY DEF Init, GenInv, ServedIsSound, Idle
<1>2. GenInv => ServedIsSound
  BY DEF GenInv
<1> QED BY <1>1, <1>2, SoundStep, PTL DEF Spec

-------------------------------------------------------------------------------
(* The migrations *)

(* Only the names, addresses and places of the enabled rows count.           *)
LEMMA SameEnabled ==
    ASSUME NEW s, NEW t, Enabled(t) = Enabled(s),
           \A i \in Enabled(s) : t[i].name = s[i].name /\ t[i].url = s[i].url /\ t[i].order = s[i].order
    PROVE  Misplaced(t) = Misplaced(s)
<1>1. \A i \in Enabled(s) : Categories(t[i]) = Categories(s[i])
  BY DEF Categories, BuiltinSource
<1>2. \A i, j \in Enabled(s) : Precedes(t, i, j) <=> Precedes(s, i, j)
  BY DEF Precedes
<1> QED BY <1>1, <1>2 DEF Misplaced

(* Rows that differ in their action and flags only are in the same order.    *)
LEMMA SameOrder ==
    ASSUME NEW s, NEW t, DOMAIN t = DOMAIN s,
           \A i \in DOMAIN s : \A c \in SourceColumns \ {"action"} : t[i][c] = s[i][c]
    PROVE  Misplaced(t) = Misplaced(s)
<1>1. \A i \in DOMAIN s : /\ t[i].name = s[i].name /\ t[i].url = s[i].url
                          /\ t[i].enabled = s[i].enabled /\ t[i].order = s[i].order
  BY DEF SourceColumns
<1>2. Enabled(t) = Enabled(s)
  BY <1>1 DEF Enabled
<1> QED BY <1>1, <1>2, SameEnabled DEF Enabled

(* Fewer rows have fewer pairs that are the wrong way round.                 *)
LEMMA FewerOrder ==
    ASSUME NEW s, NEW gone, Misplaced(s) = {}
    PROVE  Misplaced(Without(s, gone)) = {}
<1> DEFINE t == Without(s, gone)
<1>1. DOMAIN t \subseteq DOMAIN s /\ \A i \in DOMAIN t : t[i] = s[i]
  BY DEF Without
<1> HIDE DEF t
<1>2. Enabled(t) \subseteq Enabled(s)
  BY <1>1 DEF Enabled
<1>3. \A i \in Enabled(t) : t[i] = s[i]
  BY <1>1 DEF Enabled
<1>4. Misplaced(t) \subseteq Misplaced(s)
  BY <1>2, <1>3 DEF Misplaced, Precedes
<1> QED BY <1>4 DEF t

(* What a migration other than its own leaves as it was.                     *)
Tame(d, e) ==
    /\ DOMAIN e = DOMAIN d
    /\ e.ledger = d.ledger /\ e.profile = d.profile
    /\ \A i \in DOMAIN e.sources : SourceColumns \subseteq DOMAIN e.sources[i]
KeepsOrder(d, e) == Misplaced(d.sources) = {} => Misplaced(e.sources) = {}
KeepsAbsent(key, d, e) == Absent(key, d) => Absent(key, e)

LEMMA OtherColumns ==
    ASSUME NEW d, NEW e, WellFormed(d), DOMAIN e = DOMAIN d,
           \A c \in {"ledger", "profile", "keyword", "rules", "sources"} : e[c] = d[c]
    PROVE  /\ Tame(d, e) /\ KeepsOrder(d, e)
           /\ \A key \in {"security", "douyin", "retire"} : KeepsAbsent(key, d, e)
<1>1. e.ledger = d.ledger /\ e.profile = d.profile /\ e.keyword = d.keyword
      /\ e.rules = d.rules /\ e.sources = d.sources
  BY DEF WellFormed, Tables
<1> QED BY <1>1 DEF Tame, KeepsOrder, KeepsAbsent, Absent, WellFormed

(* Rules are removed, or one is added by the security migration.             *)
LEMMA RulesOnly ==
    ASSUME NEW d, NEW e, WellFormed(d), DOMAIN e = DOMAIN d,
           \A c \in DOMAIN d \ {"rules"} : e[c] = d[c]
    PROVE  /\ Tame(d, e) /\ KeepsOrder(d, e)
           /\ \A key \in {"douyin", "retire"} : KeepsAbsent(key, d, e)
<1>1. e.ledger = d.ledger /\ e.profile = d.profile /\ e.keyword = d.keyword
      /\ e.sources = d.sources
  BY DEF WellFormed, Tables
<1> QED BY <1>1 DEF Tame, KeepsOrder, KeepsAbsent, Absent, WellFormed

LEMMA RulesRemoved ==
    ASSUME NEW d, NEW e, WellFormed(d), NEW gone, e = [d EXCEPT !.rules = Without(@, gone)]
    PROVE  /\ Tame(d, e) /\ KeepsOrder(d, e)
           /\ \A key \in {"security", "douyin", "retire"} : KeepsAbsent(key, d, e)
<1>1. DOMAIN e = DOMAIN d /\ \A c \in DOMAIN d \ {"rules"} : e[c] = d[c]
  OBVIOUS
<1>2. e.rules = Without(d.rules, gone)
  BY DEF WellFormed, Tables
<1>3. KeepsAbsent("security", d, e)
  BY <1>2 DEF KeepsAbsent, Absent, Without
<1> QED BY <1>1, <1>3, RulesOnly

(* Only the named columns of the sources are written.                        *)
LEMMA SourcesOnly ==
    ASSUME NEW d, NEW e, WellFormed(d), DOMAIN e = DOMAIN d,
           \A c \in DOMAIN d \ {"sources"} : e[c] = d[c],
           DOMAIN e.sources = DOMAIN d.sources,
           \A i \in DOMAIN d.sources : /\ DOMAIN e.sources[i] = DOMAIN d.sources[i]
                                       /\ e.sources[i].name = d.sources[i].name
    PROVE  Tame(d, e) /\ \A key \in {"security", "douyin", "retire"} : KeepsAbsent(key, d, e)
<1>1. e.ledger = d.ledger /\ e.profile = d.profile /\ e.keyword = d.keyword /\ e.rules = d.rules
  BY DEF WellFormed, Tables
<1> QED BY <1>1 DEF Tame, KeepsAbsent, Absent, WellFormed

Watched == {"security", "douyin", "retire"}

LEMMA DouyinIsTame ==
    ASSUME NEW d, WellFormed(d)
    PROVE  /\ Tame(d, DouyinRule(d))
           /\ \A key \in Watched \ {"douyin"} : KeepsAbsent(key, d, DouyinRule(d))
<1> DEFINE e == DouyinRule(d)
           s == Shifted(d.sources, Defaults["DouYin"].order)
           row == DefaultSource("DouYin")
<1>1. CASE e = d
  BY <1>1 DEF Tame, KeepsAbsent, WellFormed
<1>2. CASE e # d
  <2>1. e = [d EXCEPT !.sources = Insert(s, row)]
    BY <1>2 DEF DouyinRule
  <2>2. DOMAIN e = DOMAIN d /\ e.sources = Insert(s, row) /\ e.ledger = d.ledger
        /\ e.profile = d.profile /\ e.keyword = d.keyword /\ e.rules = d.rules
    BY <2>1 DEF WellFormed, Tables
  <2>3. SourceColumns \subseteq DOMAIN row
    BY DEF DefaultSource, SourceColumns
  <2>4. DOMAIN s = DOMAIN d.sources
        /\ \A i \in DOMAIN s : DOMAIN s[i] = DOMAIN d.sources[i]
    BY DEF Shifted
  <2>5. \A i \in DOMAIN s : SourceColumns \subseteq DOMAIN s[i]
    BY <2>4 DEF WellFormed, Tables
  <2> HIDE DEF s, row, e
  <2>6. \A i \in DOMAIN Insert(s, row) : SourceColumns \subseteq DOMAIN Insert(s, row)[i]
    BY <2>3, <2>5 DEF Insert
  <2>7. Tame(d, e)
    BY <2>2, <2>6 DEF Tame
  <2>8. KeepsAbsent("security", d, e) /\ KeepsAbsent("retire", d, e)
    BY <2>2 DEF KeepsAbsent, Absent
  <2> QED BY <2>7, <2>8 DEF Watched, e
<1> QED BY <1>1, <1>2

LEMMA SecurityIsTame ==
    ASSUME NEW d, WellFormed(d)
    PROVE  /\ Tame(d, SecurityRules(d)) /\ KeepsOrder(d, SecurityRules(d))
           /\ \A key \in Watched \ {"security"} : KeepsAbsent(key, d, SecurityRules(d))
<1> DEFINE e == SecurityRules(d)
<1>1. CASE e = d
  BY <1>1 DEF Tame, KeepsAbsent, KeepsOrder, WellFormed
<1>2. CASE e # d
  <2>1. e = [d EXCEPT !.rules = Insert(d.rules, SecurityRule)]
    BY <1>2 DEF SecurityRules
  <2>2. DOMAIN e = DOMAIN d /\ \A c \in DOMAIN d \ {"rules"} : e[c] = d[c]
    BY <2>1
  <2> QED BY <2>2, RulesOnly DEF Watched
<1> QED BY <1>1, <1>2

LEMMA KeywordsAreTame ==
    ASSUME NEW d, WellFormed(d), NEW value
    PROVE  LET e == [d EXCEPT !.keyword = value]
           IN  /\ Tame(d, e) /\ KeepsOrder(d, e)
               /\ \A key \in {"security", "douyin"} : KeepsAbsent(key, d, e)
               /\ value = FALSE => KeepsAbsent("retire", d, e)
<1> DEFINE e == [d EXCEPT !.keyword = value]
<1>1. DOMAIN e = DOMAIN d /\ e.ledger = d.ledger /\ e.profile = d.profile
      /\ e.sources = d.sources /\ e.rules = d.rules /\ e.keyword = value
  BY DEF WellFormed, Tables
<1> HIDE DEF e
<1>2. Tame(d, e) /\ KeepsOrder(d, e)
  BY <1>1 DEF Tame, KeepsOrder, WellFormed
<1>3. \A key \in {"security", "douyin"} : KeepsAbsent(key, d, e)
  BY <1>1 DEF KeepsAbsent, Absent
<1>4. value = FALSE => KeepsAbsent("retire", d, e)
  BY <1>1 DEF KeepsAbsent, Absent
<1> QED BY <1>2, <1>3, <1>4 DEF e

LEMMA ActionsAndFlagsAreTame ==
    ASSUME NEW d, WellFormed(d), NEW e, e \in {DanglingActions(d), IpFlags(d)}
    PROVE  Tame(d, e) /\ KeepsOrder(d, e) /\ \A key \in Watched : KeepsAbsent(key, d, e)
<1>1. DOMAIN e = DOMAIN d /\ \A c \in DOMAIN d \ {"sources"} : e[c] = d[c]
  BY DEF DanglingActions, IpFlags
<1>2. /\ DOMAIN e.sources = DOMAIN d.sources
      /\ \A i \in DOMAIN d.sources : /\ DOMAIN e.sources[i] = DOMAIN d.sources[i]
                                      /\ \A c \in SourceColumns \ {"action"} : e.sources[i][c] = d.sources[i][c]
  <2>1. CASE e = DanglingActions(d)
    <3> DEFINE fallback == Plain(IF "Global" \in Enabled(d.services) THEN "Global" ELSE "DIRECT")
               s == [i \in DOMAIN d.sources |->
                        IF Dangling(d, d.sources[i]) THEN [d.sources[i] EXCEPT !.action = fallback]
                        ELSE d.sources[i]]
    <3>1. e = [d EXCEPT !.sources = s]
      BY <2>1 DEF DanglingActions
    <3> HIDE DEF fallback
    <3>2. e.sources = s
      <4> HIDE DEF s
      <4> QED BY <3>1 DEF WellFormed, Tables
    <3> QED BY <3>2 DEF WellFormed, Tables, SourceColumns
  <2>2. CASE e = IpFlags(d)
    <3> DEFINE s == [i \in DOMAIN d.sources |-> Flagged(d.sources[i])]
    <3>1. e = [d EXCEPT !.sources = s]
      BY <2>2 DEF IpFlags
    <3>2. e.sources = s
      <4> HIDE DEF s
      <4> QED BY <3>1 DEF WellFormed, Tables
    <3> QED BY <3>2 DEF Flagged, WellFormed, SourceColumns
  <2> QED BY <2>1, <2>2
<1>3. KeepsOrder(d, e)
  BY <1>2, SameOrder DEF KeepsOrder
<1>4. \A i \in DOMAIN d.sources : e.sources[i].name = d.sources[i].name
  BY <1>2 DEF SourceColumns
<1> QED BY <1>1, <1>2, <1>3, <1>4, SourcesOnly DEF Watched

LEMMA RepairIsTame ==
    ASSUME NEW d, WellFormed(d)
    PROVE  /\ Tame(d, OrderRepaired(d)) /\ OrderRepaired(d).sources = Repaired(d.sources)
           /\ \A key \in Watched : KeepsAbsent(key, d, OrderRepaired(d))
<1> DEFINE e == OrderRepaired(d)
           crossing == UNION {{p[1], p[2]} : p \in Misplaced(d.sources)}
<1>1. DOMAIN e = DOMAIN d /\ \A c \in DOMAIN d \ {"sources"} : e[c] = d[c]
  BY DEF OrderRepaired
<1>2. e.sources = Repaired(d.sources)
  BY DEF OrderRepaired, WellFormed
<1>3. Repaired(d.sources) = [i \in DOMAIN d.sources |->
            IF i \in crossing THEN [d.sources[i] EXCEPT !.order = Defaults[d.sources[i].name].order]
            ELSE d.sources[i]]
  BY DEF Repaired
<1> HIDE DEF crossing, e
<1>4. /\ DOMAIN e.sources = DOMAIN d.sources
      /\ \A i \in DOMAIN d.sources : /\ DOMAIN e.sources[i] = DOMAIN d.sources[i]
                                      /\ e.sources[i].name = d.sources[i].name
  BY <1>2, <1>3 DEF WellFormed, Tables, SourceColumns
<1>5. Tame(d, e) /\ \A key \in Watched : KeepsAbsent(key, d, e)
  BY <1>1, <1>4, SourcesOnly DEF Watched
<1> QED BY <1>2, <1>5 DEF e

(* A migration other than the one that makes a row leaves its absence alone, *)
(* and only those of DouYin and of the order move sources.                   *)
EffectOk(key, d, e) ==
    /\ Tame(d, e)
    /\ key \notin {"douyin", "order"} => KeepsOrder(d, e)
    /\ key = "order" => e.sources = Repaired(d.sources)
    /\ key # "security" => KeepsAbsent("security", d, e)
    /\ key # "douyin" => KeepsAbsent("douyin", d, e)
    /\ key # "keywords" => KeepsAbsent("retire", d, e)

LEMMA EffectIsOk ==
    ASSUME NEW d, NEW key, WellFormed(d)
    PROVE  EffectOk(key, d, Effect(key, d))
<1>1. CASE key = "security"
  BY <1>1, SecurityIsTame DEF EffectOk, Effect, Watched
<1>2. CASE key = "douyin"
  BY <1>2, DouyinIsTame DEF EffectOk, Effect, Watched
<1>3. CASE key = "ipv6"
  <2>1. DOMAIN Ipv6Vif(d) = DOMAIN d
        /\ \A c \in {"ledger", "profile", "keyword", "rules", "sources"} : Ipv6Vif(d)[c] = d[c]
    BY DEF Ipv6Vif, WellFormed
  <2> QED BY <1>3, <2>1, OtherColumns DEF EffectOk, Effect
<1>4. CASE key = "dns"
  <2>1. PICK general : DnsDefaults(d) = [d EXCEPT !.general = general]
    BY DEF DnsDefaults
  <2>2. DOMAIN DnsDefaults(d) = DOMAIN d
        /\ \A c \in {"ledger", "profile", "keyword", "rules", "sources"} : DnsDefaults(d)[c] = d[c]
    BY <2>1 DEF WellFormed, Tables
  <2> QED BY <1>4, <2>2, OtherColumns DEF EffectOk, Effect
<1>5. CASE key = "quic"
  <2>1. PICK gone : RemoveGlobalQuic(d) = [d EXCEPT !.rules = Without(@, gone)]
    BY DEF RemoveGlobalQuic
  <2> QED BY <1>5, <2>1, RulesRemoved DEF EffectOk, Effect
<1>6. CASE key = "keywords"
  BY <1>6, KeywordsAreTame DEF EffectOk, Effect, NoResolveKeywords
<1>7. CASE key \in {"dangling", "ipflags"}
  BY <1>7, ActionsAndFlagsAreTame DEF EffectOk, Effect, Watched
<1>8. CASE key = "order"
  BY <1>8, RepairIsTame DEF EffectOk, Effect, Watched
<1>9. CASE key = "retire"
  BY <1>9, KeywordsAreTame DEF EffectOk, Effect, RetireKeywords
<1>10. CASE key = "udp"
  <2>1. PICK gone : UdpModes(d) = [d EXCEPT !.rules = Without(@, gone)]
    BY DEF UdpModes
  <2> QED BY <1>10, <2>1, RulesRemoved DEF EffectOk, Effect
<1>11. CASE key \notin {"security", "douyin", "ipv6", "dns", "quic", "keywords", "dangling",
                      "ipflags", "order", "retire", "udp"}
  <2>1. Effect(key, d) = d
    BY <1>11 DEF Effect
  <2> QED BY <2>1, <1>11, OtherColumns DEF EffectOk
<1> QED BY <1>1, <1>2, <1>3, <1>4, <1>5, <1>6, <1>7, <1>8, <1>9, <1>10, <1>11

(* The registry is in the order the migrations were published: before the    *)
(* order is repaired DouYin is recorded, before the keywords are retired     *)
(* their key was added.                                                      *)
RegistryOk == registry \in {Published, Append(Published, "later")}

LEMMA EarlierRecorded ==
    ASSUME RegistryOk, NEW d, NEW i \in Pending(d), \A j \in Pending(d) : i <= j
    PROVE  /\ registry[i] = "order" => "douyin" \in d.ledger
           /\ registry[i] = "retire" => "keywords" \in d.ledger
           /\ registry[i] \notin d.ledger
<1>1. /\ {2, 6} \subseteq DOMAIN registry /\ registry[2] = "douyin" /\ registry[6] = "keywords"
      /\ i \in Nat /\ (registry[i] = "order" => i = 9) /\ (registry[i] = "retire" => i = 10)
  <2>1. CASE registry = Published
    BY <2>1 DEF Published, Pending
  <2>2. CASE registry = Append(Published, "later")
    BY <2>2 DEF Published, Pending
  <2> QED BY <2>1, <2>2 DEF RegistryOk
<1>2. \A j \in DOMAIN registry : registry[j] \notin d.ledger => i <= j
  BY DEF Pending
<1> QED BY <1>1, <1>2 DEF Pending

-------------------------------------------------------------------------------
(* What is the user's, and numbers *)

(* A set of numbers that is not empty has a least element: what the smaller  *)
(* rank of a survivor and the next id of a table rest on.                    *)
LEMMA LeastNatural ==
    ASSUME NEW T \in SUBSET Nat, T # {}
    PROVE  \E n \in T : \A m \in T : n <= m
<1> DEFINE Below == OpToRel(<, Nat)
<1>1. T \subseteq Nat /\ T # {}
  OBVIOUS
<1>2. IsWellFoundedOn(Below, Nat)
  BY Zenon, NatLessThanWellFounded
<1>3. \A x, y \in Nat : x < y => <<x, y>> \in Below
  BY Zenon DEF OpToRel
<1> HIDE DEF Below
<1>4. PICK x \in T : \A y \in T : ~(<<y, x>> \in Below)
  BY <1>1, <1>2, WFMin
<1>5. ASSUME NEW y \in T PROVE x <= y
  <2>1. x \in Nat /\ y \in Nat
    BY <1>1
  <2>2. ~(y < x)
    BY <2>1, <1>3, <1>4
  <2> QED
    BY <2>1, <2>2
<1> QED
  BY <1>5

(* The finite sets of numbers have a bound and, when they are not empty, a   *)
(* greatest element.                                                         *)
LEMMA FiniteIsBounded ==
    ASSUME NEW S \in SUBSET Nat, IsFiniteSet(S)
    PROVE  \E m \in Nat : \A i \in S : i <= m
<1> DEFINE Bounded(T) == \E m \in Nat : \A i \in T : i <= m
           Bad == {n \in Nat : \E T \in SUBSET Nat : IsFiniteSet(T) /\ Cardinality(T) = n /\ ~Bounded(T)}
<1> SUFFICES ASSUME ~Bounded(S) PROVE FALSE
  OBVIOUS
<1>1. Bad \in SUBSET Nat /\ Bad # {}
  BY FS_CardinalityType
<1> HIDE DEF Bad
<1>2. PICK n \in Bad : \A k \in Bad : n <= k
  BY <1>1, LeastNatural
<1>3. PICK T \in SUBSET Nat : IsFiniteSet(T) /\ Cardinality(T) = n /\ ~Bounded(T)
  BY <1>2 DEF Bad
<1>4. T # {}
  <2>1. 0 \in Nat /\ \A i \in {} : i <= 0
    OBVIOUS
  <2> QED BY <2>1, <1>3
<1>5. PICK x : x \in T
  BY <1>4
<1>6. /\ IsFiniteSet(T \ {x}) /\ Cardinality(T \ {x}) = n - 1
      /\ n # 0 /\ n \in Nat
  BY <1>1, <1>2, <1>3, <1>4, <1>5, FS_RemoveElement, FS_EmptySet
<1>7. n - 1 \in Nat /\ n - 1 \notin Bad
  BY <1>1, <1>2, <1>6
<1>8. Bounded(T \ {x})
  BY <1>6, <1>7 DEF Bad
<1>9. PICK m \in Nat : \A i \in T \ {x} : i <= m
  BY <1>8
<1> DEFINE k == IF m <= x THEN x ELSE m
<1>10. x \in Nat /\ k \in Nat /\ x <= k /\ m <= k
  BY <1>5
<1> HIDE DEF k
<1>11. \A i \in T : i <= k
  <2> SUFFICES ASSUME NEW i \in T PROVE i <= k
    OBVIOUS
  <2>1. i \in Nat
    BY <1>3
  <2> QED BY <2>1, <1>9, <1>10
<1> QED BY <1>3, <1>10, <1>11

LEMMA MaxIsGreatest ==
    ASSUME NEW S \in SUBSET Nat, IsFiniteSet(S), S # {}
    PROVE  Max(S) \in S /\ \A y \in S : y <= Max(S)
<1> DEFINE above == {m \in Nat : \A i \in S : i <= m}
<1>1. above \in SUBSET Nat /\ above # {}
  BY FiniteIsBounded
<1>2. PICK m \in above : \A k \in above : m <= k
  BY <1>1, LeastNatural
<1>3. m \in Nat /\ \A i \in S : i <= m
  BY <1>2
<1>4. m \in S
  <2> SUFFICES ASSUME m \notin S PROVE FALSE
    OBVIOUS
  <2>0. PICK y : y \in S /\ y \in Nat
    OBVIOUS
  <2>1. m # 0
    BY <1>3, <2>0
  <2>2. m - 1 \in Nat /\ \A i \in S : i <= m - 1
    BY <1>3, <2>1
  <2>3. m - 1 \in above
    BY <2>2
  <2> HIDE DEF above
  <2> QED BY <1>2, <1>3, <2>3
<1>5. \E x \in S : \A y \in S : x >= y
  BY <1>3, <1>4
<1>6. Max(S) \in S /\ \A y \in S : Max(S) >= y
  BY <1>5 DEF Max
<1> QED BY <1>6

\* The next id of a table is not used.
LEMMA InsertIsFresh ==
    ASSUME NEW rows, DOMAIN rows \subseteq Nat, IsFiniteSet(DOMAIN rows), NEW row
    PROVE  \E id \in Nat \ DOMAIN rows :
              /\ DOMAIN Insert(rows, row) = DOMAIN rows \cup {id}
              /\ Insert(rows, row)[id] = row
              /\ \A i \in DOMAIN rows : Insert(rows, row)[i] = rows[i]
<1> DEFINE ids == {0} \cup DOMAIN rows
           top == Max(ids)
           id == 1 + top
<1>1. ids \in SUBSET Nat /\ ids # {} /\ IsFiniteSet(ids)
  BY FS_AddElement
<1>2. top \in ids /\ \A y \in ids : y <= top
  BY <1>1, MaxIsGreatest
<1>3. id \in Nat \ DOMAIN rows
  <2>1. id \in Nat /\ id \notin ids
    <3> HIDE DEF ids, top
    <3> QED BY <1>1, <1>2
  <2> QED BY <2>1
<1>4. Insert(rows, row) = [i \in DOMAIN rows \cup {id} |-> IF i = id THEN row ELSE rows[i]]
  BY DEF Insert
<1> HIDE DEF id
<1> QED BY <1>3, <1>4

\* The ids of a table.
IdsOk(rows) == DOMAIN rows \subseteq Nat /\ IsFiniteSet(DOMAIN rows)

LEMMA IdsKept ==
    ASSUME NEW rows, IdsOk(rows)
    PROVE  /\ \A row : IdsOk(Insert(rows, row))
           /\ \A gone : IdsOk(Without(rows, gone))
           /\ \A row : \A i \in DOMAIN rows : i \in DOMAIN Insert(rows, row) /\ Insert(rows, row)[i] = rows[i]
           /\ \A row : \A i \in DOMAIN Insert(rows, row) :
                    Insert(rows, row)[i] = row \/ (i \in DOMAIN rows /\ Insert(rows, row)[i] = rows[i])
<1>1. ASSUME NEW row
      PROVE  /\ IdsOk(Insert(rows, row))
             /\ \A i \in DOMAIN rows : i \in DOMAIN Insert(rows, row) /\ Insert(rows, row)[i] = rows[i]
             /\ \A i \in DOMAIN Insert(rows, row) :
                    Insert(rows, row)[i] = row \/ (i \in DOMAIN rows /\ Insert(rows, row)[i] = rows[i])
  <2>1. PICK id \in Nat \ DOMAIN rows :
              /\ DOMAIN Insert(rows, row) = DOMAIN rows \cup {id}
              /\ Insert(rows, row)[id] = row
              /\ \A i \in DOMAIN rows : Insert(rows, row)[i] = rows[i]
    BY InsertIsFresh DEF IdsOk
  <2>2. IsFiniteSet(DOMAIN rows \cup {id})
    BY FS_AddElement DEF IdsOk
  <2> QED BY <2>1, <2>2 DEF IdsOk
<1>2. ASSUME NEW gone PROVE IdsOk(Without(rows, gone))
  <2>1. DOMAIN Without(rows, gone) \in SUBSET (DOMAIN rows)
    BY DEF Without
  <2> QED BY <2>1, FS_Subset DEF IdsOk
<1> QED BY <1>1, <1>2

(* A migration that writes one table keeps what is the user's when it keeps  *)
(* it in this table.                                                         *)
SourcesKept(s, t) ==
    /\ \A i \in DOMAIN s : ~BuiltinSource(s[i]) =>
            i \in DOMAIN t /\ [t[i] EXCEPT !.order = 0] = [s[i] EXCEPT !.order = 0]
    /\ \A i, j \in DOMAIN s : ~BuiltinSource(s[i]) /\ ~BuiltinSource(s[j]) =>
            (Precedes(t, i, j) <=> Precedes(s, i, j))
SourcesOk(s) == IdsOk(s) /\ \A i \in DOMAIN s : s[i].order \in Int

LEMMA NumberedParts ==
    ASSUME NEW d PROVE Numbered(d) <=> IdsOk(d.rules) /\ SourcesOk(d.sources)
BY DEF Numbered, IdsOk, SourcesOk

LEMMA SourcesWritten ==
    ASSUME NEW d, WellFormed(d), Numbered(d), NEW t, SourcesOk(t), SourcesKept(d.sources, t)
    PROVE  LET e == [d EXCEPT !.sources = t] IN Numbered(e) /\ KeepsOwn(d, e)
<1> DEFINE e == [d EXCEPT !.sources = t]
<1>1. e.sources = t /\ e.rules = d.rules /\ e.general = d.general
  BY DEF WellFormed, Tables
<1> HIDE DEF e
<1>2. Numbered(e)
  BY <1>1, NumberedParts
<1>3. KeepsOwn(d, e)
  BY <1>1 DEF KeepsOwn, SourcesKept, OwnSources, OwnRules
<1> QED BY <1>2, <1>3 DEF e

LEMMA RulesWritten ==
    ASSUME NEW d, WellFormed(d), Numbered(d), NEW t, IdsOk(t),
           \A i \in OwnRules(d) : i \in DOMAIN t /\ t[i] = d.rules[i]
    PROVE  LET e == [d EXCEPT !.rules = t] IN Numbered(e) /\ KeepsOwn(d, e)
<1> DEFINE e == [d EXCEPT !.rules = t]
<1>1. e.sources = d.sources /\ e.rules = t /\ e.general = d.general
  BY DEF WellFormed, Tables
<1> HIDE DEF e
<1>2. Numbered(e)
  BY <1>1, NumberedParts
<1>3. KeepsOwn(d, e)
  BY <1>1 DEF KeepsOwn, OwnSources
<1> QED BY <1>2, <1>3 DEF e

LEMMA GeneralWritten ==
    ASSUME NEW d, WellFormed(d), Numbered(d), NEW t,
           \A k \in DOMAIN d.general \ {"geoip"} : d.general[k] = "own" => t[k] = "own"
    PROVE  LET e == [d EXCEPT !.general = t] IN Numbered(e) /\ KeepsOwn(d, e)
<1> DEFINE e == [d EXCEPT !.general = t]
<1>1. e.sources = d.sources /\ e.rules = d.rules /\ e.general = t
  BY DEF WellFormed, Tables
<1> HIDE DEF e
<1>2. Numbered(e)
  BY <1>1, NumberedParts
<1>3. KeepsOwn(d, e)
  BY <1>1 DEF KeepsOwn, OwnSources, OwnRules
<1> QED BY <1>2, <1>3 DEF e

LEMMA NothingWritten ==
    ASSUME NEW d, Numbered(d), NEW e,
           e.sources = d.sources, e.rules = d.rules, e.general = d.general
    PROVE  Numbered(e) /\ KeepsOwn(d, e)
<1>1. Numbered(e)
  BY NumberedParts
<1>2. KeepsOwn(d, e)
  BY DEF KeepsOwn, OwnSources, OwnRules
<1> QED BY <1>1, <1>2

(* The room made for DouYin keeps the rows that were before each other.      *)
LEMMA ShiftKeeps ==
    ASSUME NEW s, SourcesOk(s), \A i \in DOMAIN s : SourceColumns \subseteq DOMAIN s[i],
           NEW at \in Int, NEW row, row.order \in Int
    PROVE  LET t == Insert(Shifted(s, at), row) IN SourcesOk(t) /\ SourcesKept(s, t)
<1> DEFINE u == Shifted(s, at)
           t == Insert(u, row)
<1>1. /\ DOMAIN u = DOMAIN s
      /\ \A i \in DOMAIN s : u[i] = IF s[i].order >= at THEN [s[i] EXCEPT !.order = s[i].order + 1] ELSE s[i]
  BY DEF Shifted
<1> HIDE DEF u
<1>2. \A i \in DOMAIN s : s[i].order \in Int /\ "order" \in DOMAIN s[i]
  BY DEF SourcesOk, SourceColumns
<1>3. \A i \in DOMAIN s : u[i].order = IF s[i].order >= at THEN s[i].order + 1 ELSE s[i].order
  BY <1>1, <1>2
<1>4. \A i \in DOMAIN s : [u[i] EXCEPT !.order = 0] = [s[i] EXCEPT !.order = 0]
  BY <1>1, <1>2
<1>5. \A i \in DOMAIN s : u[i].order \in Int
  BY <1>2, <1>3
<1>6. \A i, j \in DOMAIN s : (u[i].order < u[j].order <=> s[i].order < s[j].order)
                             /\ (u[i].order = u[j].order <=> s[i].order = s[j].order)
  BY <1>2, <1>3
<1>7. IdsOk(u)
  BY <1>1 DEF SourcesOk, IdsOk
<1>8. /\ IdsOk(t) /\ \A i \in DOMAIN u : i \in DOMAIN t /\ t[i] = u[i]
      /\ \A i \in DOMAIN t : t[i] = row \/ (i \in DOMAIN u /\ t[i] = u[i])
  BY <1>7, IdsKept
<1> HIDE DEF t
<1>9. SourcesOk(t)
  BY <1>1, <1>5, <1>8 DEF SourcesOk
<1>10. \A i, j \in DOMAIN s : Precedes(t, i, j) <=> Precedes(s, i, j)
  BY <1>1, <1>6, <1>8 DEF Precedes
<1>11. SourcesKept(s, t)
  BY <1>1, <1>4, <1>8, <1>10 DEF SourcesKept
<1> QED BY <1>9, <1>11 DEF t, u

(* What only writes built-in sources keeps the others.                       *)
LEMMA BuiltinWritten ==
    ASSUME NEW s, SourcesOk(s), NEW t, DOMAIN t = DOMAIN s,
           \A i \in DOMAIN s : t[i].order \in Int,
           \A i \in DOMAIN s : ~BuiltinSource(s[i]) => t[i] = s[i]
    PROVE  SourcesOk(t) /\ SourcesKept(s, t)
<1>1. SourcesOk(t)
  BY DEF SourcesOk, IdsOk
<1>2. SourcesKept(s, t)
  BY DEF SourcesKept, Precedes
<1> QED BY <1>1, <1>2

LEMMA EffectKeepsOwn ==
    ASSUME NEW d, WellFormed(d), Numbered(d), NEW key
    PROVE  Numbered(Effect(key, d)) /\ KeepsOwn(d, Effect(key, d))
<1> DEFINE s == d.sources
<1>1. /\ IdsOk(d.rules) /\ SourcesOk(s) /\ Tables \subseteq DOMAIN d
      /\ \A i \in DOMAIN s : SourceColumns \subseteq DOMAIN s[i]
  BY NumberedParts DEF WellFormed
<1>2. Numbered(d) /\ KeepsOwn(d, d)
  BY NothingWritten
<1> HIDE DEF s
<1>3. ASSUME NEW t, SourcesOk(t), SourcesKept(s, t), Effect(key, d) = [d EXCEPT !.sources = t]
      PROVE  Numbered(Effect(key, d)) /\ KeepsOwn(d, Effect(key, d))
  BY <1>3, SourcesWritten DEF s
<1>4. CASE key = "security"
  <2>1. \A i \in OwnRules(d) : i \in DOMAIN Insert(d.rules, SecurityRule)
                               /\ Insert(d.rules, SecurityRule)[i] = d.rules[i]
    BY <1>1, IdsKept DEF OwnRules
  <2>2. IdsOk(Insert(d.rules, SecurityRule))
    BY <1>1, IdsKept
  <2> QED BY <1>2, <1>4, <2>1, <2>2, RulesWritten DEF Effect, SecurityRules
<1>5. CASE key = "douyin"
  <2> DEFINE at == Defaults["DouYin"].order
             row == DefaultSource("DouYin")
             t == Insert(Shifted(s, at), row)
  <2>1. at \in Int /\ row.order \in Int
    BY DefaultsAssumption DEF DefaultSource
  <2>2. Effect(key, d) = d \/ Effect(key, d) = [d EXCEPT !.sources = t]
    BY <1>5 DEF Effect, DouyinRule, s
  <2> HIDE DEF at, row
  <2>3. SourcesOk(t) /\ SourcesKept(s, t)
    BY <1>1, <2>1, ShiftKeeps
  <2> HIDE DEF t
  <2> QED BY <1>2, <1>3, <2>2, <2>3
<1>6. CASE key = "ipv6"
  <2> DEFINE t == [d.general EXCEPT !.ipv6 = "new"]
  <2>1. Effect(key, d) = d \/ (d.general.ipv6 = "old" /\ Effect(key, d) = [d EXCEPT !.general = t])
    BY <1>6 DEF Effect, Ipv6Vif
  <2>2. d.general.ipv6 = "old" => \A k \in DOMAIN d.general : d.general[k] = "own" => t[k] = "own"
    OBVIOUS
  <2> HIDE DEF t
  <2> QED BY <1>2, <2>1, <2>2, GeneralWritten
<1>7. CASE key = "dns"
  <2>1. PICK t : /\ Effect(key, d) = [d EXCEPT !.general = t]
                 /\ \A k \in DOMAIN d.general \ {"geoip"} : d.general[k] = "own" => t[k] = "own"
    <3> DEFINE t == [k \in DOMAIN d.general |->
                        IF k = "geoip" THEN "absent"
                        ELSE IF (k = "quic" /\ d.general[k] = "absent")
                                \/ (k \in {"encrypted", "hijack", "dashboard"} /\ d.general[k] = "old")
                        THEN "new" ELSE d.general[k]]
    <3>1. Effect(key, d) = [d EXCEPT !.general = t]
      BY <1>7 DEF Effect, DnsDefaults
    <3>2. \A k \in DOMAIN d.general \ {"geoip"} : d.general[k] = "own" => t[k] = "own"
      OBVIOUS
    <3> QED BY <3>1, <3>2
  <2> QED BY <2>1, GeneralWritten
<1>8. CASE key \in {"quic", "udp"}
  <2>1. PICK gone : /\ Effect(key, d) = [d EXCEPT !.rules = Without(d.rules, gone)]
                    /\ gone \cap OwnRules(d) = {}
    <3>1. CASE key = "quic"
      <4> DEFINE g == {i \in DOMAIN d.rules : GlobalPre(d.rules[i]) /\ d.rules[i].text = "quic"}
      <4>1. Effect(key, d) = [d EXCEPT !.rules = Without(d.rules, g)]
        BY <3>1 DEF Effect, RemoveGlobalQuic
      <4>2. g \cap OwnRules(d) = {}
        BY DEF OwnRules
      <4> HIDE DEF g
      <4> QED BY <4>1, <4>2
    <3>2. CASE key = "udp"
      <4> DEFINE g == {i \in DOMAIN d.rules : LegacyStun(d.rules[i])}
      <4>1. Effect(key, d) = [d EXCEPT !.rules = Without(d.rules, g)]
        BY <3>2 DEF Effect, UdpModes
      <4>2. g \cap OwnRules(d) = {}
        BY DEF OwnRules, LegacyStun
      <4> HIDE DEF g
      <4> QED BY <4>1, <4>2
    <3> QED BY <1>8, <3>1, <3>2
  <2>2. \A i \in OwnRules(d) : i \in DOMAIN Without(d.rules, gone) /\ Without(d.rules, gone)[i] = d.rules[i]
    BY <2>1 DEF Without, OwnRules
  <2> QED BY <1>1, <2>1, <2>2, IdsKept, RulesWritten
<1>9. CASE key \in {"keywords", "retire"}
  <2>1. PICK value : Effect(key, d) = [d EXCEPT !.keyword = value]
    BY <1>9 DEF Effect, NoResolveKeywords, RetireKeywords
  <2> DEFINE e == [d EXCEPT !.keyword = value]
  <2>2. e.sources = d.sources /\ e.rules = d.rules /\ e.general = d.general
    BY <1>1 DEF Tables
  <2> HIDE DEF e
  <2>3. Numbered(e) /\ KeepsOwn(d, e)
    BY <2>2, NothingWritten
  <2> QED BY <2>1, <2>3 DEF e
<1>10. CASE key \in {"dangling", "ipflags", "order"}
  <2>1. PICK t : /\ Effect(key, d) = [d EXCEPT !.sources = t] /\ DOMAIN t = DOMAIN s
                 /\ \A i \in DOMAIN s : t[i].order \in Int
                 /\ \A i \in DOMAIN s : ~BuiltinSource(s[i]) => t[i] = s[i]
    <3>0. \A i \in DOMAIN s : s[i].order \in Int /\ "order" \in DOMAIN s[i]
      BY <1>1 DEF SourcesOk, SourceColumns
    <3>1. CASE key = "dangling"
      <4> DEFINE fallback == Plain(IF "Global" \in Enabled(d.services) THEN "Global" ELSE "DIRECT")
                 t == [i \in DOMAIN s |->
                          IF Dangling(d, s[i]) THEN [s[i] EXCEPT !.action = fallback] ELSE s[i]]
      <4>1. Effect(key, d) = [d EXCEPT !.sources = t]
        BY <3>1 DEF Effect, DanglingActions, s
      <4> HIDE DEF fallback
      <4>2. \A i \in DOMAIN s : t[i].order \in Int
        BY <3>0
      <4>3. \A i \in DOMAIN s : ~BuiltinSource(s[i]) => t[i] = s[i]
        BY DEF Dangling
      <4>4. DOMAIN t = DOMAIN s
        OBVIOUS
      <4> HIDE DEF t
      <4> QED BY <4>1, <4>2, <4>3, <4>4
    <3>2. CASE key = "ipflags"
      <4> DEFINE t == [i \in DOMAIN s |-> Flagged(s[i])]
      <4>1. Effect(key, d) = [d EXCEPT !.sources = t]
        BY <3>2 DEF Effect, IpFlags, s
      <4>2. DOMAIN t = DOMAIN s /\ \A i \in DOMAIN s : t[i].order \in Int
        BY <3>0 DEF Flagged
      <4>3. \A i \in DOMAIN s : ~BuiltinSource(s[i]) => t[i] = s[i]
        BY DEF Flagged
      <4> HIDE DEF t
      <4> QED BY <4>1, <4>2, <4>3
    <3>3. CASE key = "order"
      <4> DEFINE crossing == UNION {{p[1], p[2]} : p \in Misplaced(s)}
                 t == [i \in DOMAIN s |->
                          IF i \in crossing THEN [s[i] EXCEPT !.order = Defaults[s[i].name].order]
                          ELSE s[i]]
      <4>1. Effect(key, d) = [d EXCEPT !.sources = t]
        BY <3>3 DEF Effect, OrderRepaired, Repaired, s
      <4>2. \A i \in crossing : i \in DOMAIN s /\ BuiltinSource(s[i])
        BY DEF Misplaced, Categories, Enabled
      <4> HIDE DEF crossing
      <4>3. \A i \in DOMAIN s : t[i].order \in Int
        BY <3>0, <4>2, DefaultsAssumption DEF BuiltinSource
      <4>4. DOMAIN t = DOMAIN s /\ \A i \in DOMAIN s : ~BuiltinSource(s[i]) => t[i] = s[i]
        BY <4>2
      <4> HIDE DEF t
      <4> QED BY <4>1, <4>3, <4>4
    <3> QED BY <1>10, <3>1, <3>2, <3>3
  <2>2. SourcesOk(t) /\ SourcesKept(s, t)
    BY <1>1, <2>1, BuiltinWritten
  <2> QED BY <1>3, <2>1, <2>2
<1>11. CASE key \notin {"security", "douyin", "ipv6", "dns", "quic", "keywords", "dangling",
                       "ipflags", "order", "retire", "udp"}
  <2>1. Effect(key, d) = d
    BY <1>11 DEF Effect
  <2> QED BY <1>2, <2>1
<1> QED BY <1>4, <1>5, <1>6, <1>7, <1>8, <1>9, <1>10, <1>11

\* The record of a migration beside its effect.
LEMMA RecordKeeps ==
    ASSUME NEW d, NEW f, Numbered(f), KeepsOwn(d, f), Tables \subseteq DOMAIN f,
           NEW x, NEW e, e = [f EXCEPT !.ledger = x]
    PROVE  Numbered(e) /\ KeepsOwn(d, e)
<1>1. e.rules = f.rules /\ e.sources = f.sources /\ e.general = f.general
  BY DEF Tables
<1>2. Numbered(e)
  BY <1>1, NumberedParts
<1>3. KeepsOwn(d, e)
  BY <1>1 DEF KeepsOwn
<1> QED BY <1>2, <1>3

-------------------------------------------------------------------------------
(* The pages *)

\* An edit leaves all tables alone but these.
Within(tables) == DOMAIN db' = DOMAIN db /\ \A c \in DOMAIN db \ tables : db'[c] = db[c]

(* An edit writes tables of which no record and no version depends.  Only    *)
(* the pages of the sources write sources, and only those that load a row    *)
(* have a session.                                                           *)
LEMMA EditTables ==
    ASSUME Edit
    PROVE  /\ \/ /\ Within({"regions", "services", "nodes", "final", "rules", "profile", "general"})
                 /\ UNCHANGED <<session, disturbed>>
              \/ CreateSource \/ DeleteSource
              \/ \E p \in Pages : UpdateSource(p) \/ ReorderSources(p) \/ CommitSource(p)
           /\ Within({"regions", "services", "nodes", "final", "rules", "profile", "general", "sources"})
<1>1. CASE CreateRegion \/ UpdateRegion \/ DeleteRegion
  <2>1. Within({"regions"}) /\ UNCHANGED <<session, disturbed>>
    BY <1>1 DEF CreateRegion, UpdateRegion, DeleteRegion, Write, Within
  <2> QED BY <2>1 DEF Within
<1>2. CASE CreateService \/ UpdateService \/ DeleteService
  <2>1. Within({"services"}) /\ UNCHANGED <<session, disturbed>>
    BY <1>2 DEF CreateService, UpdateService, DeleteService, Write, Within
  <2> QED BY <2>1 DEF Within
<1>3. CASE UpdateNode \/ PinNode
  <2>1. Within({"nodes"}) /\ UNCHANGED <<session, disturbed>>
    BY <1>3 DEF UpdateNode, PinNode, Write, Within
  <2> QED BY <2>1 DEF Within
<1>4. CASE CreateProfile \/ RenameProfile \/ UpdateFinal \/ DeleteProfile
  <2>1. Within({"profile", "final", "general", "rules"}) /\ UNCHANGED <<session, disturbed>>
    BY <1>4 DEF CreateProfile, RenameProfile, UpdateFinal, DeleteProfile, Write, Within
  <2> QED BY <2>1 DEF Within
<1>5. CASE CreateRule \/ UpdateRule \/ DeleteRule
  <2>1. Within({"rules"}) /\ UNCHANGED <<session, disturbed>>
    BY <1>5 DEF CreateRule, UpdateRule, DeleteRule, Write, Within
  <2> QED BY <2>1 DEF Within
<1>6. CASE CreateSource \/ DeleteSource
  <2>1. Within({"sources"})
    BY <1>6 DEF CreateSource, DeleteSource, Write, Within
  <2> QED BY <1>6, <2>1 DEF Within
<1>7. ASSUME NEW p \in Pages, UpdateSource(p) \/ ReorderSources(p) \/ CommitSource(p)
      PROVE  Within({"sources"})
  BY <1>7 DEF UpdateSource, ReorderSources, CommitSource, Load, Within
<1> QED BY <1>1, <1>2, <1>3, <1>4, <1>5, <1>6, <1>7 DEF Edit, Within

-------------------------------------------------------------------------------
(* The databases *)

\* What a migration, or the start before it, leaves of a database.
Descends(old, new) ==
    /\ old.ledger \subseteq new.ledger
    /\ \A key \in Watched : key \in old.ledger => KeepsAbsent(key, old, new)

\* Until it is seeded the copy has the live database's rows of the tables that
\* matter here.
Copied(old, new) ==
    \A c \in {"ledger", "profile", "keyword", "regions", "services", "rules", "sources"} :
        new[c] = old[c]

\* Then it keeps what is absent and has an order that is right, or it was
\* taken for a new database.
Misordered(d) == "order" \in d.ledger /\ Misplaced(d.sources) # {}
Upgraded(old, new) ==
    /\ old.ledger \subseteq new.ledger
    /\ \A key \in Watched : key \in old.ledger =>
            KeepsAbsent(key, old, new) \/ (Vacant(old) /\ key # "retire")
    /\ Misordered(new) => Misordered(old) \/ ("order" \in old.ledger /\ Vacant(old))

\* What the sessions hold.
SessionOk ==
    /\ DOMAIN session = Pages
    /\ \A p \in Loaded : SourceColumns \subseteq DOMAIN session[p].new

DInv ==
    /\ RegistryOk /\ WellFormed(db) /\ SessionOk
    /\ Misordered(db) => disturbed
    /\ phase \in {"schema", "seed", "keys"} => WellFormed(stage)
    /\ phase \in {"schema", "seed"} => Copied(db, stage)
    /\ phase = "keys" => Upgraded(db, stage)

\* The ids and places of the rules and sources stay numbers.
NumberedInv ==
    /\ Numbered(db)
    /\ phase \in {"schema", "seed", "keys"} => Numbered(stage)
    /\ \A p \in Loaded : session[p].new.order \in Int

LEMMA ApplyKeepsRows ==
    ASSUME RegistryOk, NEW d, WellFormed(d),
           NEW i \in Pending(d), \A j \in Pending(d) : i <= j,
           ~(registry[i] = "order" /\ OrderFails(d)),
           NEW e, e = [Effect(registry[i], d) EXCEPT !.ledger = @ \cup {registry[i]}]
    PROVE  WellFormed(e) /\ Descends(d, e) /\ (Misordered(e) => Misordered(d))
<1> DEFINE key == registry[i]
           f == Effect(key, d)
<1>1. EffectOk(key, d, f)
  BY EffectIsOk
<1>2. /\ key = "order" => "douyin" \in d.ledger
      /\ key = "retire" => "keywords" \in d.ledger
      /\ key \notin d.ledger
  BY EarlierRecorded
<1> HIDE DEF f, key
<1>3. e = [f EXCEPT !.ledger = @ \cup {key}] /\ ~(key = "order" /\ OrderFails(d))
  BY DEF f, key
<1>4. DOMAIN f = DOMAIN d /\ f.ledger = d.ledger /\ f.profile = d.profile
      /\ \A r \in DOMAIN f.sources : SourceColumns \subseteq DOMAIN f.sources[r]
  BY <1>1 DEF EffectOk, Tame
<1>5. /\ DOMAIN e = DOMAIN d /\ e.ledger = d.ledger \cup {key} /\ e.profile = d.profile
      /\ e.sources = f.sources /\ e.rules = f.rules /\ e.keyword = f.keyword
  BY <1>3, <1>4 DEF WellFormed, Tables
<1>6. ASSUME "order" \in e.ledger
      PROVE  "douyin" \in e.ledger /\ (Misordered(e) => Misordered(d))
  <2>1. CASE key = "order"
    <3>1. e.sources = Repaired(d.sources)
      BY <2>1, <1>1, <1>5 DEF EffectOk
    <3> QED BY <2>1, <3>1, <1>2, <1>3, <1>5 DEF OrderFails, Misordered
  <2>2. CASE key # "order"
    <3>1. "order" \in d.ledger
      BY <2>2, <1>5, <1>6
    <3>2. "douyin" \in d.ledger
      BY <3>1 DEF WellFormed, Tables
    <3>3. KeepsOrder(d, f)
      BY <3>2, <2>2, <1>1, <1>2 DEF EffectOk
    <3> QED BY <3>1, <3>2, <3>3, <1>5 DEF KeepsOrder, Misordered
  <2> QED BY <2>1, <2>2
<1>7. WellFormed(e)
  BY <1>2, <1>4, <1>5, <1>6 DEF WellFormed, Tables
<1>8. \A w \in Watched : w \in d.ledger => KeepsAbsent(w, d, e)
  <2>1. SUFFICES ASSUME NEW w \in Watched, w \in d.ledger PROVE KeepsAbsent(w, d, e)
    OBVIOUS
  <2>2. KeepsAbsent(w, d, f)
    BY <2>1, <1>1, <1>2 DEF EffectOk, WellFormed, Watched
  <2> QED BY <2>2, <1>5 DEF KeepsAbsent, Absent
<1> QED BY <1>5, <1>6, <1>7, <1>8 DEF Descends, Misordered

(* The default rows are put beside the rows of the table.                    *)
LEMMA InsertAllKeeps ==
    ASSUME NEW rows, NEW new, IdsOk(rows), IdsOk(new)
    PROVE  /\ IdsOk(InsertAll(rows, new))
           /\ \A i \in DOMAIN InsertAll(rows, new) :
                \/ i \in DOMAIN rows /\ InsertAll(rows, new)[i] = rows[i]
                \/ \E j \in DOMAIN new : InsertAll(rows, new)[i] = new[j]
<1> DEFINE ids == {0} \cup DOMAIN rows
           top == Max(ids)
           more == {top + j : j \in DOMAIN new}
           all == InsertAll(rows, new)
           f == [j \in DOMAIN new |-> top + j]
<1>1. ids \in SUBSET Nat /\ ids # {} /\ IsFiniteSet(ids)
  BY FS_AddElement DEF IdsOk
<1>2. top \in Nat
  BY <1>1, MaxIsGreatest
<1>3. all = [i \in DOMAIN rows \cup more |-> IF i \in DOMAIN rows THEN rows[i] ELSE new[i - top]]
  BY DEF InsertAll
<1> HIDE DEF top, all
<1>4. f \in Surjection(DOMAIN new, more)
  BY DEF Surjection
<1>5. IsFiniteSet(more)
  <2> HIDE DEF f, more
  <2> QED BY <1>4, FS_Surjection DEF IdsOk
<1>6. more \subseteq Nat /\ \A i \in more : i - top \in DOMAIN new
  BY <1>2 DEF IdsOk
<1> HIDE DEF more
<1>7. IsFiniteSet(DOMAIN rows \cup more)
  BY <1>5, FS_Union DEF IdsOk
<1> QED BY <1>3, <1>6, <1>7 DEF IdsOk, all

LEMMA SeededKeeps ==
    ASSUME NEW d, WellFormed(d), Numbered(d)
    PROVE  /\ WellFormed(Seeded(d)) /\ Numbered(Seeded(d))
           /\ \A c \in {"schema", "ledger", "keyword"} : Seeded(d)[c] = d[c]
<1> DEFINE e == Seeded(d)
           s == InsertAll(d.sources, Seeds.sources)
           r == InsertAll(d.rules, Seeds.rules)
<1>1. /\ DOMAIN e = DOMAIN d /\ e.sources = s /\ e.rules = r /\ e.profile = "default"
      /\ \A c \in {"schema", "ledger", "keyword"} : e[c] = d[c]
  <2> HIDE DEF s, r
  <2>1. \E a, b, x, y : e = [d EXCEPT !.regions = a, !.services = b, !.sources = s, !.rules = r,
                             !.profile = "default", !.final = x, !.general = y]
    BY DEF Seeded, s, r
  <2> QED BY <2>1 DEF WellFormed, Tables
<1>2. /\ IdsOk(d.rules) /\ SourcesOk(d.sources)
      /\ IdsOk(Seeds.rules) /\ SourcesOk(Seeds.sources)
  BY SeedsAssumption, NumberedParts
<1>3. IdsOk(s) /\ IdsOk(r)
  BY <1>2, InsertAllKeeps DEF SourcesOk
<1>4. \A i \in DOMAIN s : \/ i \in DOMAIN d.sources /\ s[i] = d.sources[i]
                          \/ \E j \in DOMAIN Seeds.sources : s[i] = Seeds.sources[j]
  BY <1>2, InsertAllKeeps DEF SourcesOk
<1>5. \A i \in DOMAIN s : SourceColumns \subseteq DOMAIN s[i] /\ s[i].order \in Int
  <2> HIDE DEF s
  <2> QED BY <1>2, <1>4, SeedsAssumption DEF WellFormed, SourcesOk
<1> HIDE DEF e, s, r
<1>6. Numbered(e)
  BY <1>1, <1>3, <1>5, NumberedParts DEF SourcesOk
<1>7. WellFormed(e)
  BY <1>1, <1>5 DEF WellFormed, Tables
<1> QED BY <1>1, <1>6, <1>7 DEF e

LEMMA CopiedStays ==
    ASSUME NEW d, NEW e, Copied(d, e)
    PROVE  /\ Upgraded(d, e) /\ (Vacant(e) <=> Vacant(d))
<1>1. /\ e.ledger = d.ledger /\ e.profile = d.profile /\ e.keyword = d.keyword
      /\ e.regions = d.regions /\ e.services = d.services /\ e.rules = d.rules
      /\ e.sources = d.sources
  BY DEF Copied
<1> QED BY <1>1 DEF Upgraded, KeepsAbsent, Absent, Misordered, Vacant, SeedsClash

LEMMA StageStep ==
    ASSUME DInv, NumberedInv, Start \/ SyncSchema \/ SeedDefaults \/ ApplyKey PROVE DInv'
<1>0. /\ RegistryOk' /\ WellFormed(db)' /\ SessionOk' /\ (Misordered(db) => disturbed)'
      /\ db' = db
  BY DEF Start, SyncSchema, SeedDefaults, ApplyKey, DInv, RegistryOk, SessionOk, Loaded
<1>1. CASE Start
  <2>1. CASE phase' = "up"
    BY <1>0, <2>1 DEF DInv
  <2>2. CASE phase' = "schema" /\ stage' = db
    <3>1. Copied(db, db)
      BY DEF Copied
    <3>2. WellFormed(stage') /\ Copied(db', stage')
      BY <1>0, <2>2, <3>1 DEF DInv
    <3> QED BY <1>0, <2>2, <3>2 DEF DInv
  <2> QED BY <1>1, <2>1, <2>2 DEF Start
<1>2. CASE Fails
  BY <1>0, <1>2 DEF Fails, DInv
<1>3. CASE SyncSchema
  <2>0. phase = "schema" /\ WellFormed(stage) /\ Copied(db, stage)
    BY <1>3 DEF SyncSchema, DInv
  <2>1. CASE phase' = "seed" /\ stage' = stage
    <3>1. WellFormed(stage') /\ Copied(db', stage')
      BY <1>0, <2>0, <2>1
    <3> QED BY <1>0, <2>1, <3>1 DEF DInv
  <2>2. CASE phase' = "seed" /\ stage' = SchemaUpgraded(stage)
    <3>1. DOMAIN stage' = DOMAIN stage
          /\ \A c \in {"ledger", "profile", "keyword", "rules", "sources", "regions", "services"} :
                stage'[c] = stage[c]
      BY <2>2 DEF SchemaUpgraded
    <3>2. WellFormed(stage')
      BY <2>0, <3>1 DEF WellFormed, Tables
    <3>3. Copied(db', stage')
      BY <1>0, <2>0, <3>1 DEF Copied
    <3> QED BY <1>0, <2>2, <3>2, <3>3 DEF DInv
  <2> QED BY <1>2, <1>3, <2>1, <2>2 DEF SyncSchema
<1>4. CASE SeedDefaults
  <2>0. phase = "seed" /\ WellFormed(stage) /\ Copied(db, stage) /\ Numbered(stage)
    BY <1>4 DEF SeedDefaults, DInv, NumberedInv
  <2>1. CASE phase' = "keys" /\ stage' = stage
    <3>1. WellFormed(stage') /\ Upgraded(db', stage')
      BY <1>0, <2>0, <2>1, CopiedStays
    <3> QED BY <1>0, <2>1, <3>1 DEF DInv
  <2>2. CASE Vacant(stage) /\ phase' = "keys" /\ stage' = Seeded(stage)
    <3>1. WellFormed(stage') /\ stage'.ledger = stage.ledger /\ stage'.keyword = stage.keyword
      BY <2>0, <2>2, SeededKeeps
    <3>2. Vacant(db) /\ stage'.ledger = db.ledger /\ stage'.keyword = db.keyword
      BY <2>0, <2>2, <3>1, CopiedStays DEF Copied
    <3>3. Upgraded(db, stage')
      BY <3>2 DEF Upgraded, Watched, KeepsAbsent, Absent, Misordered
    <3> QED BY <1>0, <2>2, <3>1, <3>3 DEF DInv
  <2> QED BY <1>2, <1>4, <2>1, <2>2 DEF SeedDefaults
<1>5. CASE ApplyKey
  <2>0. phase = "keys" /\ RegistryOk /\ WellFormed(stage) /\ Upgraded(db, stage)
    BY <1>5 DEF ApplyKey, DInv
  <2>1. PICK i \in Pending(stage) :
            /\ \A j \in Pending(stage) : i <= j
            /\ \/ registry[i] = "order" /\ OrderFails(stage) /\ Fails
               \/ /\ ~(registry[i] = "order" /\ OrderFails(stage)) /\ phase' = phase
                  /\ stage' = [Effect(registry[i], stage) EXCEPT !.ledger = @ \cup {registry[i]}]
    BY <1>5 DEF ApplyKey
  <2>2. CASE Fails
    BY <2>2, <1>2
  <2>3. CASE ~Fails
    <3>1. WellFormed(stage') /\ Descends(stage, stage') /\ (Misordered(stage') => Misordered(stage))
      BY <2>0, <2>1, <2>3, ApplyKeepsRows
    <3>2. Upgraded(db, stage')
      BY <2>0, <3>1 DEF Upgraded, Descends, KeepsAbsent
    <3> QED BY <1>0, <2>0, <2>1, <2>3, <3>1, <3>2 DEF DInv
  <2> QED BY <2>2, <2>3
<1> QED BY <1>1, <1>3, <1>4, <1>5

(* A row of a session that nobody changed since it was loaded is written as  *)
(* it was validated; any other write is noted.                               *)
LEMMA CommitKeepsOrder ==
    ASSUME DInv, NEW p \in Pages, CommitSource(p), Misordered(db')
    PROVE  disturbed'
<1> DEFINE s == session[p]
           f == Flushed(s)
           v == Validated(s)
<1>1. CASE db' = db
  <2>1. disturbed
    BY <1>1 DEF DInv
  <2>2. \/ disturbed' = (disturbed \/ (db' # db /\ s.row # db.sources[s.id]))
        \/ disturbed' = disturbed
    BY DEF CommitSource
  <2> QED BY <2>1, <2>2, Zenon
<1>2. CASE db' # db /\ s.row # db.sources[s.id]
  BY <1>2 DEF CommitSource
<1>3. CASE db' # db /\ s.row = db.sources[s.id]
  <2>1. /\ s.id \in DOMAIN db.sources /\ Misplaced(v) = {}
        /\ db' = [db EXCEPT !.sources = f] /\ p \in Loaded
    BY <1>3 DEF CommitSource
  <2>2. /\ SourceColumns \subseteq DOMAIN s.new
        /\ SourceColumns \subseteq DOMAIN db.sources[s.id]
    BY <2>1 DEF DInv, SessionOk, WellFormed
  <2>3. DOMAIN f = DOMAIN db.sources
        /\ f[s.id] = [c \in DOMAIN db.sources[s.id] |->
                        IF s.new[c] # s.row[c] THEN s.new[c] ELSE db.sources[s.id][c]]
    BY <2>1 DEF Flushed
  <2>4. \A c \in SourceColumns : f[s.id][c] = s.new[c]
    BY <1>3, <2>2, <2>3
  <2>5. v = [i \in Enabled(f) |-> IF i = s.id THEN [s.new EXCEPT !.enabled = TRUE] ELSE f[i]]
    BY DEF Validated
  <2> HIDE DEF f, v, s
  <2>6. DOMAIN v = Enabled(f)
        /\ \A i \in Enabled(f) : /\ v[i].name = f[i].name /\ v[i].url = f[i].url
                                 /\ v[i].order = f[i].order /\ v[i].enabled
    BY <2>2, <2>4, <2>5 DEF SourceColumns, Enabled
  <2>7. Enabled(v) = Enabled(f)
    BY <2>6 DEF Enabled
  <2>8. Misplaced(f) = {}
    BY <2>1, <2>6, <2>7, SameEnabled
  <2>9. db'.sources = f
    BY <2>1 DEF DInv, WellFormed, Tables
  <2> QED BY <2>8, <2>9 DEF Misordered
<1> QED BY <1>1, <1>2, <1>3

LEMMA EditStep ==
    ASSUME DInv, Edit PROVE DInv'
<1>1. phase = "up" /\ UNCHANGED <<registry, phase, stage>>
  BY EditIsUp
<1>2. Within({"regions", "services", "nodes", "final", "rules", "profile", "general", "sources"})
  BY EditTables
<1>3. WellFormed(db) /\ DOMAIN db' = DOMAIN db /\ db'.ledger = db.ledger
  BY <1>2 DEF Within, DInv, WellFormed, Tables
<1>4. db'.profile \in {"default", "own", "none"}
  BY <1>3 DEF Edit, WellFormed, Tables, CreateRegion, UpdateRegion, DeleteRegion, CreateService,
    UpdateService, DeleteService, UpdateNode, PinNode, CreateProfile, RenameProfile, UpdateFinal,
    DeleteProfile, CreateRule, UpdateRule, DeleteRule, CreateSource, DeleteSource, UpdateSource,
    ReorderSources, Load, CommitSource, Write
<1> SUFFICES /\ \A i \in DOMAIN db'.sources : SourceColumns \subseteq DOMAIN db'.sources[i]
             /\ SessionOk' /\ (Misordered(db') => disturbed')
  BY <1>1, <1>3, <1>4 DEF DInv, RegistryOk, WellFormed
<1>5. \A i \in DOMAIN db.sources : SourceColumns \subseteq DOMAIN db.sources[i]
  BY <1>3 DEF WellFormed
<1>6. CASE /\ Within({"regions", "services", "nodes", "final", "rules", "profile", "general"})
           /\ UNCHANGED <<session, disturbed>>
  <2>1. db'.sources = db.sources
    BY <1>3, <1>6 DEF Within, WellFormed, Tables
  <2> QED BY <2>1, <1>3, <1>5, <1>6 DEF DInv, SessionOk, Loaded, Misordered
<1>7. CASE CreateSource
  <2>1. PICK row \in NewSources : /\ db' = [db EXCEPT !.sources = Insert(db.sources, row)]
                                  /\ Misplaced(Insert(db.sources, row)) = {}
    BY <1>7 DEF CreateSource, Write
  <2> DEFINE s == Insert(db.sources, row)
  <2>2. \A i \in DOMAIN s : SourceColumns \subseteq DOMAIN s[i]
    BY <1>5, NewSourcesAssumption DEF Insert
  <2> HIDE DEF s
  <2>3. db'.sources = s
    BY <2>1, <1>3 DEF WellFormed, Tables, s
  <2>4. UNCHANGED <<session, disturbed>>
    BY <1>7 DEF CreateSource, Write
  <2> QED BY <2>1, <2>2, <2>3, <2>4 DEF DInv, SessionOk, Loaded, Misordered, s
<1>8. CASE DeleteSource
  <2>1. PICK i : db' = [db EXCEPT !.sources = Without(db.sources, {i})]
    BY <1>8 DEF DeleteSource, Write
  <2> DEFINE s == Without(db.sources, {i})
  <2>2. \A j \in DOMAIN s : SourceColumns \subseteq DOMAIN s[j]
    BY <1>5 DEF Without
  <2>3. Misplaced(db.sources) = {} => Misplaced(s) = {}
    BY FewerOrder
  <2> HIDE DEF s
  <2>4. db'.sources = s
    BY <2>1, <1>3 DEF WellFormed, Tables, s
  <2>5. UNCHANGED <<session, disturbed>>
    BY <1>8 DEF DeleteSource, Write
  <2> QED BY <1>3, <2>2, <2>3, <2>4, <2>5 DEF DInv, SessionOk, Loaded, Misordered
<1>9. ASSUME NEW p \in Pages, UpdateSource(p) \/ ReorderSources(p)
      PROVE  /\ \A i \in DOMAIN db'.sources : SourceColumns \subseteq DOMAIN db'.sources[i]
             /\ SessionOk' /\ (Misordered(db') => disturbed')
  <2>1. PICK i \in DOMAIN db.sources : \E new : Load(p, i, new) /\ DOMAIN new = DOMAIN db.sources[i]
    <3>1. CASE UpdateSource(p)
      <4>1. \A i \in DOMAIN db.sources : \A x : \A y :
                /\ DOMAIN Toggled(db.sources[i], "enabled") = DOMAIN db.sources[i]
                /\ DOMAIN [db.sources[i] EXCEPT !.action = x] = DOMAIN db.sources[i]
                /\ DOMAIN [db.sources[i] EXCEPT !.name = x, !.url = y] = DOMAIN db.sources[i]
        BY DEF Toggled
      <4>2. PICK i \in DOMAIN db.sources :
                \/ Load(p, i, Toggled(db.sources[i], "enabled"))
                \/ \E x \in Actions : Load(p, i, [db.sources[i] EXCEPT !.action = x])
                \/ \E x \in NewSources : Load(p, i, [db.sources[i] EXCEPT !.name = x.name, !.url = x.url])
        BY <3>1 DEF UpdateSource
      <4>3. CASE Load(p, i, Toggled(db.sources[i], "enabled"))
        BY <4>1, <4>3
      <4>4. ASSUME NEW x \in Actions, Load(p, i, [db.sources[i] EXCEPT !.action = x])
            PROVE  \E new : Load(p, i, new) /\ DOMAIN new = DOMAIN db.sources[i]
        BY <4>1, <4>4
      <4>5. ASSUME NEW x \in NewSources, Load(p, i, [db.sources[i] EXCEPT !.name = x.name, !.url = x.url])
            PROVE  \E new : Load(p, i, new) /\ DOMAIN new = DOMAIN db.sources[i]
        BY <4>1, <4>5
      <4> QED BY <4>2, <4>3, <4>4, <4>5
    <3>2. CASE ReorderSources(p)
      <4>1. PICK i \in DOMAIN db.sources, place \in DOMAIN db.sources :
                Load(p, i, [db.sources[i] EXCEPT !.order = db.sources[place].order])
        BY <3>2 DEF ReorderSources
      <4>2. DOMAIN [db.sources[i] EXCEPT !.order = db.sources[place].order] = DOMAIN db.sources[i]
        OBVIOUS
      <4> QED BY <4>1, <4>2
    <3> QED BY <1>9, <3>1, <3>2
  <2>2. PICK new : /\ DOMAIN new = DOMAIN db.sources[i]
                   /\ UNCHANGED <<db, disturbed>>
                   /\ session' = [session EXCEPT ![p] = [id |-> i, row |-> db.sources[i], new |-> new]]
    BY <2>1 DEF Load
  <2>3. SessionOk'
    BY <1>5, <2>2 DEF DInv, SessionOk, Loaded
  <2> QED BY <1>5, <2>2, <2>3 DEF DInv, Misordered
<1>10. ASSUME NEW p \in Pages, CommitSource(p)
       PROVE  /\ \A i \in DOMAIN db'.sources : SourceColumns \subseteq DOMAIN db'.sources[i]
              /\ SessionOk' /\ (Misordered(db') => disturbed')
  <2>1. session' = [session EXCEPT ![p] = Idle]
    BY <1>10 DEF CommitSource
  <2>2. SessionOk'
    BY <2>1 DEF DInv, SessionOk, Loaded
  <2>3. CASE db' = [db EXCEPT !.sources = Flushed(session[p])]
    <3> DEFINE f == Flushed(session[p])
    <3>1. DOMAIN f = DOMAIN db.sources /\ \A i \in DOMAIN f : DOMAIN f[i] = DOMAIN db.sources[i]
      BY DEF Flushed
    <3> HIDE DEF f
    <3>2. db'.sources = f
      BY <2>3, <1>3 DEF WellFormed, Tables, f
    <3> QED BY <1>5, <1>10, <2>2, <3>1, <3>2, CommitKeepsOrder
  <2>4. CASE db' = db
    BY <1>5, <1>10, <2>2, <2>4, CommitKeepsOrder
  <2> QED BY <1>10, <2>3, <2>4 DEF CommitSource
<1> QED BY <1>6, <1>7, <1>8, <1>9, <1>10, EditTables

LEMMA DatabaseStep ==
    ASSUME DInv, NumberedInv, [Next]_vars PROVE DInv'
<1>1. CASE UNCHANGED <<db, registry, phase, stage, session, disturbed>>
  BY <1>1 DEF DInv, RegistryOk, SessionOk, Loaded
<1>2. CASE Publish
  <2>1. /\ phase = "keys" /\ db' = stage /\ phase' = "up" /\ UNCHANGED <<registry, session>>
        /\ disturbed' = ("order" \in db.ledger /\ (disturbed \/ Vacant(db)))
    BY <1>2 DEF Publish
  <2>2. WellFormed(stage) /\ Upgraded(db, stage) /\ SessionOk'
    BY <2>1 DEF DInv, SessionOk, Loaded
  <2>3. Misordered(stage) => disturbed'
    BY <2>1, <2>2 DEF DInv, Upgraded, Misordered
  <2> QED BY <2>1, <2>2, <2>3 DEF DInv, RegistryOk
<1>3. CASE Stop
  BY <1>3 DEF Stop, DInv, RegistryOk, SessionOk, Loaded
<1>4. CASE NewRelease
  BY <1>4 DEF NewRelease, DInv, RegistryOk, SessionOk, Loaded
<1> QED BY <1>1, <1>2, <1>3, <1>4, StageStep, EditStep DEF Next, vars, Generate, Read, Answer, Close

LEMMA EditKeepsNumbers ==
    ASSUME DInv, NumberedInv, Edit PROVE NumberedInv'
<1>1. phase = "up" /\ UNCHANGED <<registry, phase, stage>>
  BY EditIsUp
<1>2. /\ {"rules", "sources"} \subseteq DOMAIN db /\ DOMAIN session = Pages
      /\ IdsOk(db.rules) /\ SourcesOk(db.sources)
      /\ \A i \in DOMAIN db.sources : SourceColumns \subseteq DOMAIN db.sources[i]
      /\ \A p \in Loaded : session[p].new.order \in Int
  BY NumberedParts DEF DInv, SessionOk, WellFormed, Tables, NumberedInv
<1> SUFFICES IdsOk(db'.rules) /\ SourcesOk(db'.sources)
             /\ \A p \in Loaded' : session'[p].new.order \in Int
  BY <1>1, NumberedParts DEF NumberedInv
<1>3. CASE \E s : db' = [db EXCEPT !.sources = s] /\ SourcesOk(s) /\ session' = session
  <2>1. PICK s : db' = [db EXCEPT !.sources = s] /\ SourcesOk(s)
    BY <1>3
  <2>2. db'.rules = db.rules /\ db'.sources = s
    BY <1>2, <2>1
  <2> QED BY <1>2, <1>3, <2>1, <2>2 DEF Loaded
<1>4. CASE \E r : db' = [db EXCEPT !.rules = r] /\ IdsOk(r) /\ session' = session
  <2>1. PICK r : db' = [db EXCEPT !.rules = r] /\ IdsOk(r)
    BY <1>4
  <2>2. db'.rules = r /\ db'.sources = db.sources
    BY <1>2, <2>1
  <2> QED BY <1>2, <1>4, <2>1, <2>2 DEF Loaded
<1>5. CASE Within({"regions", "services", "nodes", "final", "profile", "general"}) /\ session' = session
  <2>1. db'.rules = db.rules /\ db'.sources = db.sources
    BY <1>2, <1>5 DEF Within
  <2> QED BY <1>2, <1>5, <2>1 DEF Loaded
<1>6. CASE CreateRegion \/ UpdateRegion \/ DeleteRegion
  <2>1. Within({"regions"}) /\ session' = session
    BY <1>6 DEF CreateRegion, UpdateRegion, DeleteRegion, Write, Within
  <2> QED BY <2>1, <1>5 DEF Within
<1>7. CASE CreateService \/ UpdateService \/ DeleteService
  <2>1. Within({"services"}) /\ session' = session
    BY <1>7 DEF CreateService, UpdateService, DeleteService, Write, Within
  <2> QED BY <2>1, <1>5 DEF Within
<1>8. CASE UpdateNode \/ PinNode
  <2>1. Within({"nodes"}) /\ session' = session
    BY <1>8 DEF UpdateNode, PinNode, Write, Within
  <2> QED BY <2>1, <1>5 DEF Within
<1>9. CASE CreateProfile \/ RenameProfile \/ UpdateFinal
  <2>1. Within({"profile", "final", "general"}) /\ session' = session
    BY <1>9 DEF CreateProfile, RenameProfile, UpdateFinal, Write, Within
  <2> QED BY <2>1, <1>5 DEF Within
<1>10. CASE DeleteProfile
  <2>1. PICK gone : db' = [db EXCEPT !.profile = "none", !.rules = Without(db.rules, gone)]
    BY <1>10 DEF DeleteProfile, Write
  <2> DEFINE r == Without(db.rules, gone)
  <2>2. IdsOk(r)
    BY <1>2, IdsKept
  <2> HIDE DEF r
  <2>3. db'.rules = r /\ db'.sources = db.sources
    BY <1>2, <2>1 DEF r
  <2>4. session' = session
    BY <1>10 DEF DeleteProfile, Write
  <2> QED BY <1>2, <2>2, <2>3, <2>4 DEF Loaded
<1>11. CASE CreateRule
  <2>1. PICK rule : db' = [db EXCEPT !.rules = Insert(db.rules, rule)] /\ session' = session
    BY <1>11 DEF CreateRule, Write
  <2> QED BY <2>1, <1>2, <1>4, IdsKept
<1>12. CASE UpdateRule
  <2>1. PICK i, x : db' = [db EXCEPT !.rules = [db.rules EXCEPT ![i] = x]] /\ session' = session
    BY <1>12 DEF UpdateRule, Write
  <2>2. IdsOk([db.rules EXCEPT ![i] = x])
    BY <1>2 DEF IdsOk
  <2> QED BY <2>1, <2>2, <1>4
<1>13. CASE DeleteRule
  <2>1. PICK i : db' = [db EXCEPT !.rules = Without(db.rules, {i})] /\ session' = session
    BY <1>13 DEF DeleteRule, Write
  <2> QED BY <2>1, <1>2, <1>4, IdsKept
<1>14. CASE CreateSource
  <2>1. PICK row \in NewSources : /\ db' = [db EXCEPT !.sources = Insert(db.sources, row)]
                                  /\ session' = session
    BY <1>14 DEF CreateSource, Write
  <2> DEFINE s == Insert(db.sources, row)
  <2>2. IdsOk(s) /\ \A i \in DOMAIN s : s[i] = row \/ (i \in DOMAIN db.sources /\ s[i] = db.sources[i])
    BY <1>2, IdsKept DEF SourcesOk
  <2>3. row.order \in Int
    BY NewSourcesAssumption
  <2> HIDE DEF s
  <2>4. SourcesOk(s)
    BY <1>2, <2>2, <2>3 DEF SourcesOk
  <2> QED BY <2>1, <2>4, <1>3 DEF s
<1>15. CASE DeleteSource
  <2>1. PICK i : db' = [db EXCEPT !.sources = Without(db.sources, {i})] /\ session' = session
    BY <1>15 DEF DeleteSource, Write
  <2> DEFINE s == Without(db.sources, {i})
  <2>2. IdsOk(s)
    BY <1>2, IdsKept DEF SourcesOk
  <2>3. \A j \in DOMAIN s : j \in DOMAIN db.sources /\ s[j] = db.sources[j]
    BY DEF Without
  <2> HIDE DEF s
  <2>4. SourcesOk(s)
    BY <1>2, <2>2, <2>3 DEF SourcesOk
  <2> QED BY <2>1, <2>4, <1>3 DEF s
<1>16. ASSUME NEW p \in Pages, UpdateSource(p) \/ ReorderSources(p)
       PROVE  db' = db /\ \A q \in Loaded' : session'[q].new.order \in Int
  <2>1. PICK i \in DOMAIN db.sources : \E new : Load(p, i, new) /\ new.order \in Int
    <3>1. \A i \in DOMAIN db.sources : "order" \in DOMAIN db.sources[i] /\ db.sources[i].order \in Int
      BY <1>2 DEF SourceColumns, SourcesOk
    <3>2. CASE UpdateSource(p)
      <4>1. \A i \in DOMAIN db.sources : \A x : \A y :
                /\ Toggled(db.sources[i], "enabled").order \in Int
                /\ [db.sources[i] EXCEPT !.action = x].order \in Int
                /\ [db.sources[i] EXCEPT !.name = x, !.url = y].order \in Int
        BY <3>1 DEF Toggled
      <4> QED BY <3>2, <4>1 DEF UpdateSource
    <3>3. CASE ReorderSources(p)
      BY <3>1, <3>3 DEF ReorderSources
    <3> QED BY <1>16, <3>2, <3>3
  <2>2. PICK new : /\ new.order \in Int /\ db' = db
                   /\ session' = [session EXCEPT ![p] = [id |-> i, row |-> db.sources[i], new |-> new]]
    BY <2>1 DEF Load
  <2> QED BY <1>2, <2>2 DEF Loaded
<1>17. ASSUME NEW p \in Pages, CommitSource(p)
       PROVE  IdsOk(db'.rules) /\ SourcesOk(db'.sources)
              /\ \A q \in Loaded' : session'[q].new.order \in Int
  <2>1. session' = [session EXCEPT ![p] = Idle] /\ p \in Loaded
    BY <1>17 DEF CommitSource
  <2>2. \A q \in Loaded' : session'[q].new.order \in Int
    BY <1>2, <2>1 DEF Loaded
  <2>3. CASE db' = [db EXCEPT !.sources = Flushed(session[p])]
    <3> DEFINE f == Flushed(session[p])
    <3>1. DOMAIN f = DOMAIN db.sources /\ \A i \in DOMAIN f : f[i].order \in Int
      <4>1. \A i \in DOMAIN db.sources : "order" \in DOMAIN db.sources[i] /\ db.sources[i].order \in Int
        BY <1>2 DEF SourceColumns, SourcesOk
      <4>2. session[p].new.order \in Int
        BY <1>2, <2>1
      <4> QED BY <4>1, <4>2 DEF Flushed
    <3> HIDE DEF f
    <3>2. db'.sources = f /\ db'.rules = db.rules
      BY <1>2, <2>3 DEF f
    <3> QED BY <1>2, <2>2, <3>1, <3>2 DEF SourcesOk, IdsOk
  <2>4. CASE db' = db
    BY <1>2, <2>2, <2>4
  <2> QED BY <1>17, <2>3, <2>4 DEF CommitSource
<1> QED BY <1>2, <1>6, <1>7, <1>8, <1>9, <1>10, <1>11, <1>12, <1>13, <1>14, <1>15, <1>16, <1>17 DEF Edit

LEMMA ApplyKeepsOwn ==
    ASSUME DInv, NumberedInv, ApplyKey, phase' # "down"
    PROVE  Numbered(stage') /\ KeepsOwn(stage, stage')
<1>1. PICK key : stage' = [Effect(key, stage) EXCEPT !.ledger = @ \cup {key}]
  BY DEF ApplyKey, Fails
<1> DEFINE f == Effect(key, stage)
           x == f.ledger \cup {key}
<1>2. phase = "keys" /\ WellFormed(stage) /\ Numbered(stage)
  BY DEF ApplyKey, DInv, NumberedInv
<1>3. Numbered(f) /\ KeepsOwn(stage, f)
  BY <1>2, EffectKeepsOwn
<1>4. Tables \subseteq DOMAIN f
  BY <1>2, EffectIsOk DEF EffectOk, Tame, WellFormed
<1> HIDE DEF f
<1>5. stage' = [f EXCEPT !.ledger = x]
  BY <1>1 DEF f
<1> HIDE DEF x
<1> QED BY <1>3, <1>4, <1>5, RecordKeeps

LEMMA NumberedStep ==
    ASSUME DInv, NumberedInv, [Next]_vars PROVE NumberedInv'
<1>1. CASE UNCHANGED <<db, phase, stage, session>>
  BY <1>1 DEF NumberedInv, Numbered, Loaded
<1>2. CASE phase' = "down" /\ UNCHANGED <<db, session>>
  BY <1>2 DEF NumberedInv, Numbered, Loaded
<1>3. CASE Start
  BY <1>3 DEF Start, NumberedInv, Numbered, Loaded
<1>4. CASE SyncSchema
  <2>0. UNCHANGED <<db, session>>
    BY <1>4 DEF SyncSchema
  <2>1. CASE phase' = "seed" /\ stage' = stage
    BY <1>4, <2>0, <2>1 DEF SyncSchema, NumberedInv, Numbered, Loaded
  <2>2. CASE phase' = "seed" /\ stage' = SchemaUpgraded(stage)
    <3>1. WellFormed(stage) /\ Numbered(stage)
      BY <1>4 DEF SyncSchema, NumberedInv, DInv
    <3>2. stage'.rules = stage.rules /\ stage'.sources = stage.sources
      BY <2>2, <3>1 DEF SchemaUpgraded, WellFormed, Tables
    <3>3. Numbered(stage')
      BY <3>1, <3>2, NumberedParts
    <3> QED BY <2>0, <2>2, <3>3 DEF NumberedInv, Loaded
  <2> QED BY <1>2, <1>4, <2>0, <2>1, <2>2 DEF SyncSchema, Fails
<1>5. CASE SeedDefaults
  <2>0. UNCHANGED <<db, session>> /\ WellFormed(stage) /\ Numbered(stage)
    BY <1>5 DEF SeedDefaults, NumberedInv, DInv
  <2>1. CASE phase' = "keys" /\ stage' \in {stage, Seeded(stage)}
    <3>1. Numbered(stage')
      BY <2>0, <2>1, SeededKeeps
    <3> QED BY <2>0, <2>1, <3>1 DEF NumberedInv, Loaded
  <2> QED BY <1>2, <1>5, <2>0, <2>1 DEF SeedDefaults, Fails
<1>6. CASE ApplyKey
  <2>1. UNCHANGED <<db, session>>
    BY <1>6 DEF ApplyKey
  <2>2. CASE phase' = "down"
    BY <1>2, <2>1, <2>2
  <2>3. CASE phase' # "down"
    <3>1. Numbered(stage')
      BY <1>6, <2>3, ApplyKeepsOwn
    <3> QED BY <2>1, <3>1 DEF NumberedInv, Loaded
  <2> QED BY <2>2, <2>3
<1>7. CASE Publish
  <2>1. phase = "keys" /\ db' = stage /\ phase' = "up" /\ session' = session
    BY <1>7 DEF Publish
  <2> QED BY <2>1 DEF NumberedInv, Numbered, Loaded
<1>8. CASE Stop
  BY <1>8 DEF Stop, NumberedInv, Numbered, Loaded
<1>9. CASE NewRelease \/ Generate \/ Read \/ Answer \/ Close
  BY <1>1, <1>9 DEF NewRelease, Generate, Read, Answer, Close
<1> QED BY <1>1, <1>3, <1>4, <1>5, <1>6, <1>7, <1>8, <1>9, EditKeepsNumbers DEF Next, vars

LEMMA DatabaseInvariant == Spec => [](DInv /\ NumberedInv)
<1>1. Init => DInv /\ NumberedInv
  BY DatabasesAssumption DEF Init, DInv, NumberedInv, RegistryOk, SessionOk, Loaded, Misordered
<1>2. DInv /\ NumberedInv /\ [Next]_vars => DInv' /\ NumberedInv'
  BY DatabaseStep, NumberedStep
<1> QED BY <1>1, <1>2, PTL DEF Spec

(* Once the order of the built-in sources is repaired and recorded, it stays *)
(* right, over every later migration, release, crash and edit, as long as no *)
(* session writes on a row another edit has changed since it was loaded and  *)
(* no default rows are put beside it: these two and nothing else disturb it  *)
(* (data_migrations.py 253-309, configs.py 342-433, bootstrap.py 39-76).     *)
THEOREM OrderStaysRepaired == Spec => []OrderOnceRepaired
<1>1. DInv => OrderOnceRepaired
  BY DEF DInv, Misordered, OrderOnceRepaired
<1> QED BY <1>1, DatabaseInvariant, PTL

(* A start brings back what a recorded migration made and the user deleted   *)
(* only when it takes the database for a new one, that has no region, no     *)
(* service of a default name and no profile of the default name; and never   *)
(* the keywords (data_migrations.py 3-5 and 387-408, bootstrap.py 39-76).    *)
THEOREM DeletedNeverReturns == Spec => DeletedStayDeleted
<1>1. DInv /\ [Next]_vars => [\A key \in {"security", "douyin", "retire"} :
            phase # "up" /\ key \in db.ledger /\ Absent(key, db)
                => Absent(key, db') \/ (Vacant(db) /\ key # "retire")]_vars
  <2> SUFFICES ASSUME DInv, [Next]_vars, NEW key \in Watched, phase # "up",
                      key \in db.ledger, Absent(key, db)
               PROVE  Absent(key, db') \/ (Vacant(db) /\ key # "retire")
    BY DEF Watched
  <2>1. CASE db' = db
    BY <2>1 DEF Absent
  <2>2. CASE Publish
    <3>1. phase = "keys" /\ db' = stage /\ Upgraded(db, stage)
      BY <2>2 DEF Publish, DInv
    <3>2. Absent(key, stage) \/ (Vacant(db) /\ key # "retire")
      BY <3>1 DEF Upgraded, KeepsAbsent
    <3> QED BY <3>1, <3>2 DEF Absent
  <2>3. CASE Edit
    BY <2>3, EditIsUp
  <2> QED BY <2>1, <2>2, <2>3 DEF Next, vars, Start, SyncSchema, SeedDefaults, ApplyKey, Stop,
                                  NewRelease, Generate, Read, Answer, Close
<1> QED BY <1>1, DatabaseInvariant, PTL DEF Spec, DeletedStayDeleted

(* A migration leaves alone what is the user's: own sources keep their rows  *)
(* and their order among themselves, own rules and own settings but geoip    *)
(* stay, in whatever table of rules and sources (the docstrings of           *)
(* data_migrations.py 40-369, 112 for geoip).                                *)
THEOREM OwnRowsAlwaysKept == Spec => OwnRowsKept
<1> DEFINE A == phase = "keys" /\ phase' # "down" =>
                    KeepsOwn(stage, IF phase' = "up" THEN db' ELSE stage')
<1>1. DInv /\ NumberedInv /\ [Next]_vars => [A]_vars
  <2> SUFFICES ASSUME DInv, NumberedInv, [Next]_vars, phase = "keys", phase' # "down"
               PROVE  KeepsOwn(stage, IF phase' = "up" THEN db' ELSE stage')
    BY DEF A
  <2>1. Numbered(stage)
    BY DEF NumberedInv
  <2>2. CASE phase' = "keys" /\ stage' = stage
    BY <2>1, <2>2, NothingWritten
  <2>3. CASE Publish
    <3>1. db' = stage /\ phase' = "up"
      BY <2>3 DEF Publish
    <3> QED BY <2>1, <3>1, NothingWritten
  <2>4. CASE ApplyKey
    <3>1. phase' = "keys"
      BY <2>4 DEF ApplyKey, Fails
    <3> QED BY <2>4, <3>1, ApplyKeepsOwn
  <2> QED BY <2>2, <2>3, <2>4, EditIsUp
      DEF Next, vars, Start, SyncSchema, SeedDefaults, Fails, Stop, NewRelease,
        Generate, Read, Answer, Close
<1> QED BY <1>1, DatabaseInvariant, PTL DEF Spec, OwnRowsKept

-------------------------------------------------------------------------------
(* What could be generated before can be generated after *)

(* The rows that decide which names are defined, and that no business        *)
(* migration writes.                                                         *)
Alike(d, e) ==
    /\ e.nodes = d.nodes /\ e.regions = d.regions /\ e.services = d.services
    /\ e.other = d.other /\ e.final = d.final

LEMMA SameNames ==
    ASSUME NEW d, NEW e, Alike(d, e), NEW language
    PROVE  /\ Shown(e) = Shown(d) /\ Groups(e, language) = Groups(d, language)
           /\ Available(e, language) = Available(d, language)
<1>1. Shown(e) = Shown(d)
  BY DEF Shown, Alike
<1>2. AutoRegions(e) = AutoRegions(d) /\ ManualRegions(e) = ManualRegions(d)
  BY DEF AutoRegions, ManualRegions, Alike
<1>3. Groups(e, language) = Groups(d, language)
  BY <1>2 DEF Groups, Alike
<1> QED BY <1>1, <1>3 DEF Available

\* Refused for something else than the order of the sources.
Refused(d, language, ios) ==
    \/ \E i \in Enabled(d.rules) : d.rules[i].form = "lines"
    \/ \E i \in Custom(d, ios) : d.rules[i].form = "final"
    \/ InvalidReference(d, language, ios)
Serves(d, e) ==
    /\ Alike(d, e)
    /\ \A language \in Languages, ios \in BOOLEAN :
            ~Refused(d, language, ios) => ~Refused(e, language, ios)

\* A policy that exists in every language.
Exists(n, d) == n # NoName /\ \A language \in Languages : Resolve(n, d, language) \in Available(d, language)

LEMMA ServiceExists ==
    ASSUME NEW d, NEW s \in Enabled(d.services), s # ""
    PROVE  Exists(Plain(s), d)
<1>1. Plain(s) # NoName
  BY DEF Plain, NoName
<1> SUFFICES ASSUME NEW language \in Languages
             PROVE  Resolve(Plain(s), d, language) \in Available(d, language)
  BY <1>1 DEF Exists
<1>2. CASE Plain(s) \in Builtin
  BY <1>2 DEF Resolve, Available
<1>3. CASE s \in Shown(d)
  BY <1>3 DEF Resolve, Available, Plain
<1>4. CASE Plain(s) \notin Builtin /\ s \notin Shown(d)
  <2>1. Resolve(Plain(s), d, language) = Translate(Plain(s), language)
    BY <1>4 DEF Resolve, Plain
  <2>2. \E members : Group(Translate(Plain(s), language), members) \in Groups(d, language)
    BY DEF Groups
  <2>3. \E g \in Groups(d, language) : g.name = Translate(Plain(s), language)
    BY <2>2 DEF Group
  <2> QED BY <2>1, <2>3 DEF Available
<1> QED BY <1>2, <1>3, <1>4

LEMMA BuiltinExists ==
    ASSUME NEW d PROVE Exists(Plain("DIRECT"), d)
BY DEF Exists, Plain, NoName, Resolve, Builtin, Available

(* Rows that are as they were, or new with a policy that exists, are not     *)
(* refused.                                                                  *)
LEMMA RowsServe ==
    ASSUME NEW d, NEW e, Alike(d, e),
           \A i \in DOMAIN e.rules :
                \/ i \in DOMAIN d.rules /\ e.rules[i] = d.rules[i]
                \/ e.rules[i].form = "plain" /\ Exists(e.rules[i].policy, d),
           \A i \in Enabled(e.sources) :
                \/ i \in Enabled(d.sources) /\ e.sources[i].action = d.sources[i].action
                \/ Exists(e.sources[i].action, d)
    PROVE  Serves(d, e)
<1> SUFFICES ASSUME NEW language \in Languages, NEW ios \in BOOLEAN, ~Refused(d, language, ios)
             PROVE  ~Refused(e, language, ios)
  BY DEF Serves
<1> DEFINE available == Available(d, language)
           Fits(n) == n # NoName /\ Resolve(n, d, language) \in available
<1>1. /\ Available(e, language) = available /\ Groups(e, language) = Groups(d, language)
      /\ \A n : Resolve(n, e, language) = Resolve(n, d, language)
  BY SameNames DEF Resolve
<1>2. \A i \in Enabled(d.rules) : d.rules[i].form # "lines"
  BY DEF Refused
<1>3. \A i \in Custom(d, ios) : d.rules[i].form \notin {"final", "text"} /\ Fits(d.rules[i].policy)
  BY DEF Refused, InvalidReference
<1>4. \A i \in Enabled(d.sources) : Fits(d.sources[i].action)
  BY DEF Refused, InvalidReference
<1>5. \A g \in Groups(d, language) : g.members \subseteq available
  BY DEF Refused, InvalidReference
<1>6. Fits(d.final)
  BY DEF Refused, InvalidReference
<1>7. \A n : Exists(n, d) => Fits(n)
  BY DEF Exists
<1> HIDE DEF available, Fits
<1>8. \A i \in Enabled(e.rules) : e.rules[i].form # "lines"
  BY <1>2 DEF Enabled
<1>9. \A i \in Custom(e, ios) : e.rules[i].form \notin {"final", "text"} /\ Fits(e.rules[i].policy)
  BY <1>3, <1>7 DEF Custom, Enabled, Excluded
<1>10. \A i \in Enabled(e.sources) : Fits(e.sources[i].action)
  BY <1>4, <1>7
<1>11. Fits(e.final)
  BY <1>6 DEF Alike
<1>12. ~InvalidReference(e, language, ios)
  BY <1>1, <1>5, <1>9, <1>10, <1>11 DEF InvalidReference, Fits
<1> QED BY <1>8, <1>9, <1>12 DEF Refused

LEMMA EffectServes ==
    ASSUME NEW d, WellFormed(d), Usable(d), NEW key
    PROVE  Serves(d, Effect(key, d))
<1>0. /\ \A i \in DOMAIN d.sources : SourceColumns \subseteq DOMAIN d.sources[i]
      /\ Exists(Plain("AI"), d) /\ Exists(Plain("Mainland"), d)
      /\ Tables \subseteq DOMAIN d
  BY ServiceExists DEF WellFormed, Usable
<1>1. ASSUME NEW e, DOMAIN e = DOMAIN d, \A c \in DOMAIN d \ {"rules", "sources", "general", "keyword"} : e[c] = d[c]
      PROVE  Alike(d, e)
  BY <1>0, <1>1 DEF Alike, Tables
<1>2. ASSUME NEW e, DOMAIN e = DOMAIN d, \A c \in DOMAIN d \ {"general", "keyword"} : e[c] = d[c]
      PROVE  Serves(d, e)
  <2>1. Alike(d, e)
    BY <1>1, <1>2
  <2>2. e.rules = d.rules /\ e.sources = d.sources
    BY <1>0, <1>2 DEF Tables
  <2> QED BY <2>1, <2>2, RowsServe
<1>3. ASSUME NEW rows, \A i \in DOMAIN rows : \/ i \in DOMAIN d.rules /\ rows[i] = d.rules[i]
                                              \/ rows[i].form = "plain" /\ Exists(rows[i].policy, d)
      PROVE  Serves(d, [d EXCEPT !.rules = rows])
  <2> DEFINE e == [d EXCEPT !.rules = rows]
  <2>1. DOMAIN e = DOMAIN d /\ \A c \in DOMAIN d \ {"rules"} : e[c] = d[c]
    OBVIOUS
  <2>2. e.rules = rows /\ e.sources = d.sources
    BY <1>0 DEF Tables
  <2> HIDE DEF e
  <2>3. Alike(d, e)
    BY <1>1, <2>1
  <2>4. Serves(d, e)
    BY <1>3, <2>2, <2>3, RowsServe
  <2> QED BY <2>4 DEF e
<1>4. ASSUME NEW rows, \A i \in Enabled(rows) :
                \/ i \in Enabled(d.sources) /\ rows[i].action = d.sources[i].action
                \/ Exists(rows[i].action, d)
      PROVE  Serves(d, [d EXCEPT !.sources = rows])
  <2> DEFINE e == [d EXCEPT !.sources = rows]
  <2>1. DOMAIN e = DOMAIN d /\ \A c \in DOMAIN d \ {"sources"} : e[c] = d[c]
    OBVIOUS
  <2>2. e.sources = rows /\ e.rules = d.rules
    BY <1>0 DEF Tables
  <2> HIDE DEF e
  <2>3. Alike(d, e)
    BY <1>1, <2>1
  <2>4. Serves(d, e)
    BY <1>4, <2>2, <2>3, RowsServe
  <2> QED BY <2>4 DEF e
<1>5. ASSUME NEW gone PROVE Serves(d, [d EXCEPT !.rules = Without(@, gone)])
  <2>1. \A i \in DOMAIN Without(d.rules, gone) :
            i \in DOMAIN d.rules /\ Without(d.rules, gone)[i] = d.rules[i]
    BY DEF Without
  <2> QED BY <2>1, <1>3
<1>6. Serves(d, d)
  BY <1>2
<1>7. CASE key = "security"
  <2>1. \A i \in DOMAIN Insert(d.rules, SecurityRule) :
            \/ i \in DOMAIN d.rules /\ Insert(d.rules, SecurityRule)[i] = d.rules[i]
            \/ Insert(d.rules, SecurityRule)[i] = SecurityRule
    BY DEF Insert
  <2>2. Serves(d, [d EXCEPT !.rules = Insert(d.rules, SecurityRule)])
    BY <2>1, <1>0, <1>3, DefaultsAssumption
  <2> QED BY <1>7, <2>2, <1>6 DEF Effect, SecurityRules
<1>8. CASE key = "douyin"
  <2> DEFINE s == Shifted(d.sources, Defaults["DouYin"].order)
             row == DefaultSource("DouYin")
  <2>1. DOMAIN s = DOMAIN d.sources
        /\ \A i \in DOMAIN s : s[i].enabled = d.sources[i].enabled /\ s[i].action = d.sources[i].action
    BY <1>0 DEF Shifted, SourceColumns
  <2>2. row.action = Plain("Mainland")
    BY DefaultsAssumption DEF DefaultSource
  <2> HIDE DEF s, row
  <2>3. \A i \in DOMAIN Insert(s, row) : \/ i \in DOMAIN s /\ Insert(s, row)[i] = s[i]
                                         \/ Insert(s, row)[i] = row
    BY DEF Insert
  <2>4. \A i \in Enabled(Insert(s, row)) :
            \/ i \in Enabled(d.sources) /\ Insert(s, row)[i].action = d.sources[i].action
            \/ Exists(Insert(s, row)[i].action, d)
    BY <2>1, <2>2, <2>3, <1>0 DEF Enabled
  <2>5. Serves(d, [d EXCEPT !.sources = Insert(s, row)])
    BY <2>4, <1>4
  <2> QED BY <1>8, <2>5, <1>6 DEF Effect, DouyinRule, s, row
<1>9. CASE key \in {"ipv6", "dns", "keywords", "retire"}
  <2>1. PICK x, y : Effect(key, d) \in {d, [d EXCEPT !.general = x], [d EXCEPT !.keyword = y]}
    BY <1>9 DEF Effect, Ipv6Vif, DnsDefaults, NoResolveKeywords, RetireKeywords
  <2>2. Serves(d, [d EXCEPT !.general = x]) /\ Serves(d, [d EXCEPT !.keyword = y])
    BY <1>2
  <2> QED BY <2>1, <2>2, <1>6
<1>10. CASE key \in {"quic", "udp"}
  <2>1. PICK gone : Effect(key, d) = [d EXCEPT !.rules = Without(@, gone)]
    BY <1>10 DEF Effect, RemoveGlobalQuic, UdpModes
  <2> QED BY <2>1, <1>5
<1>11. CASE key = "dangling"
  <2> DEFINE fallback == Plain(IF "Global" \in Enabled(d.services) THEN "Global" ELSE "DIRECT")
             rows == [i \in DOMAIN d.sources |->
                        IF Dangling(d, d.sources[i]) THEN [d.sources[i] EXCEPT !.action = fallback]
                        ELSE d.sources[i]]
  <2>1. Exists(fallback, d)
    BY ServiceExists, BuiltinExists
  <2>2. Effect(key, d) = [d EXCEPT !.sources = rows]
    BY <1>11 DEF Effect, DanglingActions
  <2> HIDE DEF fallback
  <2>3. DOMAIN rows = DOMAIN d.sources
        /\ \A i \in DOMAIN rows : /\ rows[i].enabled = d.sources[i].enabled
                                  /\ rows[i].action \in {fallback, d.sources[i].action}
    BY <1>0 DEF SourceColumns
  <2> HIDE DEF rows
  <2>4. Serves(d, [d EXCEPT !.sources = rows])
    BY <2>1, <2>3, <1>4 DEF Enabled
  <2> QED BY <2>2, <2>4
<1>12. CASE key \in {"ipflags", "order"}
  <2>1. PICK rows : /\ Effect(key, d) = [d EXCEPT !.sources = rows]
                    /\ DOMAIN rows = DOMAIN d.sources
                    /\ \A i \in DOMAIN rows : /\ rows[i].enabled = d.sources[i].enabled
                                              /\ rows[i].action = d.sources[i].action
    <3>1. CASE key = "ipflags"
      <4> DEFINE r == [i \in DOMAIN d.sources |-> Flagged(d.sources[i])]
      <4>1. Effect(key, d) = [d EXCEPT !.sources = r]
        BY <3>1 DEF Effect, IpFlags
      <4>2. \A i \in DOMAIN r : /\ r[i].enabled = d.sources[i].enabled
                                /\ r[i].action = d.sources[i].action
        BY <1>0 DEF Flagged, SourceColumns
      <4> QED BY <4>1, <4>2
    <3>2. CASE key = "order"
      <4> DEFINE r == Repaired(d.sources)
      <4>1. Effect(key, d) = [d EXCEPT !.sources = r]
        BY <3>2 DEF Effect, OrderRepaired
      <4>2. DOMAIN r = DOMAIN d.sources
            /\ \A i \in DOMAIN r : /\ r[i].enabled = d.sources[i].enabled
                                   /\ r[i].action = d.sources[i].action
        BY <1>0 DEF Repaired, SourceColumns
      <4> QED BY <4>1, <4>2
    <3> QED BY <1>12, <3>1, <3>2
  <2>2. Serves(d, [d EXCEPT !.sources = rows])
    BY <2>1, <1>4 DEF Enabled
  <2> QED BY <2>1, <2>2
<1>13. CASE key \notin {"security", "douyin", "ipv6", "dns", "quic", "keywords", "dangling",
                       "ipflags", "order", "retire", "udp"}
  <2>1. Effect(key, d) = d
    BY <1>13 DEF Effect
  <2> QED BY <2>1, <1>6
<1> QED BY <1>7, <1>8, <1>9, <1>10, <1>11, <1>12, <1>13

(* The staging copy serves what the live database served, but for the order  *)
(* of its sources: the migration of DouYin may disturb it, the repair of the *)
(* order comes later and is checked.                                         *)
ServeInv ==
    /\ phase = "schema" => stage = db
    /\ phase \in {"seed", "keys"} /\ db.schema = "0006" /\ Usable(db) => Serves(db, stage)

LEMMA ServesOn ==
    ASSUME NEW a, NEW b, NEW c, Serves(a, b), Serves(b, c) PROVE Serves(a, c)
BY DEF Serves, Alike

LEMMA ServeStep ==
    ASSUME DInv, ServeInv, [Next]_vars PROVE ServeInv'
<1>1. CASE phase' \in {"down", "up"}
  BY <1>1 DEF ServeInv
<1>2. CASE UNCHANGED <<db, phase, stage>>
  BY <1>2 DEF ServeInv, Usable, Serves, Alike
<1>3. CASE Start
  BY <1>1, <1>3 DEF Start, ServeInv
<1>4. CASE SyncSchema
  <2>1. CASE phase' = "down"
    BY <2>1, <1>1
  <2>2. CASE db.schema = "0006" /\ phase' # "down"
    <3>1. stage' = db /\ db' = db
      BY <1>4, <2>2 DEF SyncSchema, ServeInv, Fails
    <3>2. Serves(db, db)
      BY DEF Serves, Alike
    <3> QED BY <1>4, <3>1, <3>2, <2>2 DEF SyncSchema, ServeInv
  <2>3. CASE db.schema # "0006"
    BY <1>4, <2>3 DEF SyncSchema, ServeInv, Fails
  <2> QED BY <2>1, <2>2, <2>3
<1>5. CASE SeedDefaults
  <2>1. CASE phase' = "down"
    BY <2>1, <1>1
  <2>2. CASE stage' = stage /\ phase' = "keys"
    BY <1>5, <2>2 DEF SeedDefaults, ServeInv
  <2>3. CASE Vacant(stage) /\ phase' = "keys" /\ db' = db
    <3>1. ASSUME db.schema = "0006", Usable(db) PROVE FALSE
      <4>1. stage.services = db.services
        BY <1>5, <3>1 DEF SeedDefaults, ServeInv, Serves, Alike
      <4>2. "AI" \in DOMAIN stage.services /\ "AI" \in DOMAIN Seeds.services
        BY <4>1, <3>1, SeedsAssumption DEF Usable, Enabled
      <4> QED BY <4>2, <2>3 DEF Vacant, SeedsClash
    <3> QED BY <2>3, <3>1 DEF ServeInv
  <2> QED BY <1>5, <2>1, <2>2, <2>3 DEF SeedDefaults, Fails
<1>6. CASE ApplyKey
  <2>1. PICK key : \/ phase' = "down"
                   \/ /\ phase = "keys" /\ phase' = "keys" /\ db' = db
                      /\ stage' = [Effect(key, stage) EXCEPT !.ledger = @ \cup {key}]
    BY <1>6 DEF ApplyKey, Fails
  <2>2. CASE phase' = "down"
    BY <2>2, <1>1
  <2>3. CASE phase' # "down" /\ db.schema = "0006" /\ Usable(db)
    <3> DEFINE f == Effect(key, stage)
    <3>1. WellFormed(stage) /\ Serves(db, stage)
      BY <2>1, <2>3 DEF DInv, ServeInv
    <3>2. Usable(stage)
      BY <3>1, <2>3 DEF Usable, Serves, Alike
    <3>3. Serves(stage, f) /\ Tame(stage, f)
      BY <3>1, <3>2, EffectServes, EffectIsOk DEF EffectOk
    <3>4. Tables \subseteq DOMAIN f
      BY <3>1, <3>3 DEF Tame, WellFormed
    <3> HIDE DEF f
    <3>5. stage' = [f EXCEPT !.ledger = @ \cup {key}]
      BY <2>1, <2>3 DEF f
    <3>6. Alike(f, stage') /\ stage'.rules = f.rules /\ stage'.sources = f.sources
      BY <3>4, <3>5 DEF Alike, Tables
    <3>7. Serves(f, stage')
      BY <3>6, RowsServe DEF Enabled
    <3>8. Serves(db, stage')
      BY <3>1, <3>3, <3>7, ServesOn
    <3> QED BY <3>8, <2>1, <2>3 DEF ServeInv
  <2>4. CASE phase' # "down" /\ ~(db.schema = "0006" /\ Usable(db))
    <3>1. db' = db /\ phase' = "keys"
      BY <2>1, <2>4
    <3> QED BY <2>4, <3>1 DEF ServeInv
  <2> QED BY <2>2, <2>3, <2>4
<1>7. CASE Publish \/ Stop
  BY <1>1, <1>7 DEF Publish, Stop
<1>8. CASE NewRelease \/ Generate \/ Read \/ Answer \/ Close
  BY <1>2, <1>8 DEF NewRelease, Generate, Read, Answer, Close
<1>9. CASE Edit
  <2>1. phase' = "up"
    BY <1>9, EditIsUp
  <2> QED BY <2>1, <1>1
<1> QED BY <1>2, <1>3, <1>4, <1>5, <1>6, <1>7, <1>8, <1>9 DEF Next, vars

(* What could be generated before an upgrade can be generated after it, in   *)
(* both languages and for both targets: no migration, in whatever ledger it  *)
(* finds its place, leaves a reference or an order that the validation       *)
(* refuses (data_migrations.py 40-369, config_validation.py 126-332).        *)
THEOREM UpgradeAlwaysServes == Spec => UpgradeKeepsServing
<1> DEFINE A == phase = "keys" /\ phase' = "up" /\ db.schema = "0006" /\ Usable(db) =>
          \A a \in Asked : ~Invalid(db, a.language, a.ios) => ~Invalid(db', a.language, a.ios)
<1>1. Init => ServeInv
  BY DEF Init, ServeInv
<1>2. DInv /\ ServeInv /\ [Next]_vars => [A]_vars
  <2> SUFFICES ASSUME DInv, ServeInv, [Next]_vars,
                      phase = "keys", phase' = "up", db.schema = "0006", Usable(db),
                      NEW a \in Asked, ~Invalid(db, a.language, a.ios)
               PROVE  ~Invalid(db', a.language, a.ios)
    BY DEF A
  <2>1. Publish
    BY EditIsUp DEF Next, vars, Start, SyncSchema, SeedDefaults, ApplyKey, Fails, Stop, NewRelease,
        Generate, Read, Answer, Close
  <2>2. db' = stage /\ Pending(stage) = {} /\ WellFormed(stage) /\ RegistryOk
    BY <2>1 DEF Publish, DInv
  <2>3. "order" \in stage.ledger
    <3>1. 9 \in DOMAIN registry /\ registry[9] = "order"
      <4>1. CASE registry = Published
        BY <4>1 DEF Published
      <4>2. CASE registry = Append(Published, "later")
        BY <4>2 DEF Published
      <4> QED BY <2>2, <4>1, <4>2 DEF RegistryOk
    <3> QED BY <2>2, <3>1 DEF Pending
  <2>4. Misplaced(stage.sources) = {}
    <3>1. ~Misordered(db) /\ ~Vacant(db)
      BY SeedsAssumption DEF Invalid, Misordered, Usable, Enabled, Vacant, SeedsClash
    <3>2. Upgraded(db, stage)
      BY DEF DInv
    <3> QED BY <2>3, <3>1, <3>2 DEF Upgraded, Misordered
  <2>5. a.language \in Languages /\ a.ios \in BOOLEAN
    BY DEF Asked
  <2>6. ~Refused(stage, a.language, a.ios)
    BY <2>5 DEF ServeInv, Serves, Invalid, Refused
  <2> QED BY <2>2, <2>4, <2>6 DEF Invalid, Refused
<1>3. Spec => []ServeInv
  BY <1>1, DatabaseInvariant, ServeStep, PTL DEF Spec
<1> QED BY <1>2, <1>3, DatabaseInvariant, PTL DEF Spec, UpgradeKeepsServing

-------------------------------------------------------------------------------
(* What 0006 makes of the nodes and subscriptions *)

\* The row of an old database that a start finds is untouched when 0006 runs.
OldInv ==
    /\ db.schema # "0006" => db \in Databases /\ phase # "up"
    /\ phase = "schema" => stage = db
    /\ phase \in {"seed", "keys"} => stage.schema = "0006"

(* The tables a business migration may write.                                *)
LEMMA EffectWrites ==
    ASSUME NEW d, NEW key
    PROVE  /\ DOMAIN Effect(key, d) = DOMAIN d
           /\ \A c \in DOMAIN d \ {"rules", "sources", "general", "keyword"} : Effect(key, d)[c] = d[c]
<1>1. CASE key \in {"security", "quic", "udp"}
  <2>1. PICK x : Effect(key, d) \in {d, [d EXCEPT !.rules = x]}
    BY <1>1 DEF Effect, SecurityRules, RemoveGlobalQuic, UdpModes
  <2> QED BY <2>1
<1>2. CASE key \in {"douyin", "dangling", "ipflags", "order"}
  <2>1. PICK x : Effect(key, d) \in {d, [d EXCEPT !.sources = x]}
    BY <1>2 DEF Effect, DouyinRule, DanglingActions, IpFlags, OrderRepaired
  <2> QED BY <2>1
<1>3. CASE key \in {"ipv6", "dns", "keywords", "retire"}
  <2>1. PICK x, y : Effect(key, d) \in {d, [d EXCEPT !.general = x], [d EXCEPT !.keyword = y]}
    BY <1>3 DEF Effect, Ipv6Vif, DnsDefaults, NoResolveKeywords, RetireKeywords
  <2> QED BY <2>1
<1>4. CASE key \notin {"security", "douyin", "ipv6", "dns", "quic", "keywords", "dangling",
                      "ipflags", "order", "retire", "udp"}
  BY <1>4 DEF Effect
<1> QED BY <1>1, <1>2, <1>3, <1>4

LEMMA EffectIsAlike ==
    ASSUME NEW d, WellFormed(d), NEW key
    PROVE  Effect(key, d).schema = d.schema /\ Alike(d, Effect(key, d))
<1> DEFINE e == Effect(key, d)
<1>1. \A c \in Tables \ {"rules", "sources", "general", "keyword"} : e[c] = d[c]
  BY EffectWrites DEF WellFormed
<1> HIDE DEF e
<1>2. e.schema = d.schema /\ Alike(d, e)
  BY <1>1 DEF Tables, Alike
<1> QED BY <1>2 DEF e

LEMMA OldStep ==
    ASSUME DInv, NumberedInv, OldInv, [Next]_vars PROVE OldInv'
<1>1. CASE UNCHANGED <<db, phase, stage>>
  BY <1>1 DEF OldInv
<1>2. CASE Start
  BY <1>2 DEF Start, OldInv
<1>3. CASE SyncSchema
  <2>1. WellFormed(stage) /\ phase = "schema" /\ db' = db
    BY <1>3 DEF SyncSchema, DInv
  <2>2. SchemaUpgraded(stage).schema = "0006"
    BY <2>1 DEF SchemaUpgraded, WellFormed, Tables
  <2> QED BY <2>1, <2>2, <1>3 DEF SyncSchema, OldInv, Fails
<1>4. CASE SeedDefaults
  <2>1. Seeded(stage).schema = stage.schema
    BY <1>4, SeededKeeps DEF SeedDefaults, DInv, NumberedInv
  <2> QED BY <2>1, <1>4 DEF SeedDefaults, OldInv, Fails
<1>5. CASE ApplyKey
  <2>1. PICK key : \/ phase' = "down" /\ db' = db
                   \/ /\ phase = "keys" /\ phase' = "keys" /\ db' = db
                      /\ stage' = [Effect(key, stage) EXCEPT !.ledger = @ \cup {key}]
    BY <1>5 DEF ApplyKey, Fails
  <2>2. CASE phase' = "down"
    BY <2>1, <2>2 DEF OldInv
  <2>3. CASE phase' # "down"
    <3>1. WellFormed(stage) /\ stage.schema = "0006"
      BY <2>1, <2>3 DEF DInv, OldInv
    <3>2. Effect(key, stage).schema = "0006"
      BY <3>1, EffectIsAlike
    <3>3. stage'.schema = "0006"
      <4> DEFINE f == Effect(key, stage)
      <4> HIDE DEF f
      <4>1. stage' = [f EXCEPT !.ledger = @ \cup {key}]
        BY <2>1, <2>3 DEF f
      <4> QED BY <3>2, <4>1 DEF f
    <3> QED BY <2>1, <2>3, <3>3 DEF OldInv
  <2> QED BY <2>2, <2>3
<1>6. CASE Publish
  BY <1>6 DEF Publish, OldInv
<1>7. CASE Stop
  BY <1>7 DEF Stop, OldInv
<1>8. CASE NewRelease \/ Generate \/ Read \/ Answer \/ Close
  BY <1>1, <1>8 DEF NewRelease, Generate, Read, Answer, Close
<1>9. CASE Edit
  <2>1. phase = "up" /\ phase' = "up"
    BY <1>9, EditIsUp
  <2>2. db.schema = "0006" /\ "schema" \in DOMAIN db
    BY <2>1 DEF OldInv, DInv, WellFormed, Tables
  <2>3. db'.schema = "0006"
    BY <1>9, <2>2, EditTables DEF Within
  <2> QED BY <2>1, <2>3 DEF OldInv
<1> QED BY <1>1, <1>2, <1>3, <1>4, <1>5, <1>6, <1>7, <1>8, <1>9 DEF Next, vars

LEMMA WeightOrder ==
    ASSUME NEW n
    PROVE  Weight(n) \in Nat /\ (n.region # "" <=> Weight(n) <= 3)
<1> DEFINE a == IF n.region = "" THEN 4 ELSE 0
           b == IF n.pins = {} THEN 2 ELSE 0
           c == IF n.enabled THEN 1 ELSE 0
           w == Weight(n)
<1>1. (n.region = "" /\ a = 4) \/ (n.region # "" /\ a = 0)
  BY Zenon
<1>2. b \in {0, 2} /\ c \in {0, 1}
  BY Zenon
<1>3. w = a + b + c
  BY Zenon DEF Weight
<1> HIDE DEF a, b, c, w
<1>4. ASSUME a = 4 PROVE w \in Nat /\ ~(w <= 3)
  BY <1>2, <1>3, <1>4
<1>5. ASSUME a = 0 PROVE w \in Nat /\ w <= 3
  BY <1>2, <1>3, <1>5
<1> QED BY <1>1, <1>4, <1>5, Zenon DEF w

(* Of the rows of one connection exactly one survives, and none of them      *)
(* outranks it.                                                              *)
LEMMA OneSurvivor ==
    ASSUME NEW nodes, DOMAIN nodes \subseteq Nat, NEW i \in DOMAIN nodes, nodes[i].sub # 0
    PROVE  \E s \in Twins(nodes, i) :
              /\ Survivors(nodes) \cap Twins(nodes, i) = {s}
              /\ Twins(nodes, s) = Twins(nodes, i)
              /\ Weight(nodes[s]) <= Weight(nodes[i])
<1> DEFINE twins == Twins(nodes, i)
           W(j) == Weight(nodes[j])
           weights == {W(j) : j \in twins}
<1>1. \A j \in DOMAIN nodes : W(j) \in Nat
  BY WeightOrder
<1>2. i \in twins /\ twins \subseteq DOMAIN nodes
  BY DEF Twins
<1>3. \A j \in twins : nodes[j].sub # 0 /\ Twins(nodes, j) = twins
  BY DEF Twins
<1> HIDE DEF twins, W
<1>4. weights \in SUBSET Nat /\ weights # {}
  BY <1>1, <1>2
<1>5. PICK w \in weights : \A m \in weights : w <= m
  BY <1>4, LeastNatural
<1> DEFINE light == {j \in twins : W(j) = w}
<1>6. light \in SUBSET Nat /\ light # {}
  BY <1>2, <1>5
<1>7. PICK s \in light : \A j \in light : s <= j
  BY <1>6, LeastNatural
<1>8. s \in twins /\ \A j \in twins : W(s) <= W(j) /\ (W(s) = W(j) => s <= j)
  BY <1>5, <1>7
<1>9. \A j \in twins \ {s} : Outranks(nodes, s, j) /\ ~Outranks(nodes, j, s)
  <2> SUFFICES ASSUME NEW j \in twins \ {s}
               PROVE  Outranks(nodes, s, j) /\ ~Outranks(nodes, j, s)
    OBVIOUS
  <2>1. /\ W(s) \in Nat /\ W(j) \in Nat /\ s \in Nat /\ j \in Nat
        /\ W(s) <= W(j) /\ (W(s) = W(j) => s <= j)
    BY <1>1, <1>2, <1>8
  <2> QED BY <2>1 DEF Outranks, W
<1>10. s \in Survivors(nodes)
  BY <1>2, <1>3, <1>8, <1>9 DEF Survivors
<1>11. \A j \in twins \ {s} : j \notin Survivors(nodes)
  BY <1>3, <1>8, <1>9 DEF Survivors
<1> QED BY <1>2, <1>3, <1>8, <1>10, <1>11 DEF twins, W

LEMMA MergeKeeps ==
    ASSUME NEW nodes, DOMAIN nodes \subseteq Nat,
           \A i \in DOMAIN nodes : NodeColumns \subseteq DOMAIN nodes[i] /\ nodes[i].enabled \in BOOLEAN,
           NEW i \in DOMAIN nodes
    PROVE  LET n == nodes[i]
               rows == {j \in DOMAIN Merged(nodes) :
                            Merged(nodes)[j].sub = n.sub /\ Merged(nodes)[j].conn = n.conn}
           IN  IF n.sub = 0 THEN i \in rows /\ Merged(nodes)[i] = n
               ELSE \E j \in rows : rows = {j} /\ Keeps(n, Merged(nodes)[j])
<1> DEFINE e == Merged(nodes)
           rows == {j \in DOMAIN e : e[j].sub = nodes[i].sub /\ e[j].conn = nodes[i].conn}
<1>1. DOMAIN e = Survivors(nodes) /\ Survivors(nodes) \subseteq DOMAIN nodes
      /\ \A j \in Survivors(nodes) : e[j] = MergedRow(nodes, j)
  BY DEF Merged, Survivors
<1>2. \A j \in DOMAIN nodes : /\ MergedRow(nodes, j).sub = nodes[j].sub
                              /\ MergedRow(nodes, j).conn = nodes[j].conn
                              /\ MergedRow(nodes, j).region = nodes[j].region
  BY DEF MergedRow, NodeColumns
<1>3. CASE nodes[i].sub = 0
  BY <1>1, <1>2, <1>3 DEF Survivors, MergedRow
<1>4. CASE nodes[i].sub # 0
  <2>1. PICK s \in Twins(nodes, i) :
              /\ Survivors(nodes) \cap Twins(nodes, i) = {s}
              /\ Twins(nodes, s) = Twins(nodes, i)
              /\ Weight(nodes[s]) <= Weight(nodes[i])
    BY <1>4, OneSurvivor
  <2>2. rows = Survivors(nodes) \cap Twins(nodes, i)
    BY <1>1, <1>2, <1>4 DEF Twins
  <2>3. i \in Twins(nodes, i) /\ s \in DOMAIN nodes /\ nodes[s].sub # 0
    BY <1>4, <2>1 DEF Twins
  <2>4. e[s] = [nodes[s] EXCEPT !.pins = UNION {nodes[j].pins : j \in Twins(nodes, s)},
                                !.enabled = \A j \in Twins(nodes, s) : nodes[j].enabled]
    BY <1>1, <2>1, <2>3 DEF MergedRow
  <2>5. nodes[i].pins \subseteq e[s].pins
    BY <2>1, <2>3, <2>4 DEF NodeColumns
  <2>6. nodes[i].enabled \/ ~e[s].enabled
    <3>1. e[s].enabled = (\A j \in Twins(nodes, s) : nodes[j].enabled)
      BY <2>3, <2>4 DEF NodeColumns
    <3> QED BY <3>1, <2>1, <2>3
  <2>7. nodes[i].region = "" \/ e[s].region # ""
    <3>1. e[s].region = nodes[s].region
      BY <1>1, <1>2, <2>1, <2>3
    <3>2. Weight(nodes[s]) \in Nat /\ Weight(nodes[i]) \in Nat
      BY WeightOrder
    <3>3. Weight(nodes[i]) <= 3 => Weight(nodes[s]) <= 3
      BY <3>2, <2>1
    <3>4. \A j \in {s, i} : nodes[j].region # "" <=> Weight(nodes[j]) <= 3
      BY WeightOrder, Zenon
    <3> QED BY <3>1, <3>3, <3>4, Zenon
  <2> QED BY <1>4, <2>1, <2>2, <2>5, <2>6, <2>7 DEF Keeps
<1> QED BY <1>3, <1>4

\* The time a subscription is to be served at.
Timely(s) == /\ s.next # NULL <=> s.enabled /\ s.auto
             /\ s.next # NULL /\ s.last # NULL =>
                    s.next \in (s.last + MinInterval)..(s.last + MaxInterval)

LEMMA IntervalFits ==
    ASSUME NEW seconds
    PROVE  /\ MinInterval \in Int /\ MaxInterval \in Int /\ Interval(seconds) \in Int
           /\ MinInterval <= Interval(seconds) /\ Interval(seconds) <= MaxInterval
<1>1. MinInterval \in Int /\ MaxInterval \in Int /\ 86400 \in MinInterval..MaxInterval
  <2>1. MaxInterval \in Int
    BY DEF MaxInterval
  <2>2. 86400 <= MaxInterval
    BY DEF MaxInterval
  <2> QED BY <2>1, <2>2 DEF MinInterval
<1> QED BY <1>1 DEF Interval

LEMMA ScheduleFits ==
    ASSUME NEW s \in Subscription
    PROVE  Timely(Scheduled(s))
<1> DEFINE e == Scheduled(s)
           wait == Interval(s.interval)
<1>1. /\ e.enabled = s.enabled /\ e.auto = s.auto /\ e.last = s.last
      /\ e.next = IF ~(s.enabled /\ s.auto) THEN NULL
                  ELSE IF s.last = NULL THEN s.created ELSE s.last + wait
  BY DEF Scheduled, Subscription
<1>2. /\ MinInterval \in Int /\ MaxInterval \in Int /\ wait \in Int
      /\ MinInterval <= wait /\ wait <= MaxInterval
  BY IntervalFits
<1>3. /\ s.enabled \in BOOLEAN /\ s.auto \in BOOLEAN /\ s.created \in Int
      /\ s.last \in Int \cup {NULL}
  BY DEF Subscription
<1> HIDE DEF e, wait
<1>4. e.next # NULL <=> e.enabled /\ e.auto
  <2>1. CASE s.last = NULL
    BY <1>1, <1>3, <2>1, NullAssumption
  <2>2. CASE s.last # NULL
    <3>1. s.last + wait \in Int
      BY <1>2, <1>3, <2>2
    <3>2. s.last + wait # NULL
      BY <3>1, NullAssumption
    <3> QED BY <1>1, <1>3, <3>2, <2>2
  <2> QED BY <2>1, <2>2
<1>5. ASSUME e.next # NULL, e.last # NULL 
      PROVE  e.next \in (e.last + MinInterval)..(e.last + MaxInterval)
  <2>1. e.next = e.last + wait /\ e.last \in Int
    BY <1>1, <1>3, <1>5
  <2> QED BY <2>1, <1>2
<1> QED BY <1>4, <1>5 DEF Timely, e

(* 0006 makes one row of the rows of one connection and loses nothing the    *)
(* user set on any of them, and gives every subscription the scheduler is to *)
(* serve a time for it, whatever nodes and subscriptions the old database    *)
(* has (0006_subscription_lifecycle.py 286-378).                             *)
THEOREM MergeNeverLoses == Spec => MergeLosesNothing
<1> DEFINE A == phase = "schema" /\ phase' = "seed" /\ db.schema # "0006" =>
          /\ \A i \in DOMAIN stage.nodes :
                LET n == stage.nodes[i]
                    rows == {j \in DOMAIN stage'.nodes :
                                stage'.nodes[j].sub = n.sub /\ stage'.nodes[j].conn = n.conn}
                IN  IF n.sub = 0 THEN i \in rows /\ stage'.nodes[i] = n
                    ELSE \E j \in rows : rows = {j} /\ Keeps(n, stage'.nodes[j])
          /\ \A i \in DOMAIN stage'.subs : Timely(stage'.subs[i])
<1>1. Init => OldInv
  BY DEF Init, OldInv
<1>2. DInv /\ OldInv /\ [Next]_vars => [A]_vars
  <2> SUFFICES ASSUME DInv, OldInv, [Next]_vars,
                      phase = "schema", phase' = "seed", db.schema # "0006"
               PROVE  A
    OBVIOUS
  <2>1. SyncSchema
    BY EditIsUp DEF Next, vars, Start, SeedDefaults, ApplyKey, Fails, Publish, Stop, NewRelease,
        Generate, Read, Answer, Close
  <2>2. stage \in Databases /\ stage.schema # "0006"
    BY DEF OldInv
  <2>3. WellFormed(stage) /\ Stored(stage) /\ stage' = SchemaUpgraded(stage)
    BY <2>1, <2>2, DatabasesAssumption DEF SyncSchema, Fails
  <2>4. /\ stage'.nodes = Merged(stage.nodes)
        /\ stage'.subs = [i \in DOMAIN stage.subs |-> Scheduled(stage.subs[i])]
    BY <2>3 DEF SchemaUpgraded, WellFormed, Tables
  <2>5. \A i \in DOMAIN stage.nodes :
                LET n == stage.nodes[i]
                    rows == {j \in DOMAIN stage'.nodes :
                                stage'.nodes[j].sub = n.sub /\ stage'.nodes[j].conn = n.conn}
                IN  IF n.sub = 0 THEN i \in rows /\ stage'.nodes[i] = n
                    ELSE \E j \in rows : rows = {j} /\ Keeps(n, stage'.nodes[j])
    <3> DEFINE nodes == stage.nodes
    <3>1. DOMAIN nodes \subseteq Nat
          /\ \A i \in DOMAIN nodes : NodeColumns \subseteq DOMAIN nodes[i] /\ nodes[i].enabled \in BOOLEAN
      BY <2>3 DEF Stored
    <3>2. stage'.nodes = Merged(nodes)
      BY <2>4
    <3> HIDE DEF nodes
    <3>3. \A i \in DOMAIN nodes :
                LET n == nodes[i]
                    rows == {j \in DOMAIN Merged(nodes) :
                                Merged(nodes)[j].sub = n.sub /\ Merged(nodes)[j].conn = n.conn}
                IN  IF n.sub = 0 THEN i \in rows /\ Merged(nodes)[i] = n
                    ELSE \E j \in rows : rows = {j} /\ Keeps(n, Merged(nodes)[j])
      BY <3>1, MergeKeeps
    <3> QED BY <3>2, <3>3 DEF nodes
  <2>6. ASSUME NEW i \in DOMAIN stage'.subs
        PROVE  Timely(stage'.subs[i])
    <3>1. stage'.subs[i] = Scheduled(stage.subs[i]) /\ stage.subs[i] \in Subscription
      BY <2>3, <2>4, <2>6 DEF Stored
    <3> QED BY <3>1, ScheduleFits
  <2> QED BY <2>5, <2>6
<1>3. Spec => []OldInv
  BY <1>1, DatabaseInvariant, OldStep, PTL DEF Spec
<1> QED BY <1>2, <1>3, DatabaseInvariant, PTL DEF Spec, MergeLosesNothing, Timely

-------------------------------------------------------------------------------
(* What a repair rewrites *)

\* The names of the groups, before they are translated: only the manual
\* groups have a name that is not plain.
Bases(d) == (FixedNames \ {"DIRECT", "REJECT"}) \cup AutoRegions(d) \cup Enabled(d.services)

LEMMA GroupNames ==
    ASSUME NEW d, NEW language, NEW g \in Groups(d, language)
    PROVE  \/ \E x \in Bases(d) : g.name = Translate(Plain(x), language)
           \/ \E x : g.name = Translate(Manual(x), language)
<1> DEFINE T(n) == Translate(n, language)
           Named(h) == \/ \E x \in Bases(d) : h.name = T(Plain(x))
                       \/ \E x : h.name = T(Manual(x))
<1>1. \A n, members : Group(n, members).name = n
  BY DEF Group
<1>2. /\ {"AllServer", "Other", "Automatic", "Proxy", "NoAuto"} \subseteq Bases(d)
      /\ AutoRegions(d) \subseteq Bases(d) /\ Enabled(d.services) \subseteq Bases(d)
  BY DEF Bases, FixedNames
<1> HIDE DEF T
<1>3. \/ \E x \in Bases(d) : \E members : g = Group(T(Plain(x)), members)
      \/ \E x, members : g = Group(T(Manual(x)), members)
  BY <1>2 DEF Groups, T
<1> QED BY <1>1, <1>3 DEF T

(* Another name than an old group has another translation.                   *)
LEMMA OtherTranslation ==
    ASSUME NEW s \in DOMAIN Legacy, NEW language \in Languages, NEW x,
           x # Legacy[s], x # En[Legacy[s]]
    PROVE  Translate(Plain(x), language) # Translate(Plain(Legacy[s]), language)
<1> DEFINE b == Legacy[s]
<1>1. b \in DOMAIN En /\ \A y \in DOMAIN En : En[y] = En[b] => y = b
  BY LegacyAssumption
<1>2. \A y : Plain(y)[1] = y /\ Plain(y)[2] # "zh"
  BY Zenon DEF Plain
<1>3. \A y, z : Plain(y) = Plain(z) => y = z
  BY <1>2
<1>4. CASE language = "zh"
  BY <1>3, <1>4 DEF Translate
<1>5. CASE language # "zh"
  <2>1. Translate(Plain(b), language)[1] = En[b]
    BY <1>1, <1>2, <1>5 DEF Translate
  <2>2. Translate(Plain(x), language)[1] \in {En[x], x} /\
        (x \in DOMAIN En => Translate(Plain(x), language)[1] = En[x]) /\
        (x \notin DOMAIN En => Translate(Plain(x), language)[1] = x)
    BY <1>2, <1>5 DEF Translate
  <2> QED BY <1>1, <2>1, <2>2
<1> QED BY <1>4, <1>5

(* A dangling action resolves to nothing, but to the group of a region that  *)
(* is stored under the English name.                                         *)
LEMMA DanglingResolvesNowhere ==
    ASSUME NEW d, NEW s, Dangling(d, s), NEW language \in Languages,
           Resolves(s.action, d, language)
    PROVE  Translate(s.action, language)[1] \in AutoRegions(d) \ {s.action[1]}
<1> DEFINE b == Legacy[s.name]
           n == Plain(b)
           r == Translate(n, language)
<1>1. /\ s.name \in DOMAIN Legacy /\ s.action = n
      /\ b \notin AutoRegions(d) /\ Candidates(b) \cap Reserved(d) = {}
  BY DEF Dangling, GroupGenerated
<1>2. b \in DOMAIN En /\ \A x \in FixedNames : x # b /\ x # En[b]
  BY <1>1, LegacyAssumption
<1>3. \A x : Plain(x)[1] = x /\ Plain(x)[2] \notin {"zh", "en"}
  BY Zenon DEF Plain
<1>4. r \in {Plain(b), Plain(En[b])} /\ (language = "zh" => r = Plain(b))
  <2>1. CASE language = "zh"
    BY <2>1 DEF Translate
  <2>2. CASE language # "zh"
    <3>1. r = <<En[n[1]], n[2]>>
      BY <1>2, <1>3, <2>2 DEF Translate
    <3>2. n[1] = b /\ n[2] = ""
      BY Zenon DEF Plain
    <3>3. r = <<En[b], "">>
      BY Zenon, <3>1, <3>2
    <3>4. r = Plain(En[b])
      BY Zenon, <3>3 DEF Plain
    <3> QED BY Zenon, <3>4, <2>2
  <2> QED BY <2>1, <2>2
<1>5. {b, En[b]} \subseteq Candidates(b)
  <2>1. Translate(n, "zh")[1] = b
    BY <1>3 DEF Translate
  <2>2. Translate(n, "en")[1] = En[b]
    BY <1>2, <1>3 DEF Translate
  <2> QED BY <2>1, <2>2 DEF Candidates, Languages
<1>6. \A x \in {b, En[b]} : /\ x \notin Shown(d) /\ x \notin Enabled(d.services)
                            /\ x \notin FixedNames
  BY <1>1, <1>2, <1>5 DEF Reserved, Shown
<1>7. \A x \in {b, En[b]} : Plain(x) \notin Builtin /\ Plain(x) \notin {Plain(y) : y \in Shown(d)}
  <2>1. "DIRECT" \in FixedNames /\ "REJECT" \in FixedNames
    BY DEF FixedNames
  <2> QED BY <1>3, <1>6, <2>1 DEF Builtin
<1>8. r \in Available(d, language)
  <2>1. Resolve(n, d, language) = r
    BY <1>3, <1>6, <1>7 DEF Resolve
  <2> QED BY <1>1, <2>1 DEF Resolves
<1>9. PICK g \in Groups(d, language) : g.name = r
  BY <1>4, <1>7, <1>8 DEF Available
<1>10. \A x : Translate(Manual(x), language)[2] \in {"zh", "en"}
  BY DEF Manual, Translate
<1>11. PICK x \in Bases(d) : r = Translate(Plain(x), language)
  BY <1>3, <1>4, <1>9, <1>10, GroupNames
<1>12. x \in {b, En[b]}
  BY <1>1, <1>11, OtherTranslation
<1>13. x \in AutoRegions(d)
  BY <1>6, <1>12 DEF Bases
<1>14. x = En[b] /\ x # b
  BY <1>1, <1>12, <1>13
<1>15. language # "zh"
  BY <1>3, <1>11, <1>14 DEF Translate
<1>16. r[1] = En[b]
  BY <1>2, <1>3, <1>15 DEF Translate
<1> QED BY <1>1, <1>3, <1>13, <1>14, <1>16

(* A row whose action a migration has changed was dangling, and its new      *)
(* action exists.                                                            *)
LEMMA OnlyDanglingChanges ==
    ASSUME NEW d, WellFormed(d), Numbered(d), NEW key, NEW i \in DOMAIN d.sources,
           Effect(key, d).sources[i].action # d.sources[i].action
    PROVE  Dangling(d, d.sources[i]) /\ Exists(Effect(key, d).sources[i].action, d)
<1> DEFINE s == d.sources
           Unchanged(t) == t[i].action = s[i].action
<1>1. /\ SourcesOk(s) /\ Tables \subseteq DOMAIN d
      /\ \A j \in DOMAIN s : SourceColumns \subseteq DOMAIN s[j]
  BY NumberedParts DEF WellFormed
<1>2. \A t : [d EXCEPT !.sources = t].sources = t
  BY <1>1 DEF Tables
<1>3. CASE key \notin {"douyin", "dangling", "ipflags", "order"}
  <2>1. Effect(key, d).sources = s
    BY <1>1, <1>3 DEF Effect, SecurityRules, RemoveGlobalQuic, UdpModes, Ipv6Vif, DnsDefaults,
                     NoResolveKeywords, RetireKeywords, Tables
  <2> QED BY <2>1
<1>4. CASE key = "douyin"
  <2> DEFINE at == Defaults["DouYin"].order
             u == Shifted(s, at)
             t == Insert(u, DefaultSource("DouYin"))
  <2>1. Effect(key, d).sources \in {s, t}
    BY <1>2, <1>4 DEF Effect, DouyinRule
  <2>2. DOMAIN u = DOMAIN s /\ Unchanged(u)
    BY <1>1 DEF Shifted
  <2>3. IdsOk(u)
    BY <1>1, <2>2 DEF SourcesOk, IdsOk
  <2> HIDE DEF u
  <2>4. t[i] = u[i]
    BY <2>2, <2>3, IdsKept
  <2> QED BY <2>1, <2>2, <2>4
<1>5. CASE key \in {"ipflags", "order"}
  <2> DEFINE flags == [j \in DOMAIN s |-> Flagged(s[j])]
  <2>1. "action" \in DOMAIN s[i]
    BY <1>1 DEF SourceColumns
  <2>2. \A x : [s[i] EXCEPT !.ip = x].action = s[i].action /\ [s[i] EXCEPT !.order = x].action = s[i].action
    BY <2>1
  <2>3. Unchanged(flags)
    BY <2>2 DEF Flagged
  <2>4. Unchanged(Repaired(s))
    BY <2>2 DEF Repaired
  <2>5. Effect(key, d) \in {[d EXCEPT !.sources = flags], [d EXCEPT !.sources = Repaired(s)]}
    BY <1>5 DEF Effect, IpFlags, OrderRepaired
  <2> HIDE DEF flags
  <2> QED BY <1>2, <2>3, <2>4, <2>5
<1>6. CASE key = "dangling"
  <2> DEFINE fallback == Plain(IF "Global" \in Enabled(d.services) THEN "Global" ELSE "DIRECT")
             t == [j \in DOMAIN s |-> IF Dangling(d, s[j]) THEN [s[j] EXCEPT !.action = fallback] ELSE s[j]]
  <2>1. Effect(key, d) = [d EXCEPT !.sources = t]
    BY <1>6 DEF Effect, DanglingActions
  <2>2. Effect(key, d).sources = t
    BY <1>2, <2>1
  <2>3. t[i] = IF Dangling(d, s[i]) THEN [s[i] EXCEPT !.action = fallback] ELSE s[i]
    OBVIOUS
  <2>4. Exists(fallback, d)
    <3>1. "Global" # ""
      BY Zenon
    <3> QED BY <3>1, ServiceExists, BuiltinExists
  <2> HIDE DEF fallback, t
  <2>5. Dangling(d, s[i])
    BY <2>2, <2>3
  <2>6. "action" \in DOMAIN s[i]
    BY <1>1 DEF SourceColumns
  <2>7. t[i].action = fallback
    BY <2>3, <2>5, <2>6
  <2> QED BY <2>2, <2>4, <2>5, <2>7
<1> QED BY <1>3, <1>4, <1>5, <1>6

(* No migration rewrites an action that resolves in any language, but for    *)
(* the group of a region stored under its English name, and what it writes   *)
(* resolves in both: whatever nodes, regions, services and sources a start   *)
(* finds (data_migrations.py 153-223, config_validation.py 95-123).          *)
THEOREM RepairsAlwaysDangling == Spec => RepairsOnlyDangling
<1> DEFINE Repairs(i) == stage.sources[i].action # stage'.sources[i].action =>
              \A language \in Languages : LET old == stage.sources[i].action IN
                  /\ Resolves(old, stage, language) =>
                        Translate(old, language)[1] \in AutoRegions(stage) \ {old[1]}
                  /\ Resolves(stage'.sources[i].action, stage', language)
           A == phase = "keys" /\ phase' = "keys" => \A i \in DOMAIN stage.sources : Repairs(i)
<1>1. DInv /\ NumberedInv /\ [Next]_vars => [A]_vars
  <2> SUFFICES ASSUME DInv, NumberedInv, [Next]_vars, phase = "keys", phase' = "keys",
                      NEW i \in DOMAIN stage.sources, stage.sources[i].action # stage'.sources[i].action,
                      NEW language \in Languages
               PROVE  /\ Resolves(stage.sources[i].action, stage, language) =>
                            Translate(stage.sources[i].action, language)[1]
                                \in AutoRegions(stage) \ {stage.sources[i].action[1]}
                      /\ Resolves(stage'.sources[i].action, stage', language)
    BY DEF A, Repairs
  <2>1. ApplyKey
    BY EditIsUp DEF Next, vars, Start, SyncSchema, SeedDefaults, Publish, Fails, Stop, NewRelease,
        Generate, Read, Answer, Close
  <2>2. PICK key : stage' = [Effect(key, stage) EXCEPT !.ledger = @ \cup {key}]
    BY <2>1 DEF ApplyKey, Fails
  <2> DEFINE f == Effect(key, stage)
  <2>3. WellFormed(stage) /\ Numbered(stage)
    BY DEF DInv, NumberedInv
  <2>4. Alike(stage, f)
    BY <2>3, EffectIsAlike
  <2>5. stage'.sources = f.sources /\ Alike(f, stage')
    <3> HIDE DEF f
    <3>1. stage' = [f EXCEPT !.ledger = @ \cup {key}]
      BY <2>2 DEF f
    <3> QED BY <3>1 DEF Alike
  <2>6. Dangling(stage, stage.sources[i]) /\ Exists(stage'.sources[i].action, stage)
    BY <2>3, <2>5, OnlyDanglingChanges
  <2> HIDE DEF f
  <2>7. Alike(stage, stage')
    BY <2>4, <2>5 DEF Alike
  <2>8. /\ Shown(stage') = Shown(stage)
        /\ Available(stage', language) = Available(stage, language)
    BY <2>7, SameNames
  <2>9. Resolves(stage'.sources[i].action, stage', language)
    BY <2>6, <2>8 DEF Exists, Resolves, Resolve
  <2> QED BY <2>6, <2>9, DanglingResolvesNowhere
<1> QED BY <1>1, DatabaseInvariant, PTL DEF Spec, RepairsOnlyDangling

===============================================================================
