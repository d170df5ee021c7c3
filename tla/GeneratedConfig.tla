---------------------------- MODULE GeneratedConfig ----------------------------
(***************************************************************************)
(* What one generation makes of the tables (app/services/generator.py and  *)
(* config_validation.py): the groups, the rules, the names they refer to,  *)
(* and the validation that refuses the whole output when a name is not     *)
(* defined in it.                                                          *)
(*                                                                         *)
(* A name is a pair: a base name, and whether it is that of the manual     *)
(* group of a region ("zh" and "en" name it in either language).  The      *)
(* database holds the Chinese names; En translates a base name.  A node is *)
(* shown under its name (the prefix with its subscription is left out).    *)
(***************************************************************************)
EXTENDS Integers, FiniteSets

CONSTANTS
    En,       \* LOCALE_NAMES, the identity on names it does not have
    Info,     \* base names that match the exclusion keywords
    Defaults  \* the built-in sources: name to categories, order, action and ip

Plain(b) == <<b, "">>
Manual(b) == <<b, "zh">>
NoName == <<"", "">>

Languages == {"zh", "en"}
Builtin == {Plain("DIRECT"), Plain("REJECT")}

\* locale_translate
Translate(n, language) ==
    IF language = "zh" \/ n[1] \notin DOMAIN En THEN n
    ELSE <<En[n[1]], IF n[2] = "zh" THEN "en" ELSE n[2]>>

-------------------------------------------------------------------------------
(* [Proxy] and [Proxy Group].  `d` holds the rows: regions and services by  *)
(* name, which is unique, nodes, sources and rules by id.                  *)

Enabled(rows) == {x \in DOMAIN rows : rows[x].enabled}

\* The nodes written to [Proxy]: nodes that only carry information are not.
Shown(d) == {d.nodes[i].name : i \in Enabled(d.nodes)} \ Info

AutoRegions(d) == {r \in Enabled(d.regions) : d.regions[r].auto}
ManualRegions(d) == {r \in Enabled(d.regions) : d.regions[r].manual}

Group(n, members) == [name |-> n, members |-> members]

\* _build_proxy_groups.  A service lists the nodes pinned to it, also those
\* that are not shown, and its policies translated.
Groups(d, language) ==
    LET T(n) == Translate(n, language)
        all == T(Plain("AllServer"))
        autos == {T(Plain(r)) : r \in AutoRegions(d)}
        manuals == {T(Manual(r)) : r \in ManualRegions(d)}
        otherAuto == IF autos # {} /\ d.other.auto THEN {T(Plain("Other"))} ELSE {}
        otherManual == IF autos # {} /\ d.other.manual THEN {T(Manual("Other"))} ELSE {}
        selected == IF autos # {} THEN {T(Plain("Automatic"))} ELSE {}
        byHand == selected \cup manuals \cup otherManual
        Pinned(s) == {Plain(d.nodes[i].name) : i \in {i \in Enabled(d.nodes) : s \in d.nodes[i].pins}}
    IN  {Group(all, {})}
        \cup {Group(n, {all}) : n \in autos \cup manuals \cup otherAuto \cup otherManual}
        \cup {Group(n, autos) : n \in selected}
        \cup {Group(T(Plain("Proxy")), byHand \cup autos) : x \in {x \in {1} : byHand # {}}}
        \cup {Group(T(Plain("NoAuto")), {T(Plain("Mainland"))} \cup byHand)
                : x \in {x \in {1} : byHand # {}}}
        \cup {Group(T(Plain(s)), Pinned(s) \cup {T(p) : p \in d.services[s].policies})
                : s \in Enabled(d.services)}

\* available_policies
Available(d, language) ==
    Builtin \cup {Plain(n) : n \in Shown(d)} \cup {g.name : g \in Groups(d, language)}

\* resolve_policy_reference: a built-in action or the name of a node as it is,
\* else the translated name of a group.
Resolve(n, d, language) ==
    IF n \in Builtin \/ (n[2] = "" /\ n[1] \in Shown(d)) THEN n ELSE Translate(n, language)

-------------------------------------------------------------------------------
(* The order of the rule sources *)

\* RULE_ORDER_INVARIANTS, between the built-in sources of two categories.
Before == {<<"ai", "apple">>, <<"ai", "google">>, <<"ai", "global">>,
           <<"douyin", "tiktok">>, <<"domestic", "global">>}

\* A built-in source has the name and the address of one of the defaults
\* (DEFAULT_RULE_SOURCES, by name); one that the user changed does not count.
BuiltinSource(s) == s.name \in DOMAIN Defaults /\ s.url = s.name
Categories(s) == IF BuiltinSource(s) THEN Defaults[s.name].categories ELSE {}

Precedes(sources, i, j) ==
    sources[i].order < sources[j].order \/ (sources[i].order = sources[j].order /\ i < j)

\* rule_order_violations, as the pairs of sources that are the wrong way round.
Misplaced(sources) ==
    LET ordered == {i \in Enabled(sources) : Categories(sources[i]) # {}}
    IN  {p \in ordered \X ordered :
        /\ (Categories(sources[p[1]]) \X Categories(sources[p[2]])) \cap Before # {}
        /\ ~Precedes(sources, p[1], p[2])}

-------------------------------------------------------------------------------
(* [Rule] *)

\* A line: its section, its form and the name of its policy.  A custom rule of
\* the form "text" has no policy that can be located, "lines" has a line break.
Line(section, form, policy) == [section |-> section, form |-> form, policy |-> policy]

\* rule_excluded_for_target: nothing about processes or network cards on iOS.
Excluded(r, ios) == ios /\ r.form = "mac"

Custom(d, ios) == {i \in Enabled(d.rules) : ~Excluded(d.rules[i], ios)}

\* _build_rules: pre, sources, general, the local network, FINAL.
RuleLines(d, language, ios) ==
    {Line(d.rules[i].position, d.rules[i].form,
          IF d.rules[i].form = "text" THEN NoName
          ELSE Resolve(d.rules[i].policy, d, language)) : i \in Custom(d, ios)}
    \cup {Line("source", "plain", Resolve(d.sources[i].action, d, language))
            : i \in Enabled(d.sources)}
    \cup {Line("lan", "plain", Plain("DIRECT")),
          Line("final", "final", Resolve(d.final, d, language))}

\* validate_generated_references, over the actions as they are stored.
Bug_MembersUnchecked(d, language, ios) ==
    LET available == Available(d, language)
        Missing(n) == n = NoName \/ Resolve(n, d, language) \notin available
    IN  \/ \E i \in Custom(d, ios) : d.rules[i].form = "text" \/ Missing(d.rules[i].policy)
        \/ \E i \in Enabled(d.sources) : Missing(d.sources[i].action)
        \/ Missing(d.final)
InvalidReference(d, language, ios) ==
    LET available == Available(d, language)
        Missing(n) == n = NoName \/ Resolve(n, d, language) \notin available
    IN  \/ \E i \in Custom(d, ios) : d.rules[i].form = "text" \/ Missing(d.rules[i].policy)
        \/ \E i \in Enabled(d.sources) : Missing(d.sources[i].action)
        \/ \E g \in Groups(d, language) : ~(g.members \subseteq available)
        \/ Missing(d.final)

\* The refusals of generate_surge_config: the order of the sources, a rule of
\* several lines (also one iOS would leave out), a custom FINAL, a reference.
Invalid(d, language, ios) ==
    \/ Misplaced(d.sources) # {}
    \/ \E i \in Enabled(d.rules) : d.rules[i].form = "lines"
    \/ \E i \in Custom(d, ios) : d.rules[i].form = "final"
    \/ InvalidReference(d, language, ios)

Output(d, language, ios) ==
    [defined |-> Available(d, language), groups |-> Groups(d, language),
     lines |-> RuleLines(d, language, ios), ios |-> ios]

===============================================================================
