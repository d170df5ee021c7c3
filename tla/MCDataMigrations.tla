--------------------------- MODULE MCDataMigrations ----------------------------
(* The small instances of DataMigrations that TLC explores: the default     *)
(* sources keep the sort_order they have in the code.                      *)
EXTENDS DataMigrations

MCEn == [Xianggang |-> "HongKong", Yingguo |-> "UnitedKingdom", AI |-> "AIen"]
MCInfo == {"Traffic"}

Default(categories, order, action, ip) ==
    [categories |-> categories, order |-> order, action |-> Plain(action), ip |-> ip]
MCDefaults ==
    [DouYin |-> Default({"douyin", "domestic"}, 11, "Mainland", FALSE),
     OpenAI |-> Default({"ai"}, 12, "AI", TRUE),
     Claude |-> Default({"ai"}, 13, "AI", FALSE),
     AppStore |-> Default({"apple"}, 18, "DIRECT", FALSE),
     TikTok |-> Default({"tiktok"}, 27, "Global", FALSE),
     StreamEU |-> Default({}, 32, "Global", FALSE)]
MCLegacy == [StreamEU |-> "Yingguo"]

Rule(text, form, policy, position, exact) ==
    [text |-> text, form |-> form, policy |-> Plain(policy), position |-> position,
     enabled |-> TRUE, exact |-> exact, global |-> TRUE]
MCSecurityRule == Rule("claude", "plain", "AI", "pre", FALSE)

Region(enabled, auto, manual) == [enabled |-> enabled, auto |-> auto, manual |-> manual]
MCPolicies == {{Plain("DIRECT")}, {Plain("Xianggang")}}
MCActions == {Plain("DIRECT"), Plain("Xianggang")}

Node(name, sub, conn, enabled, pins, region) ==
    [name |-> name, sub |-> sub, conn |-> conn, enabled |-> enabled, pins |-> pins, region |-> region]
Source(name, order, action) ==
    [name |-> name, url |-> name, enabled |-> TRUE, order |-> order, action |-> Plain(action),
     ip |-> FALSE]
MCNewRules == {Rule("new", form, "Xianggang", "general", FALSE) : form \in {"plain", "final"}}
MCNewSources == {Source("TikTok", 10, "Global"), [Source("TikTok", 10, "N1") EXCEPT !.url = "own"]}
Sub(enabled, auto, interval, last) ==
    [enabled |-> enabled, auto |-> auto, interval |-> interval, last |-> last, created |-> 0,
     next |-> NULL]

DefaultServices == 
    [s \in {"AI", "Mainland", "Global"} |-> [policies |-> {Plain("DIRECT")}, enabled |-> TRUE]]

\* A database of the release before business migrations were recorded.
Old ==
    [schema |-> "0005", ledger |-> {}, profile |-> "default", final |-> Plain("Global"),
     general |-> [ipv6 |-> "old", encrypted |-> "own", hijack |-> "old", geoip |-> "own",
                  dashboard |-> "old", quic |-> "absent"],
     keyword |-> FALSE, other |-> [auto |-> TRUE, manual |-> TRUE],
     nodes |-> << Node("N1", 1, "x", TRUE, {}, "Xianggang"), Node("N2", 1, "x", TRUE, {"AI"}, ""),
                  Node("Traffic", 0, "y", TRUE, {}, "") >>,
     regions |-> [Xianggang |-> Region(TRUE, TRUE, TRUE), Yingguo |-> Region(TRUE, FALSE, FALSE)],
     services |-> DefaultServices,
     sources |-> << Source("mine", 12, "Xianggang"), Source("AppStore", 12, "DIRECT"),
                    Source("own", 11, "N1"), Source("OpenAI", 18, "AI"),
                    Source("TikTok", 25, "Global"), Source("StreamEU", 31, "Yingguo") >>,
     rules |-> << Rule("stun", "plain", "REJECT", "pre", TRUE),
                  Rule("stun", "plain", "REJECT", "pre", FALSE),
                  Rule("quic", "mac", "REJECT", "pre", FALSE) >>,
     subs |-> << Sub(TRUE, TRUE, 299, NULL), Sub(TRUE, TRUE, 604801, 5), Sub(TRUE, FALSE, 300, 5) >>]

\* The rows of a new installation.
MCSeeds ==
    [Old EXCEPT !.general = [k \in DOMAIN @ |-> "new"], !.nodes = <<>>, !.subs = <<>>,
        !.sources = << Source("DouYin", 11, "Mainland"), Source("OpenAI", 12, "AI"),
                       Source("AppStore", 18, "DIRECT"), Source("StreamEU", 32, "Global") >>,
        !.rules = << MCSecurityRule >>]

Fresh ==
    [MCSeeds EXCEPT !.profile = "none", !.regions = <<>>, !.services = <<>>, !.sources = <<>>,
                    !.rules = <<>>]

\* A new installation of the release before, in use for a while.
Recent ==
    [MCSeeds EXCEPT !.schema = "0006", !.ledger = Range(SubSeq(Published, 1, 6)),
        !.nodes = << Node("N1", 1, "x", TRUE, {"AI"}, ""), Node("Traffic", 0, "y", TRUE, {}, "") >>,
        !.sources = << Source("own", 11, "N1"), Source("OpenAI", 12, "AI"),
                       Source("AppStore", 18, "DIRECT"), Source("TikTok", 27, "Global") >>,
        !.rules = << [Rule("own", "plain", "N1", "pre", FALSE) EXCEPT !.global = FALSE],
                     Rule("mac", "mac", "Global", "general", FALSE),
                     Rule("stun", "plain", "REJECT", "pre", TRUE) >>]

\* An order that the repair cannot put right; a node with the English name, and
\* no profile.
Interleaved ==
    [Old EXCEPT !.sources = << Source("OpenAI", 30, "AI"), Source("AppStore", 40, "DIRECT"),
                               Source("Claude", 50, "AI") >>]
EnglishNode ==
    [Old EXCEPT !.schema = "0006", !.profile = "none", !.nodes = << Node("UnitedKingdom", 0, "y", TRUE, {}, "") >>,
                !.sources = << Source("TikTok", 5, "Global"), Source("StreamEU", 31, "Yingguo") >>]
\* A region stored under the English name of another.
EnglishRegion ==
    [Old EXCEPT !.regions = [Xianggang |-> Region(TRUE, TRUE, FALSE), UnitedKingdom |-> Region(TRUE, TRUE, FALSE)],
                !.sources = << Source("TikTok", 25, "Global"), Source("StreamEU", 31, "Yingguo") >>,
                !.rules = <<>>]
Unreadable == [Old EXCEPT !.nodes[1].conn = "bad"]
NoRegions == [Recent EXCEPT !.regions = <<>>]
\* Emptied by hand, so that a start takes it for a new one; a profile is left.
Emptied ==
    [NoRegions EXCEPT !.services = <<>>, !.profile = "own", !.ledger = Range(SubSeq(Published, 1, 9)),
                      !.nodes = <<>>, !.sources = << Source("TikTok", 11, "DIRECT") >>]
\* A rule that an older release stored without a check.
Unchecked ==
    [Recent EXCEPT !.rules = << Rule("own", "final", "Global", "general", FALSE) >>,
                   !.sources = << Source("OpenAI", 12, "AI") >>]

Upgrades == {Old, Fresh, Recent, Interleaved, EnglishNode, EnglishRegion, Unreadable, NoRegions, Emptied, Unchecked}

PageSymmetry == Permutations(Pages)

ManualOnly == {[Old EXCEPT !.regions.Yingguo = Region(TRUE, FALSE, TRUE)]}
===============================================================================
