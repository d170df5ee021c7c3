------------------------- MODULE MCSubscriptionSync --------------------------
(* The small instances of SubscriptionSync that TLC explores. *)
EXTENDS SubscriptionSync, TLC

CONSTANTS u1, u2, k1, k2, m1, m2, a1, a2

OneSub == {1}
TwoSubs == {1, 2}
OneUrl == {u1}
TwoUrls == {u1, u2}
OneKey == {k1}
TwoKeys == {k1, k2}
NoTasks == {}
OneTask == {m1}
OneAdmin == {a1}
TwoAdmins == {a1, a2}
LongInterval == {2}

NoEdits == {}
AllEdits == Request
SwitchEdits == {r \in Request : r.url = Keep /\ r.interval = Keep}

\* Active subscriptions as 0006 leaves them when they never had a success: one
\* without nodes, or also one with a node that was set by hand.
OldRow(u, count) ==
    [NoSub EXCEPT !.exists = TRUE, !.url = u, !.enabled = TRUE, !.auto = TRUE,
                  !.interval = 2, !.next = 0, !.count = count]
NoneFound == {None}
EmptyFound == {None} \cup {[row |-> OldRow(u, 0), nodes |-> NoNodes] : u \in Urls}
AnyFound ==
    EmptyFound \cup {[row |-> OldRow(u, 1),
                      nodes |-> [NoNodes EXCEPT ![k1] = [src |-> u, manual |-> TRUE]]] :
                        u \in Urls}

\* Sound for safety only: nothing in the module orders these values.
Symmetry == Permutations(TwoUrls) \cup Permutations(TwoKeys)
===============================================================================
