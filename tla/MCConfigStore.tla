---------------------------- MODULE MCConfigStore ----------------------------
(* The small instance of ConfigStore that TLC explores. *)
EXTENDS ConfigStore, TLC

CONSTANTS r1, r2

TwoIds == {1, 2}
TwoOrders == {1, 2}
TwoRequests == {r1, r2}
TwoKinds == {"ai", "global"}

\* The earlier kind enabled, the later one disabled and before it.
TwoSeeds == <<[kind |-> "ai", on |-> TRUE, order |-> 2],
              [kind |-> "global", on |-> FALSE, order |-> 2]>>

\* A request changes the target, the mode, both, or the default flag.
SomeProfileEdits ==
    {x \in ProfileEdit : x.default = Keep \/ (x.target = Keep /\ x.mode = Keep)}

\* A request changes one field.
SomeExceptionEdits ==
    {x \in ExceptionEdit :
        Cardinality({c \in DOMAIN x : x[c] # Keep}) = 1 /\ x.type = Keep}

\* One field of one rule, or the places of both.
SomeRuleEdits ==
    LET one == {x \in RuleEdit : Cardinality({c \in DOMAIN x : x[c] # Keep}) = 1}
        place == {x \in one : x.order # Keep} IN
    [{1} -> one] \cup [{2} -> one] \cup [{1, 2} -> place]

\* Nothing orders the slots of the handlers.
Symmetry == Permutations(TwoRequests)
===============================================================================
