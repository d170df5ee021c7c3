---------------------------- MODULE MCAccessControl ----------------------------
(* Two browsers, one of them on this machine, and two requests in flight: any  *)
(* number of logins, or two updates.                                           *)
EXTENDS AccessControl

CONSTANT a

Local(h) == [access |-> "local_only", hash |-> h]
Lan(h) == [access |-> "lan_authenticated", hash |-> h]

MCScenarios ==
    [logins : {TRUE}, updates : {0}, start : {Local(NULL), Lan(a)}]
    \cup [logins : {FALSE}, updates : {2}, start : {Local(NULL), Local(a), Lan(a)}]

===============================================================================
