------------------------- MODULE MCServiceLifecycle -------------------------
(* The small instances of ServiceLifecycle that TLC explores. *)
EXTENDS ServiceLifecycle

CONSTANTS p1, p2

TwoProcesses == {p1, p2}
===============================================================================
