------------------------ MODULE MCMaintenanceBarrier ------------------------
(* The small instance of MaintenanceBarrier that TLC explores. *)
EXTENDS MaintenanceBarrier

CONSTANTS c1, m1, m2

OneClient == {c1}
TwoMaintainers == {m1, m2}
===============================================================================
