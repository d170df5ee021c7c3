-------------------------- MODULE MCBackupRetention --------------------------
(* The small instances of BackupRetention that TLC explores. *)
EXTENDS BackupRetention, TLC

CONSTANTS w1, w2, r1

TwoWorkers == {w1, w2}
OneRestorer == {r1}

\* Requests are interchangeable.
Symmetry == Permutations(TwoWorkers)
===============================================================================
