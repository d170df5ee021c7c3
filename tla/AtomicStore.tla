------------------------------ MODULE AtomicStore ------------------------------
(***************************************************************************)
(* What the database runtime promises to everything that opens a session:  *)
(* one current store, never replaced under an open session.  A restore or  *)
(* reset either replaces it in one step or leaves it exactly as it was; if *)
(* even its recovery fails the store goes down until it is repaired.       *)
(***************************************************************************)
CONSTANTS Sessions, Contents

VARIABLES
    readers,  \* open sessions
    store,    \* the content every open session sees
    swaps,    \* how many restores or resets succeeded (a natural number)
    down      \* no usable store: nobody can open a session

vars == <<readers, store, swaps, down>>

Init ==
    /\ readers = {}
    /\ store \in Contents
    /\ swaps = 0
    /\ down = FALSE

Open(r) ==
    /\ ~down /\ r \notin readers
    /\ readers' = readers \cup {r}
    /\ UNCHANGED <<store, swaps, down>>

Close(r) ==
    /\ r \in readers
    /\ readers' = readers \ {r}
    /\ UNCHANGED <<store, swaps, down>>

Commit ==
    /\ readers # {} /\ ~down
    /\ store' \in Contents
    /\ UNCHANGED <<readers, swaps, down>>

\* A successful restore or reset.
Swap ==
    /\ readers = {}
    /\ store' \in Contents
    /\ swaps' # swaps
    /\ down' = FALSE
    /\ UNCHANGED readers

\* Recovery failed: only now may a failed run leave another content behind.
Break ==
    /\ readers = {}
    /\ store' \in Contents
    /\ down' = TRUE
    /\ UNCHANGED <<readers, swaps>>

\* A later run brings a broken store back, with whatever is on disk.
Repair ==
    /\ down /\ readers = {}
    /\ store' \in Contents
    /\ down' = FALSE
    /\ UNCHANGED <<readers, swaps>>

Next ==
    \/ \E r \in Sessions : Open(r) \/ Close(r)
    \/ Commit \/ Swap \/ Break \/ Repair

Spec == Init /\ [][Next]_vars
===============================================================================
