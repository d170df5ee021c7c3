------------------------ MODULE BackupRetentionProofs ------------------------
(* What is proved of BackupRetention, for any number of threads and restores *)
(* and any values of the bounds.                                             *)
EXTENDS BackupRetention, FiniteSetTheorems, WellFoundedInduction, TLAPS

(***************************************************************************)
(* The inductive invariant.  What a prune may delete is decided when it    *)
(* lists the directory, what it does delete happens later, among other     *)
(* prunes and new backups.  So everything is said of the victims of every  *)
(* prune under way: how many names are not among them (Fits), how many are *)
(* newer than each of them (Ranked), and that the safety backup of the     *)
(* restore that holds the lock is not one of them (Safe), because too few  *)
(* names newer than it exist or are on their way (Upcoming).               *)
(***************************************************************************)
Newer(n, S) == {k \in S : Older(n, k)}
Elder(n, S) == {k \in S : Older(k, n)}

\* Names that workers have chosen and not published yet.
Pending == {target[w] : w \in {v \in Workers : pc[v] = "copying"}}

Held == {"copying", "listing", "pruning", "rebuild", "binding", "recover"}
Published == Held \ {"copying"}

\* Who may be where: restores only with the lock, workers never in a rebuild.
Places ==
    /\ \A r \in Restorers : pc[r] \in Held => lock = r /\ target[r] \in Name
    /\ lock # NULL => pc[lock] \in Held
    /\ \A w \in Workers : pc[w] \in {"idle", "requested", "copying", "listing", "pruning"}
    /\ \A w \in Workers : pc[w] = "copying" =>
          target[w] \in Name /\ target[w].tag = "manual" /\ target[w].t <= clock
    /\ \A p \in Procs : pc[p] # "pruning" => victims[p] = {}
    /\ \A r \in Restorers : pc[r] # "idle" => restored >= 1

Survivors == {n \in files : \A p \in Procs : n \notin victims[p]}

Fits ==
    /\ IsFiniteSet(files)
    /\ (\A p \in Procs : pc[p] # "listing") /\ ~overdue => Cardinality(Survivors) <= Keep

Room == IF restored = 0 THEN Keep ELSE Keep - 1

Ranked == \A p \in Procs : \A n \in victims[p] : Cardinality(Newer(n, files)) >= Room

Upcoming(s) == Newer(s, files \cup Pending)

Safe ==
    lock # NULL /\ beside < Reach(lock) =>
        /\ IsFiniteSet(Upcoming(target[lock]))
        /\ Cardinality(Upcoming(target[lock])) <= beside
        /\ pc[lock] \in Published => target[lock] \in files
        /\ \A p \in Procs : target[lock] \notin victims[p]

Inv == TypeOK /\ Places /\ Fits /\ Ranked /\ Safe

-------------------------------------------------------------------------------
(* The directory order *)

LEMMA OlderIsStrict ==
    ASSUME NEW a \in Name
    PROVE  ~Older(a, a)
BY DEF Name, Older, Tags

LEMMA OlderIsTransitive ==
    ASSUME NEW a \in Name, NEW b \in Name, NEW c \in Name, Older(a, b), Older(b, c)
    PROVE  Older(a, c)
BY KeepAssumption DEF Name, Older, Tags

LEMMA OlderIsTotal ==
    ASSUME NEW a \in Name, NEW b \in Name, a # b
    PROVE  Older(a, b) \/ Older(b, a)
<1>1. a.t # b.t \/ a.tag # b.tag \/ a.seq # b.seq
  <2>1. a = [t |-> a.t, tag |-> a.tag, seq |-> a.seq] BY DEF Name
  <2>2. b = [t |-> b.t, tag |-> b.tag, seq |-> b.seq] BY DEF Name
  <2> QED BY <2>1, <2>2
<1> QED BY <1>1, KeepAssumption DEF Name, Older, Tags

\* Every set of naturals has a least element.
LEMMA LeastNatural ==
    ASSUME NEW T \in SUBSET Nat, T # {}
    PROVE  \E n \in T : \A m \in T : n <= m
<1> DEFINE Below == OpToRel(<, Nat)
<1>1. T \subseteq Nat /\ T # {} OBVIOUS
<1>2. IsWellFoundedOn(Below, Nat) BY Zenon, NatLessThanWellFounded
<1>3. \A x, y \in Nat : x < y => <<x, y>> \in Below BY Zenon DEF OpToRel
<1> HIDE DEF Below
<1>4. PICK x \in T : \A y \in T : ~(<<y, x>> \in Below) BY <1>1, <1>2, WFMin
<1>5. ASSUME NEW y \in T PROVE x <= y
  <2>1. x \in Nat /\ y \in Nat BY <1>1
  <2>2. ~(y < x) BY <2>1, <1>3, <1>4
  <2> QED BY <2>1, <2>2
<1> QED BY <1>5

\* Every finite set of names has an eldest: the one with the fewest elders.
LEMMA Eldest ==
    ASSUME NEW S \in SUBSET Name, IsFiniteSet(S), S # {}
    PROVE  \E m \in S : \A k \in S : ~Older(k, m)
<1> DEFINE Rank(n) == Cardinality(Elder(n, S))
<1>1. ASSUME NEW n \in S PROVE IsFiniteSet(Elder(n, S)) /\ Rank(n) \in Nat
  <2>1. Elder(n, S) \subseteq S BY DEF Elder
  <2> QED BY <2>1, FS_Subset, FS_CardinalityType
<1>2. PICK r \in {Rank(n) : n \in S} : \A q \in {Rank(n) : n \in S} : r <= q
  <2>1. {Rank(n) : n \in S} \subseteq Nat BY <1>1
  <2> HIDE DEF Rank
  <2>2. {Rank(n) : n \in S} # {} OBVIOUS
  <2> QED BY <2>1, <2>2, LeastNatural
<1>3. PICK m \in S : r = Rank(m) BY <1>2
<1>4. ASSUME NEW k \in S, Older(k, m) PROVE FALSE
  <2>1. Elder(k, S) \subseteq Elder(m, S) \ {k}
    BY <1>4, OlderIsTransitive, OlderIsStrict DEF Elder
  <2>2. k \in Elder(m, S) BY <1>4 DEF Elder
  <2>3. Cardinality(Elder(m, S) \ {k}) = Rank(m) - 1 /\ IsFiniteSet(Elder(m, S) \ {k})
    BY <1>1, <2>2, FS_RemoveElement
  <2>4. Rank(k) <= Rank(m) - 1 BY <2>1, <2>3, FS_Subset
  <2>5. Rank(m) <= Rank(k) BY <1>2, <1>3
  <2> QED BY <2>4, <2>5, <1>1
<1> QED BY <1>4

\* A name has an elder and a newer side, and there is nothing else.
LEMMA Sides ==
    ASSUME NEW S \in SUBSET Name, IsFiniteSet(S), NEW n \in S
    PROVE  /\ IsFiniteSet(Elder(n, S)) /\ Cardinality(Elder(n, S)) \in Nat
           /\ IsFiniteSet(Newer(n, S)) /\ Cardinality(Newer(n, S)) \in Nat
           /\ Cardinality(Newer(n, S)) = Cardinality(S) - 1 - Cardinality(Elder(n, S))
<1>1. Elder(n, S) \subseteq S /\ Newer(n, S) \subseteq S BY DEF Elder, Newer
<1>2. /\ IsFiniteSet(Elder(n, S)) /\ Cardinality(Elder(n, S)) \in Nat
      /\ IsFiniteSet(Newer(n, S)) /\ Cardinality(Newer(n, S)) \in Nat
  BY <1>1, FS_Subset, FS_CardinalityType
<1>3. S \ {n} = Elder(n, S) \cup Newer(n, S)
  <2>1. \A k \in S : k # n => Older(k, n) \/ Older(n, k) BY OlderIsTotal
  <2>2. ~Older(n, n) BY OlderIsStrict
  <2> QED BY <2>1, <2>2 DEF Elder, Newer
<1>4. Elder(n, S) \cap Newer(n, S) = {}
  BY OlderIsTransitive, OlderIsStrict DEF Elder, Newer
<1>5. Cardinality(S \ {n}) = Cardinality(Elder(n, S)) + Cardinality(Newer(n, S))
  <2>1. Cardinality(Elder(n, S) \cup Newer(n, S))
          = Cardinality(Elder(n, S)) + Cardinality(Newer(n, S))
            - Cardinality(Elder(n, S) \cap Newer(n, S))
    BY <1>2, FS_Union
  <2>2. Cardinality({}) = 0 BY FS_EmptySet
  <2> QED BY <1>2, <1>3, <1>4, <2>1, <2>2
<1>6. Cardinality(S \ {n}) = Cardinality(S) - 1 /\ Cardinality(S) \in Nat
  BY FS_RemoveElement, FS_CardinalityType
<1> QED BY <1>2, <1>5, <1>6

-------------------------------------------------------------------------------
(* unique_path and prune_backups *)

\* Of the first Cardinality + 1 numbers one is free.
LEMMA UniqueIsFree ==
    ASSUME files \subseteq Name, IsFiniteSet(files), clock \in 0..MaxClock, NEW tag \in Tags
    PROVE  /\ UniquePath(tag) \in Name \ files
           /\ UniquePath(tag).t = clock /\ UniquePath(tag).tag = tag
<1> DEFINE At(s) == [t |-> clock, tag |-> tag, seq |-> s]
           N == Cardinality(files) + 1
           Free == {s \in 1..N : At(s) \notin files}
<1>1. Cardinality(files) \in Nat BY FS_CardinalityType
<1>2. Free # {}
  <2>1. SUFFICES ASSUME \A s \in 1..N : At(s) \in files PROVE FALSE OBVIOUS
  <2>2. IsFiniteSet(1..N) /\ Cardinality(1..N) = N
    <3>1. N \in Int /\ 1 \in Int /\ ~(1 > N) /\ N - 1 + 1 = N BY <1>1
    <3> HIDE DEF N
    <3> QED BY <3>1, FS_Interval
  <2>3. [s \in 1..N |-> At(s)] \in [1..N -> files] BY <2>1
  <2>4. Cardinality(files) < Cardinality(1..N) BY <1>1, <2>2
  <2>5. PICK x, y \in 1..N : x # y /\ [s \in 1..N |-> At(s)][x] = [s \in 1..N |-> At(s)][y]
    <3> DEFINE f == [s \in 1..N |-> At(s)]
    <3>1. f \in [1..N -> files] BY <2>3
    <3> HIDE DEF f, N
    <3>2. \E x, y \in 1..N : x # y /\ f[x] = f[y] BY <3>1, <2>2, <2>4, FS_PigeonHole
    <3> QED BY <3>2 DEF f
  <2>6. At(x) = At(y) BY <2>5
  <2>7. At(x).seq = At(y).seq BY <2>6
  <2> QED BY <2>5, <2>7
<1>3. Free \subseteq Nat BY <1>1
<1>4. UniquePath(tag) = At(Min(Free)) BY DEF UniquePath
<1>5. Min(Free) \in Free
  <2> HIDE DEF Free
  <2>1. \E n \in Free : \A m \in Free : n <= m BY <1>2, <1>3, LeastNatural
  <2> QED BY <2>1 DEF Min
<1>6. Min(Free) \in 1..N /\ At(Min(Free)) \notin files BY <1>5
<1> HIDE DEF Free
<1>7. Min(Free) \in Nat \ {0} BY <1>1, <1>6
<1>8. At(Min(Free)) \in Name BY <1>7 DEF Name
<1> QED BY <1>4, <1>6, <1>8

\* What one prune spares: at most Keep names, of a listing that a protected
\* name may be missing from.
LEMMA PruneFits ==
    ASSUME files \subseteq Name, IsFiniteSet(files), NEW x
    PROVE  Cardinality(files \ Oldest(files \ {x})) <= Keep
<1> DEFINE C == files \ {x}
           R == C \ Oldest(C)
           Rest == files \ Oldest(C)
<1> USE KeepAssumption
<1>1. /\ IsFiniteSet(C) /\ Cardinality(C) \in Nat
      /\ Cardinality(files) \in Nat /\ C \subseteq Name
      /\ Cardinality(C) = IF x \in files THEN Cardinality(files) - 1 ELSE Cardinality(files)
  BY FS_RemoveElement, FS_CardinalityType
<1>2. /\ IsFiniteSet(R) /\ Cardinality(R) \in Nat /\ R \subseteq C
      /\ IsFiniteSet(Rest) /\ Cardinality(Rest) \in Nat
  <2> HIDE DEF C
  <2>1. R \subseteq C /\ Rest \subseteq files OBVIOUS
  <2> QED BY <1>1, <2>1, FS_Subset, FS_CardinalityType
<1>3. Cardinality(Rest) = Cardinality(R) + (IF x \in files THEN 1 ELSE 0)
  <2>1. x \notin R /\ Oldest(C) \subseteq C BY DEF Oldest
  <2>2. Rest = IF x \in files THEN R \cup {x} ELSE R BY <2>1 DEF Oldest
  <2> HIDE DEF C, R, Rest
  <2>3. Cardinality(R \cup {x}) = Cardinality(R) + 1 BY <1>2, <2>1, FS_AddElement
  <2> QED BY <1>2, <2>2, <2>3
<1> HIDE DEF Rest
<1>4. CASE R = {}
  <2>1. Cardinality(R) = 0 BY <1>4, FS_EmptySet
  <2> QED BY <1>3, <2>1 DEF Rest
<1>5. CASE R # {}
  <2>1. PICK m \in R : \A k \in R : ~Older(k, m)
    <3> HIDE DEF R, C
    <3>1. R \in SUBSET Name BY <1>1, <1>2
    <3> QED BY <1>2, <1>5, <3>1, Eldest
  <2>2. m \in C /\ ~(Cardinality(Elder(m, C)) < Excess)
    BY DEF Oldest, Elder, PrunedBefore
  <2>3. R \subseteq C \ Elder(m, C) BY <2>1 DEF Elder
  <2>4. /\ IsFiniteSet(Elder(m, C)) /\ Cardinality(Elder(m, C)) \in Nat
        /\ C \cap Elder(m, C) = Elder(m, C)
    <3> HIDE DEF C, R
    <3>1. Elder(m, C) \subseteq C BY DEF Elder
    <3> QED BY <1>1, <3>1, FS_Subset, FS_CardinalityType
  <2> HIDE DEF C, R
  <2>5. /\ Cardinality(C \ Elder(m, C)) = Cardinality(C) - Cardinality(Elder(m, C))
        /\ IsFiniteSet(C \ Elder(m, C))
    <3>1. /\ IsFiniteSet(C \ Elder(m, C))
          /\ Cardinality(C \ Elder(m, C)) = Cardinality(C) - Cardinality(C \cap Elder(m, C))
      BY <1>1, FS_Difference
    <3> QED BY <2>4, <3>1
  <2>6. Cardinality(R) <= Cardinality(C) - Cardinality(Elder(m, C))
    BY <2>3, <2>5, FS_Subset
  <2>7. Cardinality(R) <= Cardinality(C) - (Cardinality(files) - Keep)
    BY <1>1, <1>2, <2>2, <2>4, <2>6 DEF Excess
  <2>8. Cardinality(Rest) <= Keep BY <1>1, <1>2, <1>3, <2>7
  <2> QED BY <2>8 DEF Rest, C
<1> QED BY <1>4, <1>5

\* The same for a listing that nothing is missing from.
LEMMA PruneAllFits ==
    ASSUME files \subseteq Name, IsFiniteSet(files)
    PROVE  Cardinality(files \ Oldest(files)) <= Keep
<1>1. PICK x : x \notin files
  <2>1. \E x : x \notin files
    <3> SUFFICES ASSUME \A x : x \in files PROVE FALSE OBVIOUS
    <3>1. NULL \in files OBVIOUS
    <3> QED BY <3>1, ProcsAssumption
  <2> QED BY <2>1
<1>2. files \ {x} = files BY <1>1
<1>3. Cardinality(files \ Oldest(files \ {x})) <= Keep BY PruneFits
<1> QED BY <1>2, <1>3

\* A victim of a prune has Keep newer names, or the protected one and Keep - 1.
LEMMA VictimsAreRanked ==
    ASSUME files \subseteq Name, IsFiniteSet(files), NEW x, NEW n \in Oldest(files \ {x})
    PROVE  Cardinality(Newer(n, files)) >= IF x \in files THEN Keep - 1 ELSE Keep
<1> DEFINE C == files \ {x}
<1> USE KeepAssumption
<1>1. IsFiniteSet(C) /\ C \subseteq Name /\ Cardinality(files) \in Nat
  BY FS_RemoveElement, FS_CardinalityType
<1>2. n \in C /\ n \in files /\ Cardinality(Elder(n, C)) < Excess
  BY DEF Oldest, Elder, PrunedBefore
<1>3. Elder(n, C) = Elder(n, files) \ {x} BY DEF Elder
<1>4. /\ IsFiniteSet(Elder(n, files)) /\ Cardinality(Elder(n, files)) \in Nat
      /\ Cardinality(Newer(n, files)) \in Nat
      /\ Cardinality(Newer(n, files)) = Cardinality(files) - 1 - Cardinality(Elder(n, files))
  BY <1>2, Sides
<1>5. x \notin files => x \notin Elder(n, files) BY DEF Elder
<1>6. Cardinality(Elder(n, files) \ {x}) =
        IF x \in Elder(n, files) THEN Cardinality(Elder(n, files)) - 1
                                 ELSE Cardinality(Elder(n, files))
  BY <1>4, FS_RemoveElement
<1> HIDE DEF C
<1>7. CASE x \in files BY <1>1, <1>2, <1>3, <1>4, <1>6, <1>7 DEF Excess
<1>8. CASE x \notin files BY <1>1, <1>2, <1>3, <1>4, <1>5, <1>6, <1>8 DEF Excess
<1> QED BY <1>7, <1>8

-------------------------------------------------------------------------------
(* The invariant *)

LEMMA InitInv == Init => Inv
<1> SUFFICES ASSUME Init PROVE Inv OBVIOUS
<1> USE KeepAssumption, ProcsAssumption
<1>1. PICK n \in 0..Keep : files = [t: {0}, tag: {"manual"}, seq: 1..n] BY DEF Init
<1>2. files \subseteq Name BY <1>1 DEF Name, Tags
<1>3. IsFiniteSet(files) /\ Cardinality(files) <= n
  <2> DEFINE f == [s \in 1..n |-> [t |-> 0, tag |-> "manual", seq |-> s]]
  <2>1. f \in [1..n -> files] BY <1>1
  <2>2. \A k \in files : \E s \in 1..n : f[s] = k
    <3>1. SUFFICES ASSUME NEW k \in files PROVE f[k.seq] = k /\ k.seq \in 1..n OBVIOUS
    <3>2. k = [t |-> k.t, tag |-> k.tag, seq |-> k.seq] /\ k.t = 0 /\ k.tag = "manual" /\ k.seq \in 1..n
      BY <1>1
    <3> QED BY <3>2
  <2>3. IsFiniteSet(1..n) /\ Cardinality(1..n) = n BY FS_Interval
  <2> HIDE DEF f
  <2>4. f \in Surjection(1..n, files) BY <2>1, <2>2 DEF Surjection
  <2> QED BY <2>3, <2>4, FS_Surjection
<1>4. TypeOK
  <2>1. pc \in [Procs -> {"idle", "requested", "queued", "copying", "listing", "pruning",
                         "rebuild", "binding", "recover"}]
    BY DEF Init
  <2>2. /\ target \in [Procs -> Name \cup {NULL}] /\ selected \in [Procs -> Name \cup {NULL}]
        /\ victims \in [Procs -> SUBSET Name]
    BY DEF Init
  <2>3. /\ clock \in 0..MaxClock /\ lock \in Restorers \cup {NULL}
        /\ beside \in Nat /\ made \in Nat /\ restored \in Nat /\ faults \in Nat
    BY DEF Init
  <2>4. overdue \in BOOLEAN BY Zenon DEF Init
  <2> QED BY <1>2, <2>1, <2>2, <2>3, <2>4 DEF TypeOK
<1>5. Places BY DEF Init, Places, Held, Procs
<1>6. Fits
  <2>1. Survivors = files BY DEF Survivors, Init
  <2>2. Cardinality(files) \in Nat BY <1>3, FS_CardinalityType
  <2> QED BY <1>3, <2>1, <2>2 DEF Fits
<1>7. Ranked BY DEF Ranked, Init
<1>8. Safe BY DEF Safe, Init
<1> QED BY <1>4, <1>5, <1>6, <1>7, <1>8 DEF Inv

\* Most steps neither publish, nor list, nor delete.
LEMMA StepKinds ==
    ASSUME TypeOK, Next
    PROVE  \/ \E p \in Procs : Publish(p) \/ List(p) \/ Unlink(p) \/ PruneFails(p)
           \/ /\ files' = files /\ victims' = victims /\ overdue' = overdue
              /\ \A p \in Procs : pc[p] = "listing" => pc'[p] = "listing"
<1> USE DEF TypeOK, Goto, Leave, Fail
<1>1. ASSUME NEW w \in Workers, CreateBackup(w) \/ ChooseName(w)
      PROVE  /\ files' = files /\ victims' = victims /\ overdue' = overdue
             /\ \A p \in Procs : pc[p] = "listing" => pc'[p] = "listing"
  BY <1>1 DEF CreateBackup, ChooseName
<1>2. ASSUME NEW q \in Procs, CopyFails(q) \/ Pruned(q)
      PROVE  /\ files' = files /\ victims' = victims /\ overdue' = overdue
             /\ \A p \in Procs : pc[p] = "listing" => pc'[p] = "listing"
  BY <1>2 DEF CopyFails, Pruned
<1>3. ASSUME NEW r \in Restorers,
             \/ \E n \in files \cup {NULL} : Select(r, n)
             \/ Enter(r) \/ Rebuild(r) \/ RebuildFails(r) \/ Bind(r) \/ BindFails(r) \/ Recover(r)
      PROVE  /\ files' = files /\ victims' = victims /\ overdue' = overdue
             /\ \A p \in Procs : pc[p] = "listing" => pc'[p] = "listing"
  BY <1>3 DEF Select, Enter, Rebuild, RebuildFails, Bind, BindFails, Recover
<1>4. CASE Tick BY <1>4 DEF Tick
<1> QED BY <1>1, <1>2, <1>3, <1>4, Zenon DEF Next

LEMMA NextFiles ==
    ASSUME TypeOK, Places, IsFiniteSet(files), Next
    PROVE  files' \subseteq Name /\ IsFiniteSet(files')
<1>1. ASSUME NEW p \in Procs, Publish(p)
      PROVE  files' \subseteq Name /\ IsFiniteSet(files')
  <2>1. target[p] \in Name BY <1>1 DEF Publish, Places, Procs, Held
  <2> QED BY <1>1, <2>1, FS_AddElement DEF Publish, TypeOK
<1>2. ASSUME NEW p \in Procs, List(p) PROVE files' = files BY <1>2 DEF List
<1>3. ASSUME NEW p \in Procs, Unlink(p)
      PROVE  files' \subseteq Name /\ IsFiniteSet(files')
  <2>1. PICK n : files' = files \ {n} BY <1>3 DEF Unlink
  <2> QED BY <2>1, FS_RemoveElement DEF TypeOK
<1>4. ASSUME NEW p \in Procs, PruneFails(p) PROVE files' = files BY <1>4 DEF PruneFails
<1>5. CASE files' = files BY <1>5 DEF TypeOK
<1> QED BY <1>1, <1>2, <1>3, <1>4, <1>5, StepKinds DEF TypeOK

LEMMA NextPlaces ==
    ASSUME TypeOK, Places, IsFiniteSet(files), Next
    PROVE  TypeOK' /\ Places'
<1> USE KeepAssumption, ProcsAssumption DEF Procs, Goto, TypeOK, Places, Held, bounds
<1>0. files' \subseteq Name BY NextFiles
<1>1. ASSUME NEW w \in Workers, ChooseName(w) PROVE TypeOK' /\ Places'
  <2>1. /\ UniquePath("manual") \in Name
        /\ UniquePath("manual").t = clock /\ UniquePath("manual").tag = "manual"
    BY UniqueIsFree DEF Tags
  <2> HIDE DEF UniquePath
  <2>2. TypeOK' BY <1>0, <1>1, <2>1 DEF ChooseName
  <2>3. Places' BY <1>1, <2>1 DEF ChooseName
  <2> QED BY <2>2, <2>3
<1>2. ASSUME NEW p \in Procs, Publish(p) PROVE TypeOK' /\ Places'
  <2>1. TypeOK' BY <1>0, <1>2 DEF Publish
  <2>2. Places' BY <1>2 DEF Publish
  <2> QED BY <2>1, <2>2
<1>3. ASSUME NEW p \in Procs, CopyFails(p) PROVE TypeOK' /\ Places'
  <2>1. TypeOK' BY <1>0, <1>3 DEF CopyFails, Fail, Fault
  <2>2. Places' BY <1>3 DEF CopyFails, Fail, Fault
  <2> QED BY <2>1, <2>2
<1>4. ASSUME NEW p \in Procs, List(p) PROVE TypeOK' /\ Places'
  <2>1. Oldest(files \ Protected(p)) \subseteq Name BY DEF Oldest
  <2>2. TypeOK' BY <1>0, <1>4, <2>1 DEF List
  <2>3. Places' BY <1>4 DEF List
  <2> QED BY <2>2, <2>3
<1>5. ASSUME NEW p \in Procs, Unlink(p) PROVE TypeOK' /\ Places'
  <2>1. TypeOK' BY <1>0, <1>5 DEF Unlink
  <2>2. Places' BY <1>5 DEF Unlink
  <2> QED BY <2>1, <2>2
<1>6. ASSUME NEW p \in Procs, Pruned(p) PROVE TypeOK' /\ Places'
  <2>1. TypeOK' BY <1>0, <1>6 DEF Pruned
  <2>2. Places' BY <1>6 DEF Pruned
  <2> QED BY <2>1, <2>2
<1>7. ASSUME NEW r \in Restorers, NEW n \in files \cup {NULL}, Select(r, n) PROVE TypeOK' /\ Places'
  <2>1. TypeOK' BY <1>0, <1>7 DEF Select
  <2>2. Places' BY <1>7 DEF Select
  <2> QED BY <2>1, <2>2
<1>8. ASSUME NEW r \in Restorers, Enter(r) PROVE TypeOK' /\ Places'
  <2>1. UniquePath("pre_restore") \in Name BY UniqueIsFree DEF Tags
  <2>2. target' = [target EXCEPT ![r] = UniquePath("pre_restore")] /\ beside' \in Nat
    BY <1>8 DEF Enter
  <2>3. TypeOK' BY <1>0, <1>8, <2>1, <2>2 DEF Enter
  <2>4. Places' BY <1>8, <2>1, <2>2 DEF Enter
  <2> QED BY <2>3, <2>4
<1>9. ASSUME NEW r \in Restorers, Rebuild(r) PROVE TypeOK' /\ Places'
  <2>1. TypeOK' BY <1>0, <1>9 DEF Rebuild
  <2>2. Places' BY <1>9 DEF Rebuild
  <2> QED BY <2>1, <2>2
<1>10. ASSUME NEW r \in Restorers, RebuildFails(r) PROVE TypeOK' /\ Places'
  <2>1. TypeOK' BY <1>0, <1>10 DEF RebuildFails, Fault, Leave
  <2>2. Places' BY <1>10 DEF RebuildFails, Fault, Leave
  <2> QED BY <2>1, <2>2
<1>11. ASSUME NEW r \in Restorers, Bind(r) PROVE TypeOK' /\ Places'
  <2>1. TypeOK' BY <1>0, <1>11 DEF Bind, Leave
  <2>2. Places' BY <1>11 DEF Bind, Leave
  <2> QED BY <2>1, <2>2
<1>12. ASSUME NEW r \in Restorers, BindFails(r) PROVE TypeOK' /\ Places'
  <2>1. TypeOK' BY <1>0, <1>12 DEF BindFails, Fault
  <2>2. Places' BY <1>12 DEF BindFails, Fault
  <2> QED BY <2>1, <2>2
<1>13. ASSUME NEW r \in Restorers, Recover(r) PROVE TypeOK' /\ Places'
  <2>1. TypeOK' BY <1>0, <1>13 DEF Recover, Leave
  <2>2. Places' BY <1>13 DEF Recover, Leave
  <2> QED BY <2>1, <2>2
<1>14. CASE Tick
  <2>1. TypeOK' BY <1>14 DEF Tick
  <2>2. \A n \in Name : n.t <= clock => n.t <= clock + 1 BY DEF Name
  <2>3. Places' BY <1>14, <2>2 DEF Tick
  <2> QED BY <2>1, <2>3
<1>15. ASSUME NEW w \in Workers, CreateBackup(w) PROVE TypeOK' /\ Places'
  <2>1. TypeOK' BY <1>0, <1>15 DEF CreateBackup
  <2>2. Places' BY <1>15 DEF CreateBackup
  <2> QED BY <2>1, <2>2
<1>16. ASSUME NEW p \in Procs, PruneFails(p) PROVE TypeOK' /\ Places'
  <2>1. TypeOK' BY <1>0, <1>16 DEF PruneFails, Fail, Fault
  <2>2. Places' BY <1>16 DEF PruneFails, Fail, Fault
  <2> QED BY <2>1, <2>2
<1> QED BY <1>1, <1>2, <1>3, <1>4, <1>5, <1>6, <1>7, <1>8, <1>9, <1>10, <1>11, <1>12, <1>13, <1>14, <1>15, <1>16, Zenon DEF Next

\* What no prune will delete: a publication is listed before it is pruned, a
\* listing leaves at most Keep, and an unlink takes a victim.
LEMMA NextFits ==
    ASSUME TypeOK, Places, Fits, Next
    PROVE  Fits'
<1> USE ProcsAssumption, KeepAssumption DEF TypeOK
<1>1. IsFiniteSet(files) /\ IsFiniteSet(files') /\ files \subseteq Name BY NextFiles DEF Fits
<1>2. ASSUME NEW p \in Procs, Publish(p) PROVE Fits'
  <2>1. pc'[p] = "listing" BY <1>2 DEF Publish, Goto
  <2> QED BY <1>1, <2>1 DEF Fits
<1>3. ASSUME NEW p \in Procs, List(p) PROVE Fits'
  <2>1. Cardinality(files \ Oldest(files \ Protected(p))) <= Keep
    <3>1. Protected(p) = {} \/ \E x : Protected(p) = {x} BY DEF Protected
    <3>2. Protected(p) = {} => files \ Protected(p) = files OBVIOUS
    <3> QED BY <1>1, <3>1, <3>2, PruneFits, PruneAllFits
  <2>2. /\ files' = files
        /\ victims' = [victims EXCEPT ![p] = Oldest(files \ Protected(p))]
    BY <1>3 DEF List
  <2>3. Survivors' \subseteq files \ Oldest(files \ Protected(p))
    BY <2>2 DEF Survivors
  <2>4. /\ IsFiniteSet(files \ Oldest(files \ Protected(p)))
        /\ Cardinality(files \ Oldest(files \ Protected(p))) \in Nat
    BY <1>1, FS_Difference, FS_CardinalityType
  <2>5. Cardinality(Survivors') \in Nat /\ Cardinality(Survivors') <= Keep
    <3> DEFINE A == files \ Oldest(files \ Protected(p))
    <3> HIDE DEF A
    <3>1. IsFiniteSet(A) /\ Cardinality(A) \in Nat /\ Cardinality(A) <= Keep BY <2>1, <2>4 DEF A
    <3>2. Survivors' \in SUBSET A BY <2>3 DEF A
    <3>3. IsFiniteSet(Survivors') /\ Cardinality(Survivors') <= Cardinality(A)
      BY <3>1, <3>2, FS_Subset
    <3>4. Cardinality(Survivors') \in Nat BY <3>3, FS_CardinalityType
    <3> QED BY <3>1, <3>3, <3>4
  <2> QED BY <1>1, <2>5 DEF Fits
<1>4. ASSUME NEW p \in Procs, Unlink(p) PROVE Fits'
  <2>1. PICK n \in victims[p] :
          files' = files \ {n} /\ victims' = [victims EXCEPT ![p] = @ \ {n}] /\ pc' = pc
          /\ overdue' = overdue
    BY <1>4 DEF Unlink
  <2>2. Survivors' = Survivors BY <2>1 DEF Survivors
  <2> QED BY <1>1, <2>1, <2>2 DEF Fits
<1>5. CASE /\ files' = files /\ victims' = victims /\ overdue' = overdue
           /\ \A p \in Procs : pc[p] = "listing" => pc'[p] = "listing"
  <2>1. Survivors' = Survivors BY <1>5 DEF Survivors
  <2> QED BY <1>1, <1>5, <2>1 DEF Fits
<1>6. ASSUME NEW p \in Procs, PruneFails(p) PROVE Fits'
  <2>1. overdue' BY <1>6 DEF PruneFails
  <2> QED BY <1>1, <2>1 DEF Fits
<1> QED BY <1>2, <1>3, <1>4, <1>5, <1>6, StepKinds

\* A name that another one follows keeps its followers when that one goes.
LEMMA NewerRemains ==
    ASSUME files \subseteq Name, IsFiniteSet(files), NEW n \in Name, NEW k \in Name
    PROVE  \/ Newer(n, files \ {k}) = Newer(n, files)
           \/ Cardinality(Newer(n, files \ {k})) >= Cardinality(Newer(k, files))
<1>1. CASE ~Older(n, k) BY <1>1 DEF Newer
<1>2. CASE Older(n, k)
  <2>1. Newer(k, files) \subseteq Newer(n, files \ {k})
    BY <1>2, OlderIsTransitive, OlderIsStrict DEF Newer
  <2>2. Newer(n, files \ {k}) \subseteq files BY DEF Newer
  <2>3. /\ IsFiniteSet(Newer(n, files \ {k})) /\ Cardinality(Newer(n, files \ {k})) \in Nat
    BY <2>2, FS_Subset, FS_CardinalityType
  <2>4. /\ Cardinality(Newer(k, files)) <= Cardinality(Newer(n, files \ {k}))
        /\ Cardinality(Newer(k, files)) \in Nat
    BY <2>1, <2>3, FS_Subset, FS_CardinalityType
  <2> QED BY <2>3, <2>4
<1> QED BY <1>1, <1>2

LEMMA RoomShrinks ==
    ASSUME TypeOK, Next
    PROVE  Room' <= Room /\ Room \in Nat /\ Room' \in Nat /\ Room <= Keep
<1>1. restored' = restored \/ restored' = restored + 1
  BY DEF Next, CreateBackup, ChooseName, Publish, CopyFails, List, Unlink, Pruned, PruneFails,
         Select, Enter, Rebuild,
         RebuildFails, Bind, BindFails, Recover, Tick, bounds
<1>2. restored' # 0 \/ restored = 0 BY <1>1 DEF TypeOK
<1> QED BY <1>2, KeepAssumption DEF Room

\* A victim keeps its newer names: what a prune deletes had as many of its own.
LEMMA NextRanked ==
    ASSUME TypeOK, Places, Fits, Ranked, Next
    PROVE  Ranked'
<1> USE ProcsAssumption, KeepAssumption DEF TypeOK
<1>1. IsFiniteSet(files) /\ IsFiniteSet(files') /\ files \subseteq Name BY NextFiles DEF Fits
<1>2. Room' <= Room /\ Room \in Nat /\ Room' \in Nat /\ Room <= Keep BY RoomShrinks
<1>3. \A n : /\ Cardinality(Newer(n, files)) \in Nat /\ IsFiniteSet(Newer(n, files))
             /\ Cardinality(Newer(n, files')) \in Nat /\ IsFiniteSet(Newer(n, files'))
  <2>1. \A n : Newer(n, files) \subseteq files /\ Newer(n, files') \subseteq files' BY DEF Newer
  <2> QED BY <1>1, <2>1, FS_Subset, FS_CardinalityType
<1>4. ASSUME NEW p \in Procs, Publish(p) PROVE Ranked'
  <2>1. files \subseteq files' /\ victims' = victims BY <1>4 DEF Publish
  <2>2. \A n : Newer(n, files) \subseteq Newer(n, files') BY <2>1 DEF Newer
  <2>3. \A n : Cardinality(Newer(n, files)) <= Cardinality(Newer(n, files'))
    BY <1>3, <2>2, FS_Subset
  <2>4. SUFFICES ASSUME NEW q \in Procs, NEW n \in victims[q]
                 PROVE  Cardinality(Newer(n, files')) >= Room'
    BY <2>1 DEF Ranked
  <2>5. Cardinality(Newer(n, files)) >= Room BY DEF Ranked
  <2> QED BY <1>2, <1>3, <2>3, <2>5
<1>5. ASSUME NEW p \in Procs, List(p) PROVE Ranked'
  <2>1. /\ files' = files /\ restored' = restored
        /\ victims' = [victims EXCEPT ![p] = Oldest(files \ Protected(p))]
        /\ pc[p] = "listing"
    BY <1>5 DEF List, bounds
  <2>2. ASSUME NEW n \in Oldest(files \ Protected(p))
        PROVE  Cardinality(Newer(n, files)) >= Room
    <3>1. CASE p \in Restorers
      <4>1. Room = Keep - 1 BY <2>1, <3>1 DEF Places, Room
      <4>2. n \in Oldest(files \ {selected[p]}) BY <3>1 DEF Protected
      <4>3. Cardinality(Newer(n, files)) >= IF selected[p] \in files THEN Keep - 1 ELSE Keep
        BY <1>1, <4>2, VictimsAreRanked
      <4> QED BY <1>3, <4>1, <4>3
    <3>2. CASE p \notin Restorers
      <4>1. NULL \notin files /\ files \ {NULL} = files BY <1>1
      <4>2. n \in Oldest(files \ {NULL}) BY <3>2, <4>1 DEF Protected
      <4>3. Cardinality(Newer(n, files)) >= Keep BY <1>1, <4>1, <4>2, VictimsAreRanked
      <4> QED BY <1>2, <1>3, <4>3
    <3> QED BY <3>1, <3>2
  <2>3. Room' = Room BY <2>1 DEF Room
  <2> QED BY <2>1, <2>2, <2>3 DEF Ranked
<1>6. ASSUME NEW p \in Procs, Unlink(p) PROVE Ranked'
  <2>1. PICK k \in victims[p] :
          files' = files \ {k} /\ victims' = [victims EXCEPT ![p] = @ \ {k}]
    BY <1>6 DEF Unlink
  <2>2. SUFFICES ASSUME NEW q \in Procs, NEW n \in victims[q]
                 PROVE  Cardinality(Newer(n, files')) >= Room'
    <3>1. \A q \in Procs : victims'[q] \subseteq victims[q] BY <2>1
    <3> QED BY <3>1 DEF Ranked
  <2>3. Cardinality(Newer(n, files)) >= Room /\ Cardinality(Newer(k, files)) >= Room
    BY DEF Ranked
  <2>4. n \in Name /\ k \in Name OBVIOUS
  <2>5. \/ Newer(n, files') = Newer(n, files)
        \/ Cardinality(Newer(n, files')) >= Cardinality(Newer(k, files))
    BY <1>1, <2>1, <2>4, NewerRemains
  <2> QED BY <1>2, <1>3, <2>3, <2>5
<1>7. CASE files' = files /\ victims' = victims
  <2>1. SUFFICES ASSUME NEW q \in Procs, NEW n \in victims[q]
                 PROVE  Cardinality(Newer(n, files')) >= Room'
    BY <1>7 DEF Ranked
  <2>2. Cardinality(Newer(n, files)) >= Room BY DEF Ranked
  <2> QED BY <1>2, <1>3, <1>7, <2>2
<1>8. ASSUME NEW p \in Procs, PruneFails(p) PROVE Ranked'
  <2>1. /\ files' = files /\ restored' = restored
        /\ victims' = [victims EXCEPT ![p] = {}]
    BY <1>8 DEF PruneFails
  <2>2. \A q \in Procs : victims'[q] \subseteq victims[q] BY <2>1
  <2>3. Room' = Room BY <2>1 DEF Room
  <2> QED BY <2>1, <2>2, <2>3 DEF Ranked
<1> QED BY <1>4, <1>5, <1>6, <1>7, <1>8, StepKinds

LEMMA SafeStays ==
    ASSUME TypeOK, Places, Safe, lock # NULL, lock' = lock,
           beside' = beside, beside < Reach(lock), target'[lock] = target[lock],
           Newer(target[lock], files' \cup Pending') \subseteq Upcoming(target[lock]),
           pc'[lock] \in Published => target[lock] \in files',
           \A p \in Procs : target[lock] \notin victims'[p]
    PROVE  Safe'
<1> DEFINE U == Upcoming(target[lock])
           V == Newer(target[lock], files' \cup Pending')
<1>1. IsFiniteSet(U) /\ Cardinality(U) <= beside BY DEF Safe
<1>2. IsFiniteSet(V) /\ Cardinality(V) <= Cardinality(U)
  <2> HIDE DEF U, V
  <2>1. V \in SUBSET U BY DEF U, V
  <2> QED BY <1>1, <2>1, FS_Subset
<1>3. Cardinality(U) \in Nat /\ Cardinality(V) \in Nat
  <2> HIDE DEF U, V
  <2> QED BY <1>1, <1>2, FS_CardinalityType
<1>4. Upcoming(target[lock])' = V BY DEF Upcoming, Newer, Older
<1>5. Cardinality(V) <= beside BY <1>1, <1>2, <1>3 DEF TypeOK
<1> HIDE DEF V
<1> QED BY <1>2, <1>4, <1>5 DEF Safe

\* Most steps change neither the names on their way nor the victims.
LEMMA SafeIdle ==
    ASSUME TypeOK, Places, Safe, lock # NULL, lock' = lock,
           beside' = beside, beside < Reach(lock),
           files' = files, target' = target,
           \A p \in Procs : victims'[p] \subseteq victims[p],
           \A w \in Workers : pc'[w] = "copying" => pc[w] = "copying",
           pc'[lock] \in Published => pc[lock] \in Published
    PROVE  Safe'
<1>1. Pending' \subseteq Pending BY DEF Pending
<1>2. Newer(target[lock], files' \cup Pending') \subseteq Upcoming(target[lock])
  BY <1>1 DEF Newer, Upcoming
<1>3. /\ pc'[lock] \in Published => target[lock] \in files'
      /\ \A p \in Procs : target[lock] \notin victims'[p]
  BY DEF Safe
<1> QED BY <1>2, <1>3, SafeStays

\* The safety backup is nobody's victim: too few newer names are there.
LEMMA NextSafe ==
    ASSUME TypeOK, Places, Fits, Ranked, Safe, Next
    PROVE  Safe'
<1> USE ProcsAssumption, KeepAssumption
<1>1. SUFFICES ASSUME lock' # NULL, (beside < Reach(lock))' PROVE Safe' BY DEF Safe
<1>2. IsFiniteSet(files) /\ files \subseteq Name /\ beside \in Nat BY DEF Fits, TypeOK
<1>3. lock # NULL => /\ lock \in Restorers /\ lock \in Procs /\ lock \notin Workers
                     /\ pc[lock] \in Held /\ target[lock] \in Name
  BY DEF TypeOK, Places, Procs
<1>0. ASSUME lock # NULL, lock' = lock PROVE Reach(lock)' = Reach(lock)
  <2>1. selected'[lock] = selected[lock]
    BY <1>0, <1>3 DEF Next, CreateBackup, ChooseName, Publish, CopyFails, List, Unlink, Pruned,
       PruneFails, Select, Enter, Rebuild, RebuildFails, Bind, BindFails, Recover, Tick, TypeOK, Held
  <2> QED BY <1>0, <2>1 DEF Reach
<1>4. ASSUME lock # NULL, beside < Reach(lock)
      PROVE  Cardinality(Newer(target[lock], files)) <= beside
  <2>1. /\ IsFiniteSet(Upcoming(target[lock])) /\ Cardinality(Upcoming(target[lock])) <= beside
    BY <1>4 DEF Safe
  <2>2. Newer(target[lock], files) \subseteq Upcoming(target[lock]) BY DEF Newer, Upcoming
  <2>3. /\ Cardinality(Newer(target[lock], files)) <= Cardinality(Upcoming(target[lock]))
        /\ Cardinality(Newer(target[lock], files)) \in Nat
        /\ Cardinality(Upcoming(target[lock])) \in Nat
    BY <2>1, <2>2, FS_Subset, FS_CardinalityType
  <2> QED BY <1>2, <2>1, <2>3
<1>5. ASSUME NEW w \in Workers, ChooseName(w) PROVE Safe'
  <2> DEFINE u == UniquePath("manual")
             U == Upcoming(target[lock])
             V == Newer(target[lock], files' \cup Pending')
  <2>1. /\ lock' = lock /\ beside' = beside + 1 /\ files' = files /\ victims' = victims
        /\ target' = [target EXCEPT ![w] = u] /\ pc' = [pc EXCEPT ![w] = "copying"]
    BY <1>5 DEF ChooseName, Goto
  <2> HIDE DEF u
  <2>2. lock # NULL /\ beside < Reach(lock) /\ lock # w BY <1>0, <1>1, <1>2, <1>3, <2>1 DEF Reach
  <2>3. target'[lock] = target[lock] /\ pc'[lock] = pc[lock] BY <1>3, <2>1, <2>2 DEF TypeOK
  <2>4. Pending' \subseteq Pending \cup {u}
    BY <2>1 DEF Pending, TypeOK, Procs
  <2>5. V \subseteq U \cup {u} BY <2>1, <2>4 DEF Newer, Upcoming
  <2>6. IsFiniteSet(U) /\ Cardinality(U) <= beside BY <2>2 DEF Safe
  <2> HIDE DEF U, V
  <2>7. /\ IsFiniteSet(U \cup {u}) /\ Cardinality(U) \in Nat
        /\ Cardinality(U \cup {u}) = IF u \in U THEN Cardinality(U) ELSE Cardinality(U) + 1
    BY <2>6, FS_AddElement, FS_CardinalityType
  <2>8. IsFiniteSet(V) /\ Cardinality(V) \in Nat /\ Cardinality(V) <= Cardinality(U \cup {u})
    <3>1. V \in SUBSET (U \cup {u}) BY <2>5
    <3>2. IsFiniteSet(V) /\ Cardinality(V) <= Cardinality(U \cup {u}) BY <2>7, <3>1, FS_Subset
    <3> QED BY <3>2, FS_CardinalityType
  <2>9. Cardinality(V) <= beside' BY <1>2, <2>1, <2>6, <2>7, <2>8
  <2>10. Upcoming(target[lock])' = V BY <2>1, <2>3 DEF V, Upcoming, Newer, Older
  <2>12. /\ pc[lock] \in Published => target[lock] \in files
         /\ \A p \in Procs : target[lock] \notin victims[p]
    BY <2>2 DEF Safe
  <2> QED BY <2>1, <2>3, <2>8, <2>9, <2>10, <2>12 DEF Safe
<1>6. ASSUME NEW p \in Procs, Publish(p) PROVE Safe'
  <2>1. /\ lock' = lock /\ beside' = beside /\ files' = files \cup {target[p]}
        /\ victims' = victims /\ target' = target /\ pc' = [pc EXCEPT ![p] = "listing"]
        /\ pc[p] = "copying"
    BY <1>6 DEF Publish, Goto
  <2>2. lock # NULL /\ beside < Reach(lock) BY <1>0, <1>1, <2>1
  <2>3. Newer(target[lock], files' \cup Pending') \subseteq Upcoming(target[lock])
    <3>1. Pending' \subseteq Pending BY <2>1 DEF Pending, TypeOK
    <3>2. CASE p \in Workers
      <4>1. target[p] \in Pending BY <2>1, <3>2 DEF Pending
      <4> QED BY <2>1, <3>1, <4>1 DEF Newer, Upcoming
    <3>3. CASE p \in Restorers
      <4>1. p = lock BY <2>1, <3>3 DEF Places, Held
      <4>2. ~Older(target[lock], target[p]) BY <1>3, <2>2, <4>1, OlderIsStrict
      <4> QED BY <2>1, <3>1, <4>2 DEF Newer, Upcoming
    <3> QED BY <3>2, <3>3 DEF Procs
  <2>5. pc'[lock] \in Published => target[lock] \in files'
    BY <1>3, <2>1, <2>2 DEF Safe, TypeOK
  <2>6. \A q \in Procs : target[lock] \notin victims'[q] BY <2>1, <2>2 DEF Safe
  <2> QED BY <2>1, <2>2, <2>3, <2>5, <2>6, SafeStays
<1>7. ASSUME NEW p \in Procs, List(p) PROVE Safe'
  <2>1. /\ lock' = lock /\ beside' = beside /\ files' = files /\ target' = target
        /\ victims' = [victims EXCEPT ![p] = Oldest(files \ Protected(p))]
        /\ pc[p] = "listing" /\ pc' = [pc EXCEPT ![p] = "pruning"]
    BY <1>7 DEF List, Goto
  <2>2. lock # NULL /\ beside < Reach(lock) BY <1>0, <1>1, <2>1
  <2>3. Cardinality(Newer(target[lock], files)) <= beside BY <1>4, <2>2
  <2>4. Cardinality(Newer(target[lock], files)) \in Nat
    <3>1. Newer(target[lock], files) \subseteq files BY DEF Newer
    <3> QED BY <1>2, <3>1, FS_Subset, FS_CardinalityType
  <2>5. target[lock] \notin Oldest(files \ Protected(p))
    <3>1. SUFFICES ASSUME target[lock] \in Oldest(files \ Protected(p)) PROVE FALSE OBVIOUS
    <3>2. CASE p \in Restorers
      <4>1. p = lock BY <2>1, <3>2 DEF Places, Held
      <4>4. selected[p] # NULL \/ selected[p] \notin files BY <1>2
      <4>2. target[lock] \in Oldest(files \ {selected[p]}) BY <3>1, <3>2 DEF Protected
      <4>3. Cardinality(Newer(target[lock], files)) >= IF selected[p] \in files THEN Keep - 1 ELSE Keep
        BY <1>2, <4>2, VictimsAreRanked
      <4> QED BY <1>2, <2>2, <2>3, <2>4, <4>1, <4>3, <4>4 DEF Reach
    <3>3. CASE p \notin Restorers
      <4>1. NULL \notin files /\ files \ {NULL} = files BY <1>2
      <4>2. target[lock] \in Oldest(files \ {NULL}) BY <3>1, <3>3, <4>1 DEF Protected
      <4>3. Cardinality(Newer(target[lock], files)) >= Keep
        BY <1>2, <4>1, <4>2, VictimsAreRanked
      <4> QED BY <1>2, <2>2, <2>3, <2>4, <4>3 DEF Reach
    <3> QED BY <3>2, <3>3
  <2>6. Newer(target[lock], files' \cup Pending') \subseteq Upcoming(target[lock])
    <3>1. Pending' \subseteq Pending BY <2>1 DEF Pending, TypeOK
    <3> QED BY <2>1, <3>1 DEF Newer, Upcoming
  <2>8. pc'[lock] \in Published => target[lock] \in files'
    BY <1>3, <2>1, <2>2 DEF Safe, TypeOK, Published, Held
  <2>9. \A q \in Procs : target[lock] \notin victims'[q] BY <2>1, <2>2, <2>5 DEF Safe, TypeOK
  <2> QED BY <2>1, <2>2, <2>6, <2>8, <2>9, SafeStays
<1>8. ASSUME NEW p \in Procs, Unlink(p) PROVE Safe'
  <2>1. /\ lock' = lock /\ beside' = beside /\ target' = target /\ pc' = pc
    BY <1>8 DEF Unlink, bounds
  <2>2. PICK n \in victims[p] :
          files' = files \ {n} /\ victims' = [victims EXCEPT ![p] = @ \ {n}]
    BY <1>8 DEF Unlink
  <2>3. lock # NULL /\ beside < Reach(lock) BY <1>0, <1>1, <2>1
  <2>4. \A q \in Procs : target[lock] \notin victims[q] BY <2>3 DEF Safe
  <2>5. Newer(target[lock], files' \cup Pending') \subseteq Upcoming(target[lock])
    <3>1. Pending' = Pending BY <2>1 DEF Pending
    <3> QED BY <2>2, <3>1 DEF Newer, Upcoming
  <2>6. /\ pc'[lock] \in Published => target[lock] \in files'
    BY <2>1, <2>2, <2>3, <2>4 DEF Safe
  <2>7. \A q \in Procs : target[lock] \notin victims'[q] BY <2>2, <2>4 DEF TypeOK
  <2> QED BY <2>1, <2>3, <2>5, <2>6, <2>7, SafeStays
<1>9. ASSUME NEW r \in Restorers, Enter(r) PROVE Safe'
  <2> DEFINE own == UniquePath("pre_restore")
  <2>1. /\ own \in Name /\ own.t = clock /\ own.tag = "pre_restore"
    BY <1>2, UniqueIsFree DEF Tags, TypeOK
  <2>2. /\ lock' = r /\ lock = NULL /\ files' = files /\ victims' = victims
        /\ target' = [target EXCEPT ![r] = own] /\ pc' = [pc EXCEPT ![r] = "copying"]
        /\ beside' = IF \E k \in files : Older(own, k) THEN Keep ELSE 0
    BY <1>9 DEF Enter, Goto
  <2> HIDE DEF own
  <2>3. beside' = 0 /\ \A k \in files : ~Older(own, k) BY <1>1, <2>2 DEF Reach
  <2>4. r \notin Workers /\ r \in Procs BY DEF Procs
  <2>5. target'[r] = own /\ pc'[r] = "copying" BY <2>2, <2>4 DEF TypeOK
  <2>6. Pending' = Pending BY <2>2, <2>4 DEF Pending, TypeOK, Procs
  <2>7. ASSUME NEW k \in Pending PROVE ~Older(own, k)
    <3>1. k \in Name /\ k.t <= clock /\ k.tag = "manual" BY DEF Pending, Places
    <3> QED BY <2>1, <3>1 DEF Older, Name, TypeOK
  <2>8. Upcoming(target[lock])' = {} BY <2>2, <2>3, <2>5, <2>6, <2>7 DEF Upcoming, Newer
  <2>9. IsFiniteSet({}) /\ Cardinality({}) = 0 BY FS_EmptySet
  <2>10. ASSUME NEW p \in Procs, own \in victims[p] PROVE FALSE
    <3>1. Newer(own, files) = {} BY <2>3 DEF Newer
    <3>2. Cardinality(Newer(own, files)) >= Room BY <2>10 DEF Ranked
    <3> QED BY <2>9, <3>1, <3>2 DEF Room
  <2>11. IsFiniteSet(Upcoming(target[lock])') /\ Cardinality(Upcoming(target[lock])') <= beside'
    BY <2>3, <2>8, <2>9
  <2>12. pc'[lock'] \notin Published BY <2>2, <2>5 DEF Published
  <2>13. \A p \in Procs : target'[lock'] \notin victims'[p] BY <2>2, <2>5, <2>10
  <2> QED BY <2>3, <2>11, <2>12, <2>13 DEF Safe
<1>10. ASSUME NEW p \in Procs, CopyFails(p) \/ Pruned(p) \/ PruneFails(p) PROVE Safe'
  <2>1. /\ beside' = beside /\ files' = files /\ target' = target
        /\ \A q \in Procs : victims'[q] \subseteq victims[q]
        /\ lock' \in {lock, NULL}
    BY <1>10 DEF CopyFails, Pruned, PruneFails, Fail, TypeOK
  <2>2. lock' = lock /\ lock # NULL /\ beside < Reach(lock) BY <1>0, <1>1, <2>1
  <2>3. /\ \A w \in Workers : pc'[w] = "copying" => pc[w] = "copying"
        /\ pc'[lock] \in Published => pc[lock] \in Published
    BY <1>3, <1>10, <2>2 DEF CopyFails, Pruned, PruneFails, Fail, Goto, TypeOK, Procs, Published, Held
  <2> QED BY <2>1, <2>2, <2>3, SafeIdle
<1>11. ASSUME NEW r \in Restorers,
              \/ \E n \in files \cup {NULL} : Select(r, n)
              \/ Rebuild(r) \/ RebuildFails(r) \/ Bind(r) \/ BindFails(r) \/ Recover(r)
       PROVE  Safe'
  <2>1. /\ beside' = beside /\ files' = files /\ victims' = victims /\ target' = target
        /\ lock' \in {lock, NULL}
    BY <1>11 DEF Select, Rebuild, RebuildFails, Bind, BindFails, Recover, Leave
  <2>2. lock' = lock /\ lock # NULL /\ beside < Reach(lock) BY <1>0, <1>1, <2>1
  <2>3. /\ \A w \in Workers : pc'[w] = "copying" => pc[w] = "copying"
        /\ pc'[lock] \in Published => pc[lock] \in Published
    BY <1>3, <1>11, <2>2
    DEF Select, Rebuild, RebuildFails, Bind, BindFails, Recover, Leave, Goto, TypeOK, Procs,
        Published, Held
  <2> QED BY <2>1, <2>2, <2>3, SafeIdle
<1>12. CASE Tick
  <2>1. /\ beside' = beside /\ files' = files /\ victims' = victims /\ target' = target
        /\ lock' = lock /\ pc' = pc
    BY <1>12 DEF Tick
  <2>2. lock # NULL /\ beside < Reach(lock) BY <1>0, <1>1, <2>1
  <2> QED BY <2>1, <2>2, SafeIdle
<1>13. ASSUME NEW w \in Workers, CreateBackup(w) PROVE Safe'
  <2>1. /\ beside' = beside /\ files' = files /\ victims' = victims /\ target' = target
        /\ lock' = lock /\ pc' = [pc EXCEPT ![w] = "requested"]
    BY <1>13 DEF CreateBackup, Goto
  <2>2. lock # NULL /\ beside < Reach(lock) BY <1>0, <1>1, <2>1
  <2>3. /\ \A v \in Workers : pc'[v] = "copying" => pc[v] = "copying"
        /\ pc'[lock] \in Published => pc[lock] \in Published
    BY <1>3, <2>1, <2>2 DEF TypeOK, Procs
  <2> QED BY <2>1, <2>2, <2>3, SafeIdle
<1> QED BY <1>5, <1>6, <1>7, <1>8, <1>9, <1>10, <1>11, <1>12, <1>13, Zenon DEF Next

LEMMA NextInv == Inv /\ [Next]_vars => Inv'
<1> SUFFICES ASSUME Inv, [Next]_vars PROVE Inv' OBVIOUS
<1>1. CASE Next
  <2>1. TypeOK' /\ Places' BY <1>1, NextPlaces DEF Inv, Fits
  <2>2. Fits' BY <1>1, NextFits DEF Inv
  <2>3. Ranked' BY <1>1, NextRanked DEF Inv
  <2>4. Safe' BY <1>1, NextSafe DEF Inv
  <2> QED BY <2>1, <2>2, <2>3, <2>4 DEF Inv
<1>2. CASE UNCHANGED vars
  <2>1. /\ files' = files /\ clock' = clock /\ pc' = pc /\ target' = target
        /\ victims' = victims /\ selected' = selected /\ lock' = lock /\ beside' = beside
        /\ made' = made /\ restored' = restored /\ faults' = faults /\ overdue' = overdue
    BY <1>2 DEF vars, bounds
  <2>2. TypeOK' /\ Places' BY <2>1 DEF Inv, TypeOK, Places
  <2>3. Fits' BY <2>1 DEF Inv, Fits, Survivors
  <2>4. Ranked' BY <2>1 DEF Inv, Ranked, Room, Newer, Older
  <2>5. Safe' BY <2>1 DEF Inv, Safe, Reach, Upcoming, Pending, Newer, Older
  <2> QED BY <2>2, <2>3, <2>4, <2>5 DEF Inv
<1> QED BY <1>1, <1>2

LEMMA AlwaysInv == Spec => []Inv
BY InitInv, NextInv, PTL DEF Spec

-------------------------------------------------------------------------------
(* The theorems *)

\* No variable ever leaves its shape.
THEOREM TypeCorrect == Spec => []TypeOK
<1>1. Inv => TypeOK BY DEF Inv
<1> QED BY <1>1, AlwaysInv, PTL

\* Whatever prunes overlap: when the requests are done, the directory holds no
\* more than Keep backups, unless a prune failed and none has listed since.
THEOREM DirectoryStaysBounded == Spec => []Bounded
<1>1. Inv => Bounded
  <2> SUFFICES ASSUME Inv, ~overdue, \A p \in Procs : pc[p] = "idle" PROVE Cardinality(files) <= Keep
    BY DEF Bounded
  <2>1. \A p \in Procs : victims[p] = {} BY DEF Inv, Places
  <2>2. Survivors = files BY <2>1 DEF Survivors
  <2> QED BY <2>2 DEF Inv, Fits
<1> QED BY <1>1, AlwaysInv, PTL

\* The backup that a failed restore falls back on is there when it needs it.
THEOREM SafetyBackupKept == Spec => []SafetyKept
<1>1. Inv => SafetyKept
  <2> SUFFICES ASSUME Inv, NEW r \in Restorers,
                      pc[r] \in {"rebuild", "binding", "recover"}, beside < Reach(r)
               PROVE  target[r] \in files
    BY DEF SafetyKept
  <2>1. lock = r BY DEF Inv, Places, Held
  <2>2. r # NULL BY ProcsAssumption DEF Procs
  <2> QED BY <2>1, <2>2 DEF Inv, Safe, Published, Held
<1> QED BY <1>1, AlwaysInv, PTL

\* However prunes overlap, each deletes only what has Keep newer names.
THEOREM PrunesOnlyExcess == Spec => OnlyExcessPruned
<1> DEFINE Kept == \A n \in files \ files' :
              Cardinality({k \in files' : Older(n, k)}) >= IF restored = 0 THEN Keep ELSE Keep - 1
<1>1. Inv /\ [Next]_vars => [Kept]_vars
  <2> SUFFICES ASSUME Inv, Next PROVE Kept BY DEF vars
  <2>1. ASSUME NEW p \in Procs, Unlink(p) PROVE Kept
    <3>1. PICK k \in victims[p] : files' = files \ {k} BY <2>1 DEF Unlink
    <3>2. k \in Name BY DEF Inv, TypeOK
    <3>3. {j \in files' : Older(k, j)} = Newer(k, files)
      BY <3>1, <3>2, OlderIsStrict DEF Newer
    <3>4. Cardinality(Newer(k, files)) >= Room BY DEF Inv, Ranked
    <3> QED BY <3>1, <3>3, <3>4 DEF Room
  <2>2. ASSUME NEW p \in Procs, Publish(p) \/ List(p) PROVE files \subseteq files'
    BY <2>2 DEF Publish, List
  <2>3. files \subseteq files' => Kept OBVIOUS
  <2>4. ASSUME NEW p \in Procs, PruneFails(p) PROVE files \subseteq files' BY <2>4 DEF PruneFails
  <2> QED BY <2>1, <2>2, <2>3, <2>4, StepKinds DEF Inv
<1> QED BY <1>1, AlwaysInv, PTL DEF Spec, OnlyExcessPruned

===============================================================================
