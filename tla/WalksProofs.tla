---------------------------- MODULE WalksProofs -----------------------------
(***************************************************************************)
(* Proofs about two of the components of MCWalks.tla: about                *)
(* ExhaustiveDependencies.tla, for any number of variables, uses,          *)
(* dependencies and passes, and, as an instance, EventsCallbacks.tla, for  *)
(* any number of variables and files of any size.                          *)
(***************************************************************************)
EXTENDS ExhaustiveDependencies, SentEvents, FiniteSetTheorems, SequenceTheorems, WellFoundedInduction,
        TLAPS

(* A use follows a path of properties.                                     *)
UsesAssumption == \A use \in Uses : use.path \in Seq(STRING)

(* A list is settled when its own lint asks for no other.                  *)
IInv ==
  /\ closure \in Seq(Uses)
  /\ settled => \A r \in Found : r.fix = dependencies

LEMMA InitIInv == Init => IInv
<1> SUFFICES ASSUME Init PROVE IInv
  OBVIOUS
<1>1. PICK m \in 0 .. MaxUses : closure \in [1 .. m -> Uses]
  BY DEF Init, BoundedSeq, SeqOf
<1>2. closure \in Seq(Uses)
  BY <1>1
<1> QED
  BY <1>2 DEF Init, IInv

(* What the rule finds depends on the hook and on the list alone.          *)
LEMMA FoundKept ==
  ASSUME UNCHANGED <<hook, dependencies>>
  PROVE  Found' = Found
<1>1. Captures' = Captures
  BY DEF Captures, Capturable, hook
<1>2. Required' = Required /\ (\A c : Stable(c)' = Stable(c))
  BY <1>1 DEF Required, Stable, hook
<1>3. Missing' = Missing
  BY <1>2 DEF Missing, Covers, hook
<1>4. \A d : Unnecessary(d)' = Unnecessary(d)
  BY <1>1, <1>2 DEF Unnecessary, hook
<1>5. \A d : UnstableDependency(d)' = UnstableDependency(d)
  BY <1>2 DEF UnstableDependency, hook
<1>6. Removals' = Removals
  BY <1>4 DEF Removals
<1>7. Additions' = Additions
  BY <1>3 DEF Additions
<1>8. Unstables' = Unstables
  BY <1>5 DEF Unstables
<1>9. NewArray' = NewArray
  BY <1>2 DEF NewArray
<1> QED
  BY <1>6, <1>7, <1>8, <1>9 DEF Found, hook

LEMMA NextIInv == IInv /\ [Next]_vars => IInv'
<1> SUFFICES ASSUME IInv, [Next]_vars PROVE IInv'
  OBVIOUS
<1>1. CASE Lint
  BY <1>1, FoundKept DEF Lint, IInv, hook
<1>2. CASE Fix
  BY <1>2 DEF Fix, hook, IInv
<1>3. CASE UNCHANGED vars
  BY <1>3, FoundKept DEF vars, hook, IInv
<1> QED
  BY <1>1, <1>2, <1>3 DEF Next

-----------------------------------------------------------------------------
(* Every captured name has a first use, which stands for it.               *)
LEMMA FirstUse ==
  ASSUME IInv, NEW i \in DOMAIN closure, Capturable(closure[i])
  PROVE  \E c \in Captures : c.root = closure[i].root
<1> DEFINE T == {k \in DOMAIN closure : Capturable(closure[k]) /\ closure[k].root = closure[i].root}
<1>1. T \subseteq Nat /\ T # {}
  BY DEF IInv
<1> DEFINE below == OpToRel(<, Nat)
<1>2. IsWellFoundedOn(below, Nat)
  BY NatLessThanWellFounded
<1>3. \A j, k \in Nat : j < k => <<j, k>> \in below
  BY DEF OpToRel
<1> HIDE DEF below, T
<1>4. PICK k \in T : \A j \in T : ~ (<<j, k>> \in below)
  <2>1. \E k \in T : \A j \in T : ~ (<<j, k>> \in below)
    BY ONLY <1>1, <1>2, WFMin, Zenon
  <2> QED
    BY <2>1
<1>5. \A j \in 1 .. k - 1 : j \notin T
  <2>1. k \in Nat /\ \A j \in 1 .. k - 1 : j \in Nat /\ j < k
    BY <1>1, <1>4
  <2> QED
    BY <1>3, <1>4, <2>1
<1> USE DEF T
<1>6. \A j \in 1 .. k - 1 : Capturable(closure[j]) => closure[j].root # closure[k].root
  BY <1>1, <1>4, <1>5 DEF IInv
<1> DEFINE c == [root |-> closure[k].root, path |-> UsedPath(closure[k]), forced |-> closure[k].forced]
<1>7. c \in Captures
  BY <1>4, <1>6 DEF Captures
<1> QED
  BY <1>4, <1>7

(* A capture comes from a use, and its path is one.                        *)
LEMMA CaptureIsUse ==
  ASSUME UsesAssumption, IInv, NEW c \in Captures
  PROVE  /\ \E k \in DOMAIN closure : Capturable(closure[k]) /\ c.root = closure[k].root
         /\ Depth(c) \in Nat
<1>1. PICK k \in DOMAIN closure :
        Capturable(closure[k]) /\ c.root = closure[k].root /\ c.path = UsedPath(closure[k])
  BY DEF Captures
<1>2. closure[k].path \in Seq(STRING)
  BY DEF IInv, UsesAssumption
<1>3. UsedPath(closure[k]) \in Seq(STRING)
  <2>1. CASE UsedPath(closure[k]) = closure[k].path
    BY <1>2, <2>1
  <2>2. CASE UsedPath(closure[k]) = Front(closure[k].path) /\ closure[k].path # <<>>
    BY <1>2, <2>2 DEF Front
  <2> QED
    BY <2>1, <2>2 DEF UsedPath
<1> QED
  BY <1>1, <1>3 DEF Depth

(* In a settled list nothing is missing and nothing is unnecessary: a fix  *)
(* would change it.                                                        *)
LEMMA SettledIsQuiet ==
  ASSUME UsesAssumption, IInv, settled, resolved, dependencies \notin {Absent, Opaque}
  PROVE  Missing = {} /\ \A d \in dependencies : ~ Unnecessary(d)
<1>1. \A r \in Removals \cup Additions : r.fix = dependencies
  BY DEF IInv, Found
<1>2. ASSUME NEW d \in dependencies, Unnecessary(d)
      PROVE  FALSE
  <2>1. Report("unnecessaryDependency", {d}, dependencies \ {d}) \in Removals
    BY <1>2 DEF Removals
  <2> QED
    BY <1>1, <2>1 DEF Report
<1>3. ASSUME NEW c \in Missing
      PROVE  FALSE
  <2>1. Entry(c) \in dependencies
    <3>1. Report("missingDependencies", {Entry(x) : x \in Missing},
                 dependencies \cup {Entry(x) : x \in Missing}) \in Additions
      BY DEF Additions
    <3> QED
      BY <1>1, <3>1 DEF Report
  <2>2. c \in Captures
    BY DEF Missing, Required
  <2>3. Covers(Entry(c), c)
    BY <2>2, CaptureIsUse DEF Covers, SameRoot, Entry, Depth
  <2> QED
    BY <2>1, <2>3 DEF Missing
<1> QED
  BY <1>2, <1>3

LEMMA IInvSettled ==
  ASSUME UsesAssumption, IInv
  PROVE  SettledNamesAll
<1> SUFFICES ASSUME settled, resolved, dependencies \notin {Absent, Opaque}
             PROVE  /\ \A i \in DOMAIN closure : Needed(closure[i]) =>
                         \E d \in dependencies : closure[i].root \in d.roots
                    /\ options.unnecessary =>
                         \A d \in dependencies : \E i \in DOMAIN closure :
                           d.roots = {closure[i].root} /\ Capturable(closure[i])
  BY DEF SettledNamesAll, Capturable
<1>1. ASSUME NEW i \in DOMAIN closure, Needed(closure[i])
      PROVE  \E d \in dependencies : closure[i].root \in d.roots
  <2>1. Capturable(closure[i])
    BY <1>1 DEF Needed, Capturable
  <2>2. PICK c \in Captures : c.root = closure[i].root
    BY <2>1, FirstUse
  <2>3. c \in Required
    BY <1>1, <2>2 DEF Needed, Required, Stable
  <2>4. PICK d \in dependencies : Covers(d, c)
    BY <2>3, SettledIsQuiet DEF Missing
  <2> QED
    BY <2>2, <2>4 DEF Covers, SameRoot
<1>2. ASSUME options.unnecessary, NEW d \in dependencies
      PROVE  \E i \in DOMAIN closure : d.roots = {closure[i].root} /\ Capturable(closure[i])
  <2>1. PICK c \in Captures : SameRoot(d, c)
    BY <1>2, SettledIsQuiet DEF Unnecessary
  <2> QED
    BY <2>1, CaptureIsUse DEF SameRoot
<1> QED
  BY <1>1, <1>2

(* Whatever a closure uses and whatever its list holds: when the fixes of  *)
(* use-exhaustive-dependencies have settled, the list names every variable *)
(* the closure depends on and, unless the options let it, nothing else.    *)
THEOREM SettledLists ==
  ASSUME UsesAssumption
  PROVE  Spec => []SettledNamesAll
<1>1. Init => IInv
  BY InitIInv
<1>2. IInv /\ [Next]_vars => IInv'
  BY NextIInv
<1>3. IInv => SettledNamesAll
  BY IInvSettled
<1> QED
  BY <1>1, <1>2, <1>3, PTL DEF Spec

-----------------------------------------------------------------------------
(* How much there is left to fix: a removal may uncover what the removed   *)
(* dependency covered, so it counts double.                                *)
Useless == {d \in dependencies : Unnecessary(d)}
Left ==
  IF ~ resolved \/ dependencies = Opaque THEN 0
  ELSE IF dependencies = Absent THEN 1
  ELSE 2 * Cardinality(Useless) + (IF Missing = {} THEN 0 ELSE 1)

(* The first use of a name is one use.                                     *)
LEMMA OneCapture ==
  ASSUME IInv, NEW b \in Captures, NEW c \in Captures, b.root = c.root
  PROVE  b = c
<1> DEFINE First(k) == /\ Capturable(closure[k])
                       /\ \A j \in 1 .. k - 1 : Capturable(closure[j]) => closure[j].root # closure[k].root
           C(k) == [root |-> closure[k].root, path |-> UsedPath(closure[k]), forced |-> closure[k].forced]
<1>1. PICK i \in DOMAIN closure : First(i) /\ b = C(i)
  BY DEF Captures
<1>2. PICK k \in DOMAIN closure : First(k) /\ c = C(k)
  BY DEF Captures
<1>3. closure[i].root = closure[k].root
  BY <1>1, <1>2
<1>4. i \in Nat /\ k \in Nat /\ i >= 1 /\ k >= 1
  BY DEF IInv
<1>5. ~ (i < k) /\ ~ (k < i)
  <2>1. i < k => i \in 1 .. k - 1
    BY <1>4
  <2>2. k < i => k \in 1 .. i - 1
    BY <1>4
  <2> QED
    BY <1>1, <1>2, <1>3, <2>1, <2>2
<1> HIDE DEF First, C
<1> QED
  BY <1>1, <1>2, <1>4, <1>5

(* What a fix adds covers its capture and is not found unnecessary.        *)
LEMMA EntryIsRight ==
  ASSUME UsesAssumption, IInv, NEW c \in Required
  PROVE  Covers(Entry(c), c) /\ ~ Unnecessary(Entry(c)) /\ Entry(c).roots # {}
<1>1. c \in Captures /\ ~ Stable(c) /\ Depth(c) \in Nat
  BY CaptureIsUse DEF Required
<1>2. SameRoot(Entry(c), c) /\ Depth(Entry(c)) = Depth(c)
  BY DEF SameRoot, Entry, Depth
<1>3. Covers(Entry(c), c)
  BY <1>1, <1>2 DEF Covers
<1>4. ASSUME NEW b \in Captures, SameRoot(Entry(c), b)
      PROVE  b = c
  <2>1. b.root = c.root
    BY <1>4 DEF SameRoot, Entry
  <2> QED
    BY <1>1, <2>1, OneCapture
<1>5. ~ Deeper(Entry(c), c)
  BY <1>1, <1>2 DEF Deeper
<1>6. ~ Unnecessary(Entry(c))
  BY <1>1, <1>2, <1>4, <1>5 DEF Unnecessary
<1> QED
  BY <1>3, <1>6 DEF Entry

(* Only what depends on the list changes when the list is fixed.           *)
LEMMA HookKept ==
  ASSUME UNCHANGED hook
  PROVE  /\ Required' = Required
         /\ \A d : Unnecessary(d)' = Unnecessary(d)
         /\ \A d, c : Covers(d, c)' = Covers(d, c)
<1>1. Captures' = Captures
  BY DEF Captures, Capturable, hook
<1>2. Required' = Required /\ (\A c : Stable(c)' = Stable(c))
  BY <1>1 DEF Required, Stable, hook
<1> QED
  BY <1>1, <1>2 DEF Unnecessary, Covers, hook

(* The measure is a number.                                               *)
LEMMA LeftType ==
  ASSUME IsFiniteSet(Useless)
  PROVE  Left \in Nat
<1>1. Cardinality(Useless) \in Nat
  BY FS_CardinalityType
<1> QED
  BY <1>1 DEF Left

(* A report with a fix is about something left.                            *)
LEMMA SomethingLeft ==
  ASSUME IsFiniteSet(Useless), NEW r \in Found, r.fix # dependencies
  PROVE  Left >= 1
<1>1. Cardinality(Useless) \in Nat
  BY FS_CardinalityType
<1>2. resolved /\ dependencies # Opaque
  BY DEF Found
<1>3. CASE dependencies = Absent
  BY <1>2, <1>3 DEF Left
<1>4. CASE dependencies # Absent
  <2>1. r \in Removals \cup Additions
    BY <1>2, <1>4 DEF Found, Unstables, Report
  <2>2. Useless # {} \/ Missing # {}
    BY <2>1 DEF Removals, Additions, Useless
  <2>3. Useless # {} => Cardinality(Useless) # 0
    BY FS_EmptySet
  <2> QED
    BY <1>1, <1>2, <1>4, <2>2, <2>3 DEF Left
<1> QED
  BY <1>3, <1>4

(* Every fix leaves less, whichever is applied.                            *)
LEMMA FixLessens ==
  ASSUME UsesAssumption, IInv, IsFiniteSet(Useless), UNCHANGED hook,
         NEW r \in Found, r.fix # dependencies, dependencies' = r.fix
  PROVE  IsFiniteSet(Useless)' /\ Left' < Left
<1>1. Cardinality(Useless) \in Nat /\ Left \in Nat
  BY FS_CardinalityType, LeftType
<1>2. resolved /\ resolved' /\ dependencies # Opaque
  BY DEF Found, hook
<1>3. /\ Useless' = {d \in dependencies' : Unnecessary(d)}
      /\ Missing' = {c \in Required : \A d \in dependencies' : ~ Covers(d, c)}
  BY HookKept DEF Useless, Missing
<1>4. Left' = IF dependencies' = Opaque THEN 0
              ELSE IF dependencies' = Absent THEN 1
              ELSE 2 * Cardinality(Useless') + (IF Missing' = {} THEN 0 ELSE 1)
  BY <1>2 DEF Left, Opaque, Absent
<1>5. ASSUME NEW c \in Required, Entry(c) \in dependencies'
      PROVE  dependencies' # Opaque /\ dependencies' # Absent
  BY <1>5, EntryIsRight DEF Opaque, Absent
<1>6. CASE dependencies = Absent
  <2>1. Required # {} /\ dependencies' = {Entry(c) : c \in Required}
    BY <1>2, <1>6 DEF Found, NewArray, Report
  <2>2. Useless' = {} /\ Missing' = {}
    BY <1>3, <2>1, EntryIsRight
  <2>3. Left' = 0
    BY <1>4, <1>5, <2>1, <2>2, FS_EmptySet
  <2>4. Left = 1
    BY <1>2, <1>6 DEF Left
  <2> QED
    BY <2>2, <2>3, <2>4, FS_EmptySet
<1>7. CASE dependencies # Absent /\ r \in Removals
  <2>1. PICK d \in Useless : dependencies' = dependencies \ {d}
    BY <1>7 DEF Removals, Report, Useless
  <2>2. Useless' = Useless \ {d}
    BY <1>3, <2>1 DEF Useless
  <2>3. IsFiniteSet(Useless') /\ Cardinality(Useless') = Cardinality(Useless) - 1
    BY <2>1, <2>2, FS_RemoveElement
  <2>4. Cardinality(Useless') \in Nat
    BY <2>3, FS_CardinalityType
  <2>5. Left = 2 * Cardinality(Useless) + (IF Missing = {} THEN 0 ELSE 1)
    BY <1>2, <1>7 DEF Left
  <2>6. Left' \in Nat /\ Left' <= 2 * Cardinality(Useless') + 1
    BY <1>4, <2>4
  <2>7. \A k, l, m, n \in Nat :
          k <= 2 * m + 1 /\ m = n - 1 /\ l = 2 * n + (IF Missing = {} THEN 0 ELSE 1) => k < l
    OBVIOUS
  <2>8. Left' < Left
    BY <1>1, <2>3, <2>4, <2>5, <2>6, <2>7
  <2> QED
    BY <2>3, <2>8
<1>8. CASE dependencies # Absent /\ r \in Additions
  <2>1. Missing # {} /\ dependencies' = dependencies \cup {Entry(c) : c \in Missing}
    BY <1>8 DEF Additions, Report
  <2>2. Missing \subseteq Required
    BY DEF Missing
  <2>3. Useless' = Useless
    BY <1>3, <2>1, <2>2, EntryIsRight DEF Useless
  <2>4. Missing' = {}
    BY <1>3, <2>1, <2>2, EntryIsRight DEF Missing
  <2>5. Left' = 2 * Cardinality(Useless)
    BY <1>1, <1>4, <1>5, <2>1, <2>2, <2>3, <2>4
  <2>6. Left = 2 * Cardinality(Useless) + 1
    BY <1>2, <1>8, <2>1 DEF Left
  <2> QED
    BY <1>1, <2>3, <2>5, <2>6
<1>9. r \notin Unstables
  BY DEF Unstables, Report
<1> QED
  BY <1>2, <1>6, <1>7, <1>8, <1>9 DEF Found

(* Until the list is settled, a lint and a fix together lessen what is     *)
(* left: passes and what is left never exceed what there was at first.     *)
Bound == 2 * MaxEntries + 1
FixingInv ==
  /\ IInv
  /\ IsFiniteSet(Useless) /\ passes \in Nat
  /\ reports \in {{}, Found}
  /\ ~ settled =>
       IF reports = {} THEN passes + Left <= Bound
       ELSE passes + Left <= Bound + 1 /\ \E r \in reports : r.fix # dependencies

LEMMA InitFixing ==
  ASSUME MaxEntries \in Nat, IsFiniteSet(Entries), Init
  PROVE  FixingInv
<1>1. IsFiniteSet(dependencies) /\ (dependencies # Absent /\ dependencies # Opaque => Cardinality(dependencies) <= MaxEntries)
  <2>1. CASE dependencies \in {Absent, Opaque}
    BY <2>1, FS_Singleton DEF Absent, Opaque
  <2>2. CASE dependencies \notin {Absent, Opaque}
    <3>1. PICK n \in 0 .. MaxEntries : dependencies \in SUBSET Entries /\ Cardinality(dependencies) = n
      BY <2>2 DEF Init, kSubset
    <3> QED
      BY <3>1, FS_Subset
  <2> QED
    BY <2>1, <2>2
<1>2. /\ IsFiniteSet(Useless) /\ Cardinality(Useless) \in Nat /\ Cardinality(dependencies) \in Nat
      /\ Cardinality(Useless) <= Cardinality(dependencies)
  BY <1>1, FS_Subset, FS_CardinalityType DEF Useless
<1>3. Left <= Bound
  BY <1>1, <1>2 DEF Left, Bound
<1> QED
  BY <1>2, <1>3, InitIInv, LeftType DEF FixingInv, Init

LEMMA NextFixing ==
  ASSUME UsesAssumption, MaxEntries \in Nat, FixingInv, [Next]_vars
  PROVE  FixingInv'
<1>0. IInv' /\ Left \in Nat /\ Bound \in Nat
  BY NextIInv, LeftType DEF FixingInv, Bound
<1>1. CASE Lint
  <2>1. UNCHANGED <<hook, dependencies>>
    BY <1>1 DEF Lint
  <2>2. Found' = Found
    BY <2>1, FoundKept
  <2>3. Useless' = Useless /\ Missing' = Missing
    BY <2>1, HookKept DEF Useless, Missing
  <2>4. Left' = Left
    BY <2>1, <2>3 DEF Left, hook, Opaque, Absent
  <2>5. reports' = Found /\ passes' = passes + 1 /\ reports = {} /\ ~ settled
        /\ settled' = \A r \in Found : r.fix = dependencies
    BY <1>1 DEF Lint
  <2>6. passes + Left <= Bound
    BY <2>5 DEF FixingInv
  <2>7. ~ settled' => \E r \in reports' : r.fix # dependencies'
    BY <2>1, <2>5
  <2>8. passes' + Left' <= Bound + 1 /\ passes' \in Nat
    BY <1>0, <2>4, <2>5, <2>6 DEF FixingInv
  <2> QED
    BY <1>0, <2>2, <2>3, <2>5, <2>7, <2>8 DEF FixingInv, Bound
<1>2. CASE Fix
  <2>1. PICK r \in reports : r.fix # dependencies /\ dependencies' = r.fix
    BY <1>2 DEF Fix
  <2>2. UNCHANGED hook /\ reports' = {} /\ passes' = passes /\ settled' = settled /\ ~ settled
    BY <1>2 DEF Fix
  <2>3. r \in Found /\ reports # {}
    BY <2>1 DEF FixingInv
  <2>4. IsFiniteSet(Useless)' /\ Left' < Left
    BY <2>1, <2>2, <2>3, FixLessens DEF FixingInv
  <2>5. Left' \in Nat
    <3>1. IsFiniteSet(Useless)' => Cardinality(Useless)' \in Nat
      BY FS_CardinalityType
    <3> QED
      BY <2>4, <3>1 DEF Left
  <2>6. passes + Left <= Bound + 1 /\ passes \in Nat
    BY <2>2, <2>3 DEF FixingInv
  <2>7. \A k, l, m, n \in Nat : n + l <= m + 1 /\ k < l => n + k <= m
    OBVIOUS
  <2>8. passes' + Left' <= Bound
    BY <1>0, <2>2, <2>4, <2>5, <2>6, <2>7
  <2> QED
    BY <1>0, <2>2, <2>4, <2>6, <2>8 DEF FixingInv, Bound
<1>3. CASE UNCHANGED vars
  <2>1. UNCHANGED <<hook, dependencies>> /\ UNCHANGED <<passes, reports, settled>>
    BY <1>3 DEF vars, hook
  <2>2. Found' = Found
    BY <2>1, FoundKept
  <2>3. Useless' = Useless /\ Missing' = Missing
    BY <2>1, HookKept DEF Useless, Missing
  <2>4. Left' = Left
    BY <2>1, <2>3 DEF Left, hook, Opaque, Absent
  <2> QED
    BY <1>0, <2>1, <2>2, <2>3, <2>4 DEF FixingInv, Bound
<1> QED
  BY <1>1, <1>2, <1>3 DEF Next

(* However the fixes of use-exhaustive-dependencies are chosen, fixing     *)
(* comes to an end: two passes for each dependency written, and two more.  *)
THEOREM FixingEnds ==
  ASSUME UsesAssumption, MaxEntries \in Nat, IsFiniteSet(Entries),
         MaxPasses \in Nat, MaxPasses >= 2 * MaxEntries + 2
  PROVE  Spec => []FixesSettle
<1>1. Init => FixingInv
  BY InitFixing
<1>2. FixingInv /\ [Next]_vars => FixingInv'
  BY NextFixing
<1>3. FixingInv => FixesSettle
  <2> SUFFICES ASSUME FixingInv, passes = MaxPasses, ~ settled
               PROVE  FALSE
    BY DEF FixesSettle
  <2>1. Left \in Nat
    BY LeftType DEF FixingInv
  <2>2. reports # {} => Left >= 1
    BY SomethingLeft DEF FixingInv
  <2>3. passes + Left <= Bound + (IF reports = {} THEN 0 ELSE 1)
    BY DEF FixingInv, Bound
  <2> QED
    BY <2>1, <2>2, <2>3 DEF Bound
<1> QED
  BY <1>1, <1>2, <1>3, PTL DEF Spec
-----------------------------------------------------------------------------
(* The rule no-events-in-events-callback, EventsCallbacks.tla.             *)

CONSTANT MaxSize                                         \* of EventsCallbacks
VARIABLE size
Events == INSTANCE EventsCallbacks

(* Executions and the values their variables may have: as long as nothing  *)
(* deep has happened, no container is in a container.                      *)
Holdings == [Locals -> SUBSET Events!Values]
Fits(E, H, D) ==
  /\ E \in SUBSET [Locals -> Events!Values] /\ E # {} /\ H \in Holdings /\ D \in BOOLEAN
  /\ \A env \in E, n \in Locals : env[n] \in H[n]
  /\ D \/ \A n \in Locals : "nest" \notin H[n]
Grows(H, D, I, F) == (\A n \in Locals : H[n] \subseteq I[n]) /\ (D => F)

EventNodes ==
  [kind : {"if", "function", "callback"}, early : BOOLEAN, envs : SUBSET [Locals -> Events!Values],
   held : Holdings, deep : BOOLEAN]
States == [values : SUBSET Locals, containers : SUBSET Locals, undefined : BOOLEAN]
EventFunctions == [callbackDepth : Nat, callbackState : States]

EventsTyped ==
  /\ eventPath \in Seq(EventNodes) /\ functionStack \in Seq(EventFunctions) /\ trackedEvents \in BOOLEAN
  /\ Fits(envs, held, deep)
  /\ \A i \in 1..Len(eventPath) :
       Fits(eventPath[i].envs, eventPath[i].held, eventPath[i].deep) /\ (eventPath[i].early => trackedEvents)

(* Since an if or a function was entered, values have only been added; the *)
(* variables of a callback are its own.                                    *)
Lasting ==
  \A i \in 1..Len(eventPath) :
    eventPath[i].kind # "callback" =>
      IF i = Len(eventPath) THEN Grows(eventPath[i].held, eventPath[i].deep, held, deep)
      ELSE Grows(eventPath[i].held, eventPath[i].deep, eventPath[i + 1].held, eventPath[i + 1].deep)

(* The functions of the stack are those that are open, place[k] is where   *)
(* the k-th begins; the rule is at work in the callbacks.                  *)
AtWork(f) == ~ f.callbackState.undefined /\ f.callbackDepth = 0
Stands(place) ==
  /\ place \in [1..Len(functionStack) -> 1..Len(eventPath)]
  /\ \A k, l \in 1..Len(functionStack) : k < l => place[k] < place[l]
  /\ \A i \in 1..Len(eventPath) : eventPath[i].kind # "if" => \E k \in 1..Len(functionStack) : place[k] = i
  /\ \A k \in 1..Len(functionStack) :
       /\ eventPath[place[k]].kind # "if"
       /\ AtWork(functionStack[k]) <=> eventPath[place[k]].kind = "callback" /\ eventPath[place[k]].early

(* What the rule knows of the variables. A name that it takes for the      *)
(* player or a container may be one; of any other name there is an         *)
(* execution in which it is none, if names do not change between the two.  *)
Mixing(H) == \E n \in Locals : "player" \in H[n] /\ H[n] \cap {"box", "mixed"} # {}
MayBe(s, H) ==
  /\ \A n \in s.values : "player" \in H[n]
  /\ \A n \in s.containers : H[n] \cap {"box", "mixed"} # {}
NeedNotBe(s, E) ==
  /\ \A n \in Locals \ s.values : \E env \in E : env[n] # "player"
  /\ \A n \in Locals \ (s.values \cup s.containers) : \E env \in E : env[n] # "box"
Knows(s, E, H, D) == D \/ (MayBe(s, H) /\ (Mixing(H) \/ NeedNotBe(s, E)))

(* That holds of the function that is walked, and held of every other one  *)
(* when the function in it was entered.                                    *)
Informed(f, E, H, D) == AtWork(f) => Knows(f.callbackState, E, H, D)
Knowing(place) ==
  /\ functionStack # <<>> => Informed(functionStack[Len(functionStack)], envs, held, deep)
  /\ \A k \in 2..Len(functionStack) :
       Informed(functionStack[k - 1], eventPath[place[k]].envs, eventPath[place[k]].held, eventPath[place[k]].deep)

EventsInv ==
  /\ EventsTyped /\ Lasting
  /\ \E place \in [1..Len(functionStack) -> 1..Len(eventPath)] : Stands(place) /\ Knowing(place)

-----------------------------------------------------------------------------
(* Sequences: the last element.                                            *)
LEMMA FrontOfSeq ==
  ASSUME NEW S, NEW s \in Seq(S), s # <<>>
  PROVE  /\ Len(s) \in Nat \ {0} /\ s[Len(s)] \in S
         /\ Events!Front(s) \in Seq(S) /\ Len(Events!Front(s)) = Len(s) - 1
         /\ \A i \in 1..Len(s) - 1 : Events!Front(s)[i] = s[i]
<1>1. Len(s) \in Nat \ {0}
  BY EmptySeq
<1> DEFINE n == Len(s) - 1
           f == SubSeq(s, 1, n)
<1>2. n \in Nat /\ Len(s) = n + 1 /\ Len(s) \in 1..Len(s)
  BY <1>1
<1>3. Events!Front(s) = f
  BY Zenon DEF Events!Front
<1> HIDE DEF n
<1>4. s[Len(s)] \in S /\ \A i \in 1..n : s[i] \in S
  BY <1>2, ElementOfSeq
<1>5. f \in Seq(S) /\ Len(f) = (IF 1 <= n THEN n - 1 + 1 ELSE 0) /\ \A i \in 1..n - 1 + 1 : f[i] = s[1 + i - 1]
  BY <1>2, <1>4, SubSeqProperties
<1> HIDE DEF f
<1>6. Len(f) = n /\ \A i \in 1..n : f[i] = s[i]
  BY <1>2, <1>5
<1> QED BY <1>1, <1>3, <1>4, <1>5, <1>6 DEF n

LEMMA Replaced ==
  ASSUME NEW S, NEW s \in Seq(S), s # <<>>, NEW x \in S
  PROVE  LET t == Events!Front(s) \o <<x>>
         IN  /\ t \in Seq(S) /\ Len(t) = Len(s) /\ t[Len(s)] = x
             /\ \A i \in 1..Len(s) - 1 : t[i] = s[i]
<1> DEFINE f == Events!Front(s)
<1>1. Len(s) \in Nat \ {0} /\ f \in Seq(S) /\ Len(f) = Len(s) - 1 /\ \A i \in 1..Len(s) - 1 : f[i] = s[i]
  BY FrontOfSeq
<1> HIDE DEF f
<1>2. f \o <<x>> \in Seq(S) /\ Len(f \o <<x>>) = Len(s) /\ (f \o <<x>>)[Len(s)] = x
  BY <1>1
<1>3. \A i \in 1..Len(s) - 1 : (f \o <<x>>)[i] = f[i]
  BY <1>1
<1> QED BY <1>1, <1>2, <1>3 DEF f

-----------------------------------------------------------------------------
(* Values and expressions.                                                 *)
LEMMA ValuesOf ==
  /\ Events!Values = {"player", "other", "box", "mixed", "nest"}
  /\ \A v \in Events!Values : Events!Members(v) \in SUBSET {"player", "other", "box"} /\ Events!Members(v) # {}
  /\ Events!Members("player") = {"other"} /\ Events!Members("other") = {"other"}
  /\ Events!Members("box") = {"player"} /\ Events!Members("mixed") = {"player", "other"}
  /\ Events!Members("nest") = {"box"}
BY DEF Events!Values, Events!Members

LEMMA ContainedIn ==
  ASSUME NEW v \in Events!Values, NEW c \in {"box", "mixed"}
  PROVE  Events!Contained(v, c) = IF v = "other" THEN "other" ELSE IF v = "player" THEN c ELSE "nest"
BY DEF Events!Contained

(* The forms of an expression. Every execution gives it a value, one that  *)
(* it may have; each value that a name may have leads to values of the     *)
(* expression.                                                             *)
Form(e) ==
  \/ e.form = "other"
  \/ e.form \in {"name", "wrap", "mix", "member"} /\ e.of[1] \in Locals
  \/ e.form = "choice" /\ e.of[1] \in Locals /\ e.of[2] \in Locals

LEMMA Forms == \A e \in Events!Expressions : Form(e)
<1> SUFFICES ASSUME NEW e \in Events!Expressions PROVE Form(e)
  OBVIOUS
<1>1. CASE e \in [form : {"name", "wrap", "mix", "member"}, of : {<<n>> : n \in Locals}]
  BY <1>1 DEF Form
<1>2. CASE e \in {[form |-> "other", of |-> <<>>]}
  BY <1>2 DEF Form
<1>3. CASE e \in [form : {"choice"}, of : {c \in Locals \X Locals : c[1] # c[2]}]
  BY <1>3 DEF Form
<1> QED BY <1>1, <1>2, <1>3 DEF Events!Expressions

Meaning(e, env) ==
  IF e.form = "other" THEN {"other"}
  ELSE IF e.form = "wrap" THEN {Events!Contained(env[e.of[1]], "box")}
  ELSE IF e.form = "mix" THEN {Events!Contained(env[e.of[1]], "mixed")}
  ELSE IF e.form = "member" THEN Events!Members(env[e.of[1]])
  ELSE IF e.form = "name" THEN {env[e.of[1]]} ELSE {env[e.of[1]], env[e.of[2]]}

LEMMA MeansWhat ==
  ASSUME NEW e \in Events!Expressions, NEW env
  PROVE  Events!Means(e, env) = Meaning(e, env)
<1>1. CASE e \in [form : {"name", "wrap", "mix", "member"}, of : {<<n>> : n \in Locals}]
  <2>1. PICK n \in Locals : e.of = <<n>>
    BY <1>1
  <2>2. e.form \in {"name", "wrap", "mix", "member"} /\ DOMAIN e.of = {1}
    BY <1>1, <2>1
  <2>3. {env[e.of[i]] : i \in DOMAIN e.of} = {env[e.of[1]]}
    BY <2>2
  <2> QED BY <2>2, <2>3 DEF Events!Means, Meaning
<1>2. CASE e \in {[form |-> "other", of |-> <<>>]}
  BY <1>2 DEF Events!Means, Meaning
<1>3. CASE e \in [form : {"choice"}, of : {c \in Locals \X Locals : c[1] # c[2]}]
  <2>1. PICK n, m \in Locals : e.of = <<n, m>>
    BY <1>3
  <2>2. e.form = "choice" /\ DOMAIN e.of = {1, 2}
    BY <1>3, <2>1
  <2>3. {env[e.of[i]] : i \in DOMAIN e.of} = {env[e.of[1]], env[e.of[2]]}
    BY <2>2
  <2> QED BY <2>2, <2>3 DEF Events!Means, Meaning
<1> QED BY <1>1, <1>2, <1>3 DEF Events!Expressions

LEMMA MeansSomething ==
  ASSUME NEW e \in Events!Expressions, NEW env \in [Locals -> Events!Values]
  PROVE  Events!Means(e, env) \in SUBSET Events!Values /\ Events!Means(e, env) # {}
<1>1. Form(e)
  BY Forms
<1>2. \A n \in Locals : env[n] \in Events!Values
  OBVIOUS
<1>3. \A v \in Events!Values : /\ Events!Contained(v, "box") \in Events!Values
                              /\ Events!Contained(v, "mixed") \in Events!Values
  BY ContainedIn, ValuesOf
<1>4. Events!Means(e, env) = Meaning(e, env)
  BY MeansWhat
<1>5. Meaning(e, env) \in SUBSET Events!Values /\ Meaning(e, env) # {}
  <2>1. CASE e.form = "other"
    BY <2>1, ValuesOf DEF Meaning
  <2>2. CASE e.form = "choice" /\ e.of[1] \in Locals /\ e.of[2] \in Locals
    BY <1>2, <2>2 DEF Meaning
  <2>3. CASE e.form \in {"name", "wrap", "mix"} /\ e.of[1] \in Locals
    BY <1>2, <1>3, <2>3 DEF Meaning
  <2>4. CASE e.form = "member" /\ e.of[1] \in Locals
    <3>1. Meaning(e, env) = Events!Members(env[e.of[1]])
      BY <2>4 DEF Meaning
    <3> QED BY <1>2, <2>4, <3>1, ValuesOf
  <2> QED BY <1>1, <2>1, <2>2, <2>3, <2>4 DEF Form
<1> QED BY <1>4, <1>5

(* What may be: whatever the variables hold, in any combination.           *)
LEMMA MayBeMeant ==
  ASSUME NEW E, NEW H, NEW D, Fits(E, H, D), held = H, NEW e \in Events!Expressions
  PROVE  /\ Events!MayMean(e) \in SUBSET Events!Values
         /\ \A env \in E : Events!Means(e, env) \subseteq Events!MayMean(e)
         /\ \A n \in Locals, v \in Events!Values :
              v \in H[n] => \E env \in [Locals -> Events!Values] :
                              env[n] = v /\ Events!Means(e, env) \subseteq Events!MayMean(e)
<1> DEFINE All == {x \in [Locals -> Events!Values] : \A n \in Locals : x[n] \in held[n]}
<1>1. Events!MayMean(e) = UNION {Events!Means(e, env) : env \in All}
  BY DEF Events!MayMean
<1>2. \A env \in All : Events!Means(e, env) \subseteq Events!MayMean(e)
  BY <1>1
<1>3. Events!MayMean(e) \in SUBSET Events!Values
  BY <1>1, MeansSomething
<1>4. \A env \in E : env \in All
  BY DEF Fits
<1>5. ASSUME NEW n \in Locals, NEW v \in Events!Values, v \in H[n]
      PROVE  \E env \in [Locals -> Events!Values] :
               env[n] = v /\ Events!Means(e, env) \subseteq Events!MayMean(e)
  <2>1. PICK x \in E : TRUE
    BY DEF Fits
  <2> DEFINE y == [x EXCEPT ![n] = v]
  <2>2. y \in [Locals -> Events!Values] /\ y[n] = v /\ \A m \in Locals : y[m] \in held[m]
    BY <1>5, <2>1 DEF Fits
  <2>3. y \in All
    BY <2>2
  <2> HIDE DEF y, All
  <2> QED BY <1>2, <2>2, <2>3
<1> HIDE DEF All
<1> QED BY <1>2, <1>3, <1>4, <1>5
-----------------------------------------------------------------------------
(* What the rule says of an expression.                                    *)
State == Events!Current.callbackState
Kinded(n) == IF n \in State.values THEN "value" ELSE IF n \in State.containers THEN "container" ELSE "none"
Taint(e) ==
  IF e.form = "other" THEN "none"
  ELSE IF e.form = "name" THEN Kinded(e.of[1])
  ELSE IF e.form = "member" THEN (IF Kinded(e.of[1]) = "container" THEN "value" ELSE "none")
  ELSE IF e.form = "choice" THEN (IF Kinded(e.of[1]) = Kinded(e.of[2]) THEN Kinded(e.of[1]) ELSE "none")
  ELSE (IF Kinded(e.of[1]) # "none" THEN "container" ELSE "none")

LEMMA TaintIs == \A e : Form(e) => Events!ClassifyNodeTaint(e) = Taint(e)
<1>1. \A n : Events!Kind(n) = Kinded(n)
  BY DEF Events!Kind, Kinded, State
<1> QED BY <1>1 DEF Form, Taint, Events!ClassifyNodeTaint, Events!ClassifyMember, Events!ClassifyConditional,
                    Events!ClassifyContainer

LEMMA KindedIs ==
  \A n : /\ Kinded(n) \in {"value", "container", "none"}
         /\ Kinded(n) = "value" <=> n \in State.values
         /\ Kinded(n) = "container" => n \in State.containers
         /\ Kinded(n) = "none" => n \notin State.values \cup State.containers
BY DEF Kinded

LEMMA TaintKinds == \A e : Form(e) => Taint(e) \in {"value", "container", "none"}
BY KindedIs DEF Form, Taint

(* A name of the player leads to the player, one of a container to it.     *)
LEMMA Suspected ==
  ASSUME Fits(envs, held, deep), MayBe(State, held), NEW e \in Events!Expressions
  PROVE  /\ Taint(e) = "value" => "player" \in Events!MayMean(e)
         /\ Taint(e) = "container" =>
              Events!MayMean(e) \cap {"box", "mixed"} # {} \/ "nest" \in Events!MayMean(e)
<1> DEFINE May == Events!MayMean(e)
           Leads(n, v) == \E env \in [Locals -> Events!Values] : env[n] = v /\ Meaning(e, env) \subseteq May
<1>1. Form(e)
  BY Forms
<1>2. \A n \in Locals, v \in Events!Values : v \in held[n] => Leads(n, v)
  BY MayBeMeant, MeansWhat
<1> HIDE DEF May
<1>3. ASSUME NEW n \in Locals, Kinded(n) = "value"
      PROVE  Leads(n, "player")
  BY <1>2, <1>3, KindedIs, ValuesOf DEF MayBe
<1>4. ASSUME NEW n \in Locals, Kinded(n) = "container"
      PROVE  Leads(n, "box") \/ Leads(n, "mixed")
  BY <1>2, <1>4, KindedIs, ValuesOf DEF MayBe
<1>5. CASE e.form = "other"
  BY <1>5 DEF Taint
<1>6. CASE e.form = "name" /\ e.of[1] \in Locals
  BY <1>3, <1>4, <1>6 DEF Taint, Meaning, May
<1>7. CASE e.form = "choice" /\ e.of[1] \in Locals /\ e.of[2] \in Locals
  BY <1>3, <1>4, <1>7 DEF Taint, Meaning, May
<1>8. CASE e.form = "member" /\ e.of[1] \in Locals
  <2>1. SUFFICES ASSUME Taint(e) \in {"value", "container"}
                 PROVE  Taint(e) = "value" /\ "player" \in May
    BY DEF May
  <2>2. Taint(e) = "value" /\ Kinded(e.of[1]) = "container"
    BY <1>8, <2>1 DEF Taint
  <2>3. PICK v \in {"box", "mixed"} : Leads(e.of[1], v)
    BY <1>4, <1>8, <2>2
  <2>4. PICK env : env[e.of[1]] = v /\ Meaning(e, env) \subseteq May
    BY <2>3
  <2>5. Meaning(e, env) = Events!Members(v)
    BY <1>8, <2>4 DEF Meaning
  <2>6. "player" \in Events!Members(v)
    BY ValuesOf
  <2> QED BY <2>2, <2>4, <2>5, <2>6
<1>9. CASE e.form \in {"wrap", "mix"} /\ e.of[1] \in Locals
  <2>1. SUFFICES ASSUME Taint(e) \in {"value", "container"}
                 PROVE  Taint(e) = "container" /\ (May \cap {"box", "mixed"} # {} \/ "nest" \in May)
    BY DEF May
  <2>2. Taint(e) = "container" /\ Kinded(e.of[1]) # "none"
    BY <1>9, <2>1 DEF Taint
  <2>3. PICK v \in {"player", "box", "mixed"} : Leads(e.of[1], v)
    BY <1>3, <1>4, <1>9, <2>2, KindedIs
  <2>4. PICK env : env[e.of[1]] = v /\ Meaning(e, env) \subseteq May
    BY <2>3
  <2>5. PICK c \in {"box", "mixed"} : Meaning(e, env) = {Events!Contained(v, c)}
    BY <1>9, <2>4 DEF Meaning
  <2>6. Events!Contained(v, c) \in {"box", "mixed", "nest"}
    BY ContainedIn, ValuesOf
  <2> QED BY <2>2, <2>4, <2>5, <2>6
<1> QED BY <1>1, <1>5, <1>6, <1>7, <1>8, <1>9 DEF Form, May

(* What the rule does not take for the player, or for a container, is      *)
(* something else in some execution.                                       *)
LEMMA Cleared ==
  ASSUME Fits(envs, held, deep), ~ deep, ~ Mixing(held), MayBe(State, held), NeedNotBe(State, envs),
         NEW e \in Events!Expressions
  PROVE  /\ Taint(e) # "value" => \E env \in envs : \E v \in Events!Means(e, env) : v # "player"
         /\ Taint(e) = "none" => \E env \in envs : \E v \in Events!Means(e, env) : v # "box"
<1>1. Form(e)
  BY Forms
<1>2. \A env \in envs : env \in [Locals -> Events!Values] /\ \A n \in Locals : env[n] \in Events!Values \ {"nest"}
  BY DEF Fits, Holdings
<1>3. \A env \in envs : Events!Means(e, env) = Meaning(e, env)
  BY MeansWhat
<1>4. PICK some \in envs : TRUE
  BY DEF Fits
<1>5. ASSUME NEW n \in Locals, Kinded(n) # "value"
      PROVE  \E env \in envs : env[n] # "player"
  BY <1>5, KindedIs DEF NeedNotBe
<1>6. ASSUME NEW n \in Locals, Kinded(n) = "none"
      PROVE  \E env \in envs : env[n] # "box"
  BY <1>6, KindedIs DEF NeedNotBe
<1>7. ASSUME NEW n \in Locals, Kinded(n) # "container"
      PROVE  \E env \in envs : env[n] # "box"
  <2>1. CASE Kinded(n) = "value"
    <3>1. "player" \in held[n]
      BY <2>1, KindedIs DEF MayBe
    <3>2. "box" \notin held[n]
      BY <3>1 DEF Mixing
    <3> QED BY <1>4, <3>2 DEF Fits
  <2> QED BY <1>6, <1>7, <2>1, KindedIs
<1>8. CASE e.form = "other"
  BY <1>3, <1>4, <1>8 DEF Meaning
<1>9. CASE e.form = "name" /\ e.of[1] \in Locals
  BY <1>3, <1>5, <1>6, <1>9 DEF Taint, Meaning
<1>10. CASE e.form = "choice" /\ e.of[1] \in Locals /\ e.of[2] \in Locals
  <2> DEFINE a == e.of[1]
             b == e.of[2]
  <2>1. \A env \in envs : env[a] \in Events!Means(e, env) /\ env[b] \in Events!Means(e, env)
    BY <1>3, <1>10 DEF Meaning
  <2>2. Taint(e) = IF Kinded(a) = Kinded(b) THEN Kinded(a) ELSE "none"
    BY <1>10 DEF Taint
  <2>3. Taint(e) # "value" => Kinded(a) # "value" \/ Kinded(b) # "value"
    BY <2>2
  <2>4. Taint(e) = "none" => Kinded(a) # "container" \/ Kinded(b) # "container"
    BY <2>2
  <2> QED BY <1>5, <1>7, <1>10, <2>1, <2>3, <2>4
<1>11. CASE e.form = "member" /\ e.of[1] \in Locals
  <2>1. \A env \in envs : Events!Means(e, env) = Events!Members(env[e.of[1]])
    BY <1>3, <1>11 DEF Meaning
  <2>2. Taint(e) # "value" => Kinded(e.of[1]) # "container"
    BY <1>11 DEF Taint
  <2>3. Taint(e) # "value" => \E env \in envs : env[e.of[1]] # "box"
    BY <1>7, <1>11, <2>2
  <2>4. \A v \in Events!Values \ {"nest", "box"} : \E w \in Events!Members(v) : w # "player" /\ w # "box"
    BY ValuesOf
  <2> QED BY <1>2, <1>11, <2>1, <2>3, <2>4
<1>12. CASE e.form \in {"wrap", "mix"} /\ e.of[1] \in Locals
  <2>1. PICK c \in {"box", "mixed"} : \A env \in envs : Events!Means(e, env) = {Events!Contained(env[e.of[1]], c)}
    BY <1>3, <1>12 DEF Meaning
  <2>2. \A v \in Events!Values : Events!Contained(v, c) # "player"
    BY ContainedIn, ValuesOf
  <2>3. \A v \in Events!Values \ {"player"} : Events!Contained(v, c) # "box"
    BY ContainedIn, ValuesOf
  <2>4. Taint(e) = "none" => Kinded(e.of[1]) = "none"
    BY <1>12 DEF Taint
  <2>5. Taint(e) = "none" => \E env \in envs : env[e.of[1]] # "player"
    BY <1>5, <1>12, <2>4
  <2> QED BY <1>2, <1>4, <1>12, <2>1, <2>2, <2>3, <2>5
<1> QED BY <1>1, <1>8, <1>9, <1>10, <1>11, <1>12 DEF Form
-----------------------------------------------------------------------------
(* An assignment.                                                          *)
LEMMA BoundValues ==
  ASSUME NEW pattern \in BOOLEAN, NEW vs \in SUBSET Events!Values
  PROVE  /\ Events!Bound(pattern, vs) \in SUBSET Events!Values
         /\ vs # {} => Events!Bound(pattern, vs) # {}
         /\ ~ pattern => Events!Bound(pattern, vs) = vs
         /\ pattern => \A v \in vs : Events!Members(v) \subseteq Events!Bound(pattern, vs)
         /\ \A ws \in SUBSET vs : Events!Bound(pattern, ws) \subseteq Events!Bound(pattern, vs)
         /\ pattern => "nest" \notin Events!Bound(pattern, vs)
<1>1. \A v \in vs : Events!Members(v) \in SUBSET {"player", "other", "box"} /\ Events!Members(v) # {}
  BY ValuesOf
<1>2. CASE pattern
  <2>1. \A ws : Events!Bound(pattern, ws) = UNION {Events!Members(v) : v \in ws}
    BY <1>2 DEF Events!Bound
  <2>2. {"player", "other", "box"} \subseteq Events!Values
    BY ValuesOf
  <2>3. ASSUME NEW ws, ws \in SUBSET vs, NEW w \in Events!Bound(pattern, ws)
        PROVE  /\ w \in {"player", "other", "box"}
               /\ w \in Events!Bound(pattern, vs)
    BY <1>1, <2>1, <2>3
  <2>4. \A v \in vs : Events!Members(v) \subseteq Events!Bound(pattern, vs)
    BY <2>1
  <2>5. vs # {} => Events!Bound(pattern, vs) # {}
    BY <1>1, <2>4
  <2>6. \A ws \in SUBSET vs :
          /\ Events!Bound(pattern, ws) \subseteq {"player", "other", "box"}
          /\ Events!Bound(pattern, ws) \subseteq Events!Bound(pattern, vs)
    BY <2>3
  <2>7. Events!Bound(pattern, vs) \subseteq {"player", "other", "box"}
    BY <2>6
  <2> QED BY <1>2, <2>2, <2>4, <2>5, <2>6, <2>7
<1>3. CASE ~ pattern
  BY <1>3 DEF Events!Bound
<1> QED BY <1>2, <1>3

(* What an execution may be after it, and that none is lost.               *)
AfterIt(n, pattern, kept, e, env) ==
  Events!Bound(pattern, Events!Means(e, env)) \cup {x \in {env[n]} : kept}

Assigns(n, pattern, kept, e) ==
  /\ envs' \in SUBSET [Locals -> Events!Values] /\ envs' # {}
  /\ \A env \in envs : \A v \in AfterIt(n, pattern, kept, e, env) : [env EXCEPT ![n] = v] \in envs'
  /\ \A x \in envs' : \E env \in envs : \E v \in AfterIt(n, pattern, kept, e, env) : x = [env EXCEPT ![n] = v]
  /\ \A env \in envs : Events!Bound(pattern, Events!Means(e, env)) # {}
  /\ \A env \in envs : \A v \in AfterIt(n, pattern, kept, e, env) : v \in Events!Values /\ v \in held'[n]
  /\ held' \in Holdings
  /\ \A m \in Locals :
       held'[m] = IF m = n THEN held[n] \cup Events!Bound(pattern, Events!MayMean(e)) ELSE held[m]

LEMMA BindIs ==
  ASSUME Fits(envs, held, deep), NEW n \in Locals, NEW pattern \in BOOLEAN, NEW kept \in BOOLEAN,
         NEW e \in Events!Expressions, Events!Bind(n, pattern, kept, e)
  PROVE  Assigns(n, pattern, kept, e)
<1>1. envs \in SUBSET [Locals -> Events!Values] /\ envs # {} /\ held \in Holdings
  BY DEF Fits
<1>2. \A env \in envs : Events!Means(e, env) \in SUBSET Events!Values /\ Events!Means(e, env) # {}
  BY <1>1, MeansSomething
<1>3. /\ Events!MayMean(e) \in SUBSET Events!Values
      /\ \A env \in envs : Events!Means(e, env) \subseteq Events!MayMean(e)
  BY MayBeMeant
<1>4. \A env \in envs :
        /\ Events!Bound(pattern, Events!Means(e, env)) \in SUBSET Events!Values
        /\ Events!Bound(pattern, Events!Means(e, env)) # {}
        /\ Events!Bound(pattern, Events!Means(e, env)) \subseteq Events!Bound(pattern, Events!MayMean(e))
  BY <1>2, <1>3, BoundValues
<1>5. Events!Bound(pattern, Events!MayMean(e)) \in SUBSET Events!Values
  BY <1>3, BoundValues
<1>6. /\ held' = [held EXCEPT ![n] = @ \cup Events!Bound(pattern, Events!MayMean(e))]
      /\ envs' = UNION {{[env EXCEPT ![n] = v] : v \in AfterIt(n, pattern, kept, e, env)} : env \in envs}
  BY DEF Events!Bind, AfterIt
<1>7. /\ held' \in Holdings
      /\ \A m \in Locals : held'[m] = IF m = n THEN held[n] \cup Events!Bound(pattern, Events!MayMean(e)) ELSE held[m]
  BY <1>1, <1>5, <1>6 DEF Holdings
<1>8. \A env \in envs : \A v \in AfterIt(n, pattern, kept, e, env) : v \in Events!Values /\ v \in held'[n]
  <2>1. \A env \in envs : env[n] \in Events!Values /\ env[n] \in held[n]
    BY <1>1 DEF Fits
  <2> QED BY <1>4, <1>7, <2>1 DEF AfterIt
<1>9. /\ \A env \in envs : \A v \in AfterIt(n, pattern, kept, e, env) : [env EXCEPT ![n] = v] \in envs'
      /\ \A x \in envs' : \E env \in envs : \E v \in AfterIt(n, pattern, kept, e, env) : x = [env EXCEPT ![n] = v]
  BY <1>6
<1>10. envs' \in SUBSET [Locals -> Events!Values]
  BY <1>1, <1>8, <1>9
<1>11. envs' # {}
  BY <1>1, <1>4, <1>9 DEF AfterIt
<1> QED BY <1>4, <1>7, <1>8, <1>9, <1>10, <1>11 DEF Assigns

LEMMA BindFits ==
  ASSUME Fits(envs, held, deep), NEW n \in Locals, NEW pattern \in BOOLEAN, NEW kept \in BOOLEAN,
         NEW e \in Events!Expressions, Events!Bind(n, pattern, kept, e)
  PROVE  Fits(envs', held', deep') /\ Grows(held, deep, held', deep')
<1>1. Assigns(n, pattern, kept, e)
  BY BindIs
<1>2. \A m \in Locals : held[m] \subseteq held'[m]
  BY <1>1 DEF Assigns
<1>3. \A x \in envs', m \in Locals : x[m] \in held'[m]
  <2> SUFFICES ASSUME NEW x \in envs', NEW m \in Locals PROVE x[m] \in held'[m]
    OBVIOUS
  <2>1. PICK env \in envs : \E v \in AfterIt(n, pattern, kept, e, env) : x = [env EXCEPT ![n] = v]
    BY <1>1 DEF Assigns
  <2>2. PICK v \in AfterIt(n, pattern, kept, e, env) : x = [env EXCEPT ![n] = v]
    BY <2>1
  <2>3. env \in [Locals -> Events!Values] /\ env[m] \in held[m]
    BY DEF Fits
  <2>4. v \in held'[n]
    BY <1>1 DEF Assigns
  <2> QED BY <1>2, <2>2, <2>3, <2>4
<1>4. deep' = (deep \/ "nest" \in Events!MayMean(e) \/ (pattern /\ "player" \in Events!MayMean(e)))
  BY DEF Events!Bind
<1>5. deep' \in BOOLEAN
  BY <1>4 DEF Fits
<1>6. ASSUME ~ deep', NEW m \in Locals
      PROVE  "nest" \notin held'[m]
  <2>1. "nest" \notin held[m] /\ "nest" \notin held[n] /\ "nest" \notin Events!MayMean(e)
    BY <1>4, <1>6 DEF Fits
  <2>2. Events!MayMean(e) \in SUBSET Events!Values
    BY MayBeMeant
  <2>3. "nest" \notin Events!Bound(pattern, Events!MayMean(e))
    BY <2>1, <2>2, BoundValues
  <2> QED BY <1>1, <2>1, <2>3 DEF Assigns
<1>7. Grows(held, deep, held', deep')
  BY <1>2, <1>4 DEF Grows
<1> QED BY <1>1, <1>3, <1>5, <1>6, <1>7 DEF Fits, Assigns

(* What the rule marks, it still knows: an assignment in the callback.     *)
LEMMA MarkKnows ==
  ASSUME Fits(envs, held, deep), State \in States, Knows(State, envs, held, deep),
         NEW n \in Locals, NEW pattern \in BOOLEAN,
         NEW e \in Events!Expressions, Events!Bind(n, pattern, FALSE, e)
  PROVE  Knows(Events!Marked(State, n, pattern, Taint(e)), envs', held', deep')
<1> DEFINE s == Events!Marked(State, n, pattern, Taint(e))
           found == Taint(e) = "value" \/ (pattern /\ Taint(e) = "container")
<1>1. /\ s.values = IF found THEN State.values \cup {n} ELSE State.values
      /\ s.containers = IF ~ found /\ Taint(e) = "container" THEN State.containers \cup {n} ELSE State.containers
  BY DEF Events!Marked, States
<1> HIDE DEF s
<1>2. Assigns(n, pattern, FALSE, e) /\ Grows(held, deep, held', deep') /\ Fits(envs', held', deep')
  BY BindIs, BindFits
<1>3. SUFFICES ASSUME ~ deep' PROVE MayBe(s, held') /\ (Mixing(held') \/ NeedNotBe(s, envs'))
  BY DEF Knows, s
<1>4. ~ deep /\ "nest" \notin Events!MayMean(e) /\ ~ (pattern /\ "player" \in Events!MayMean(e))
  BY <1>3 DEF Events!Bind
<1>5. MayBe(State, held) /\ (Mixing(held) \/ NeedNotBe(State, envs))
  BY <1>4 DEF Knows
<1>6. /\ Taint(e) = "value" => "player" \in Events!MayMean(e)
      /\ Taint(e) = "container" => Events!MayMean(e) \cap {"box", "mixed"} # {}
  BY <1>4, <1>5, Suspected
<1>7. \A m \in Locals : held[m] \subseteq held'[m]
  BY <1>2 DEF Grows
<1>8. Events!MayMean(e) \in SUBSET Events!Values
  BY MayBeMeant
<1>9. held'[n] = held[n] \cup Events!Bound(pattern, Events!MayMean(e))
  BY <1>2 DEF Assigns
<1>10. MayBe(s, held')
  <2>1. found => "player" \in held'[n]
    <3>1. CASE Taint(e) = "value"
      <4>1. ~ pattern /\ "player" \in Events!MayMean(e)
        BY <1>4, <1>6, <3>1
      <4> QED BY <1>8, <1>9, <4>1, BoundValues
    <3>2. CASE pattern /\ Taint(e) = "container"
      <4>1. PICK v \in Events!MayMean(e) : v \in {"box", "mixed"}
        BY <1>6, <3>2
      <4>2. Events!Members(v) \subseteq Events!Bound(pattern, Events!MayMean(e))
        BY <1>8, <3>2, <4>1, BoundValues
      <4> QED BY <1>9, <4>1, <4>2, ValuesOf
    <3> QED BY <3>1, <3>2
  <2>2. ~ found /\ Taint(e) = "container" => held'[n] \cap {"box", "mixed"} # {}
    BY <1>6, <1>8, <1>9, BoundValues
  <2> QED BY <1>1, <1>5, <1>7, <2>1, <2>2 DEF MayBe, States
<1>11. ASSUME ~ Mixing(held')
       PROVE  NeedNotBe(s, envs')
  <2>1. ~ Mixing(held) /\ NeedNotBe(State, envs)
    BY <1>5, <1>7, <1>11 DEF Mixing
  <2>2. /\ Taint(e) # "value" => \E env \in envs : \E v \in Events!Means(e, env) : v # "player"
        /\ Taint(e) = "none" => \E env \in envs : \E v \in Events!Means(e, env) : v # "box"
    BY <1>4, <1>5, <2>1, Cleared
  <2>3. \A env \in envs : env \in [Locals -> Events!Values] /\ Events!Means(e, env) \in SUBSET Events!Values
                         /\ "nest" \notin Events!Means(e, env)
    BY <1>4, MeansSomething, MayBeMeant DEF Fits
  <2>4. \A env \in envs : \A v \in Events!Bound(pattern, Events!Means(e, env)) : \E x \in envs' : x[n] = v
    <3> SUFFICES ASSUME NEW env \in envs, NEW v \in Events!Bound(pattern, Events!Means(e, env))
                 PROVE  \E x \in envs' : x[n] = v
      OBVIOUS
    <3>1. [env EXCEPT ![n] = v] \in envs' /\ env \in [Locals -> Events!Values]
      BY <1>2, <2>3 DEF Assigns, AfterIt
    <3> QED BY <3>1
  <2>5. \A env \in envs, m \in Locals \ {n} : \E x \in envs' : x[m] = env[m]
    <3> SUFFICES ASSUME NEW env \in envs, NEW m \in Locals \ {n}
                 PROVE  \E x \in envs' : x[m] = env[m]
      OBVIOUS
    <3>1. PICK v \in Events!Bound(pattern, Events!Means(e, env)) : TRUE
      BY <1>2 DEF Assigns
    <3>2. [env EXCEPT ![n] = v] \in envs' /\ env \in [Locals -> Events!Values]
      BY <1>2, <2>3 DEF Assigns, AfterIt
    <3> QED BY <3>2
  <2>6. ~ found => \E env \in envs : \E v \in Events!Bound(pattern, Events!Means(e, env)) : v # "player"
    <3>1. SUFFICES ASSUME ~ found
                   PROVE  \E env \in envs : \E v \in Events!Bound(pattern, Events!Means(e, env)) : v # "player"
      OBVIOUS
    <3>2. CASE pattern
      <4>1. PICK env \in envs : \E v \in Events!Means(e, env) : v # "box"
        BY <2>2, <3>1, <3>2, TaintKinds, Forms
      <4>2. PICK v \in Events!Means(e, env) : v # "box"
        BY <4>1
      <4>3. Events!Members(v) \subseteq Events!Bound(pattern, Events!Means(e, env))
        BY <2>3, <3>2, BoundValues
      <4>4. "other" \in Events!Members(v)
        BY <2>3, <4>2, ValuesOf
      <4> QED BY <4>3, <4>4
    <3>3. CASE ~ pattern
      <4>1. \A env \in envs : Events!Bound(pattern, Events!Means(e, env)) = Events!Means(e, env)
        BY <2>3, <3>3, BoundValues
      <4> QED BY <2>2, <3>1, <4>1
    <3> QED BY <3>2, <3>3
  <2>7. Taint(e) = "none" => \E env \in envs : \E v \in Events!Bound(pattern, Events!Means(e, env)) : v # "box"
    <3>1. SUFFICES ASSUME Taint(e) = "none"
                   PROVE  \E env \in envs : \E v \in Events!Bound(pattern, Events!Means(e, env)) : v # "box"
      OBVIOUS
    <3>2. PICK env \in envs : \E v \in Events!Means(e, env) : v # "box"
      BY <2>2, <3>1
    <3>3. PICK v \in Events!Means(e, env) : v # "box"
      BY <3>2
    <3>4. CASE pattern
      <4>1. Events!Members(v) \subseteq Events!Bound(pattern, Events!Means(e, env))
        BY <2>3, <3>4, BoundValues
      <4>2. "other" \in Events!Members(v)
        BY <2>3, <3>3, ValuesOf
      <4> QED BY <4>1, <4>2
    <3>5. CASE ~ pattern
      BY <2>3, <3>3, <3>5, BoundValues
    <3> QED BY <3>4, <3>5
  <2>8. ASSUME NEW m \in Locals \ s.values
        PROVE  \E x \in envs' : x[m] # "player"
    <3>1. CASE m = n
      BY <1>1, <2>4, <2>6, <2>8, <3>1
    <3>2. CASE m # n
      <4>1. PICK env \in envs : env[m] # "player"
        BY <1>1, <2>1, <2>8, <3>2 DEF NeedNotBe
      <4> QED BY <2>5, <2>8, <3>2, <4>1
    <3> QED BY <3>1, <3>2
  <2>9. ASSUME NEW m \in Locals \ (s.values \cup s.containers)
        PROVE  \E x \in envs' : x[m] # "box"
    <3>1. CASE m = n
      <4>1. Taint(e) = "none"
        BY <1>1, <2>9, <3>1, TaintKinds, Forms
      <4> QED BY <2>4, <2>7, <3>1, <4>1
    <3>2. CASE m # n
      <4>1. PICK env \in envs : env[m] # "box"
        BY <1>1, <2>1, <2>9, <3>2 DEF NeedNotBe
      <4> QED BY <2>5, <2>9, <3>2, <4>1
    <3> QED BY <3>1, <3>2
  <2> QED BY <2>8, <2>9 DEF NeedNotBe
<1> QED BY <1>10, <1>11

(* Elsewhere it marks nothing. What it knows stays known when values and   *)
(* executions are added.                                                   *)
LEMMA KnowsMore ==
  ASSUME NEW s \in States, NEW E, NEW H, NEW D, NEW F, NEW I, NEW G,
         Knows(s, E, H, D), E \subseteq F, Grows(H, D, I, G)
  PROVE  Knows(s, F, I, G)
<1>1. SUFFICES ASSUME ~ G PROVE MayBe(s, I) /\ (Mixing(I) \/ NeedNotBe(s, F))
  BY DEF Knows
<1>2. MayBe(s, H) /\ (Mixing(H) \/ NeedNotBe(s, E)) /\ \A n \in Locals : H[n] \subseteq I[n]
  BY <1>1 DEF Knows, Grows
<1>3. MayBe(s, I)
  BY <1>2 DEF MayBe, States
<1>4. Mixing(H) => Mixing(I)
  BY <1>2 DEF Mixing
<1>5. NeedNotBe(s, E) => NeedNotBe(s, F)
  BY DEF NeedNotBe
<1> QED BY <1>2, <1>3, <1>4, <1>5
-----------------------------------------------------------------------------
(* The steps of the walk.                                                  *)
LEMMA EventsInitInv == Events!Init => EventsInv
<1> SUFFICES ASSUME Events!Init PROVE EventsInv
  OBVIOUS
<1>1. eventPath = <<>> /\ functionStack = <<>> /\ Len(eventPath) = 0 /\ Len(functionStack) = 0
  BY DEF Events!Init
<1>2. Fits(envs, held, deep)
  <2>1. {"other"} \subseteq Events!Values
    BY ValuesOf
  <2> QED BY <2>1 DEF Events!Init, Events!Nowhere, Fits, Holdings
<1>3. EventsTyped /\ Lasting
  <2>1. eventPath \in Seq(EventNodes) /\ functionStack \in Seq(EventFunctions) /\ trackedEvents \in BOOLEAN
    BY <1>1, EmptySeq DEF Events!Init
  <2>2. \A i \in 1..Len(eventPath) : FALSE
    BY <1>1
  <2> QED BY <1>2, <2>1, <2>2 DEF EventsTyped, Lasting
<1> DEFINE place == [k \in 1..Len(functionStack) |-> 1]
<1>4. place \in [1..Len(functionStack) -> 1..Len(eventPath)] /\ Stands(place) /\ Knowing(place)
  BY <1>1 DEF Stands, Knowing
<1> HIDE DEF place
<1> QED BY <1>3, <1>4 DEF EventsInv

LEMMA NodeIs ==
  ASSUME EventsTyped, NEW k \in {"if", "function", "callback"}
  PROVE  LET x == Events!Node(k)
         IN  /\ x \in EventNodes /\ x.kind = k /\ x.early = trackedEvents
             /\ x.envs = envs /\ x.held = held /\ x.deep = deep
BY DEF EventsTyped, Fits, EventNodes, Events!Node

(* A node is entered.                                                      *)
LEMMA Entered ==
  ASSUME EventsTyped, Lasting, NEW k \in {"if", "function", "callback"}, eventPath' = Append(eventPath, Events!Node(k)),
         functionStack' \in Seq(EventFunctions), trackedEvents' = trackedEvents, Fits(envs', held', deep'),
         k # "callback" => Grows(held, deep, held', deep')
  PROVE  /\ EventsTyped' /\ Lasting'
         /\ Len(eventPath) \in Nat /\ Len(eventPath') = Len(eventPath) + 1
         /\ \A i \in 1..Len(eventPath) : eventPath'[i] = eventPath[i]
         /\ eventPath'[Len(eventPath')] = Events!Node(k)
<1> DEFINE x == Events!Node(k)
           n == Len(eventPath)
<1>1. x \in EventNodes /\ x.kind = k /\ x.early = trackedEvents /\ x.envs = envs /\ x.held = held /\ x.deep = deep
  BY NodeIs
<1> HIDE DEF x
<1>2. eventPath' = Append(eventPath, x) /\ eventPath \in Seq(EventNodes)
  BY DEF x, EventsTyped
<1>3. /\ eventPath' \in Seq(EventNodes) /\ n \in Nat /\ Len(eventPath') = n + 1
      /\ \A i \in 1..n : eventPath'[i] = eventPath[i]
      /\ eventPath'[n + 1] = x
  BY <1>1, <1>2
<1>4. \A i \in 1..n + 1 : i \in 1..n \/ i = n + 1
  BY <1>3
<1> HIDE DEF n
<1>5. \A i \in 1..n + 1 : Fits(eventPath'[i].envs, eventPath'[i].held, eventPath'[i].deep) /\ (eventPath'[i].early => trackedEvents')
  BY <1>1, <1>3, <1>4 DEF EventsTyped, n
<1>6. EventsTyped'
  BY <1>3, <1>5 DEF EventsTyped
<1>7. Lasting'
  <2> SUFFICES ASSUME NEW i \in 1..n + 1, eventPath'[i].kind # "callback"
               PROVE  IF i = n + 1 THEN Grows(eventPath'[i].held, eventPath'[i].deep, held', deep')
                      ELSE Grows(eventPath'[i].held, eventPath'[i].deep, eventPath'[i + 1].held, eventPath'[i + 1].deep)
    BY <1>3 DEF Lasting
  <2>1. CASE i = n + 1
    BY <1>1, <1>3, <2>1
  <2>2. CASE i = n
    <3>1. Grows(eventPath[i].held, eventPath[i].deep, held, deep) /\ i # n + 1
      BY <1>3, <2>2 DEF Lasting, n
    <3> QED BY <1>1, <1>3, <2>2, <3>1
  <2>3. CASE i < n
    <3>1. i \in 1..n /\ i + 1 \in 1..n /\ i # n /\ i # n + 1
      BY <1>3, <2>3
    <3>2. Grows(eventPath[i].held, eventPath[i].deep, eventPath[i + 1].held, eventPath[i + 1].deep)
      BY <1>3, <3>1 DEF Lasting, n
    <3> QED BY <1>3, <3>1, <3>2
  <2> QED BY <1>3, <2>1, <2>2, <2>3
<1> QED BY <1>3, <1>6, <1>7 DEF n, x

LEMMA IfOpens ==
  ASSUME EventsInv, Events!If
  PROVE  EventsInv'
<1>1. /\ eventPath' = Append(eventPath, Events!Node("if")) /\ functionStack' = functionStack
      /\ trackedEvents' = trackedEvents /\ envs' = envs /\ held' = held /\ deep' = deep
  BY DEF Events!If, Events!Open, Events!executions
<1>2. /\ EventsTyped' /\ Lasting'
      /\ Len(eventPath) \in Nat /\ Len(eventPath') = Len(eventPath) + 1
      /\ \A i \in 1..Len(eventPath) : eventPath'[i] = eventPath[i]
      /\ eventPath'[Len(eventPath')] = Events!Node("if")
  <2>1. Fits(envs', held', deep') /\ Grows(held, deep, held', deep') /\ functionStack' \in Seq(EventFunctions)
    BY <1>1 DEF EventsInv, EventsTyped, Grows
  <2> QED BY <1>1, <2>1, Entered DEF EventsInv
<1>3. eventPath'[Len(eventPath')].kind = "if"
  BY <1>2, NodeIs DEF EventsInv
<1>4. PICK place \in [1..Len(functionStack) -> 1..Len(eventPath)] : Stands(place) /\ Knowing(place)
  BY DEF EventsInv
<1>5. place \in [1..Len(functionStack') -> 1..Len(eventPath')] /\ \A k \in 1..Len(functionStack) : eventPath'[place[k]] = eventPath[place[k]]
  BY <1>1, <1>2, <1>4
<1>6. \A i \in 1..Len(eventPath') : eventPath'[i].kind # "if" => i \in 1..Len(eventPath)
  BY <1>2, <1>3
<1>7. Stands(place)'
  <2>1. /\ \A i \in 1..Len(eventPath) : eventPath[i].kind # "if" => \E k \in 1..Len(functionStack) : place[k] = i
        /\ \A k, l \in 1..Len(functionStack) : k < l => place[k] < place[l]
        /\ \A k \in 1..Len(functionStack) :
             /\ eventPath[place[k]].kind # "if"
             /\ AtWork(functionStack[k]) <=> eventPath[place[k]].kind = "callback" /\ eventPath[place[k]].early
    BY <1>4 DEF Stands
  <2>2. \A i \in 1..Len(eventPath') : eventPath'[i].kind # "if" => \E k \in 1..Len(functionStack) : place[k] = i
    BY <1>2, <1>6, <2>1
  <2>3. \A k \in 1..Len(functionStack) :
          /\ eventPath'[place[k]].kind # "if"
          /\ AtWork(functionStack[k]) <=> eventPath'[place[k]].kind = "callback" /\ eventPath'[place[k]].early
    BY <1>5, <2>1
  <2> QED BY <1>1, <1>5, <2>1, <2>2, <2>3 DEF Stands
<1>8. Knowing(place)'
  <2>1. \A k \in 2..Len(functionStack) : k \in 1..Len(functionStack)
    BY DEF EventsInv, EventsTyped
  <2> QED BY <1>1, <1>4, <1>5, <2>1 DEF Knowing
<1> QED BY <1>2, <1>5, <1>7, <1>8 DEF EventsInv

(* A function or a callback is entered.                                    *)
LEMMA FunctionOpens ==
  ASSUME EventsInv, NEW x \in {"function", "callback"}, NEW f \in EventFunctions,
         eventPath' = Append(eventPath, Events!Node(x)), functionStack' = Append(functionStack, f),
         trackedEvents' = trackedEvents, Fits(envs', held', deep'),
         x # "callback" => Grows(held, deep, held', deep'),
         AtWork(f) <=> x = "callback" /\ trackedEvents,
         Informed(f, envs', held', deep')
  PROVE  EventsInv'
<1> DEFINE n == Len(eventPath)
           m == Len(functionStack)
<1>1. /\ functionStack \in Seq(EventFunctions) /\ functionStack' \in Seq(EventFunctions)
      /\ m \in Nat /\ Len(functionStack') = m + 1
      /\ \A k \in 1..m : functionStack'[k] = functionStack[k]
      /\ functionStack'[m + 1] = f /\ functionStack' # <<>>
  BY DEF EventsInv, EventsTyped
<1>2. /\ EventsTyped' /\ Lasting' /\ n \in Nat /\ Len(eventPath') = n + 1
      /\ \A i \in 1..n : eventPath'[i] = eventPath[i]
      /\ eventPath'[n + 1] = Events!Node(x)
  BY <1>1, Entered DEF EventsInv
<1>3. LET y == eventPath'[n + 1]
      IN  y.kind = x /\ y.early = trackedEvents /\ y.envs = envs /\ y.held = held /\ y.deep = deep
  BY <1>2, NodeIs DEF EventsInv
<1>4. PICK place \in [1..m -> 1..n] : Stands(place) /\ Knowing(place)
  BY DEF EventsInv
<1>5. m = 0 <=> functionStack = <<>>
  BY <1>1, EmptySeq
<1>6. \A k \in 1..m + 1 : k \in 1..m \/ k = m + 1
  BY <1>1
<1>7. /\ \A k, l \in 1..m : k < l => place[k] < place[l]
      /\ \A i \in 1..n : eventPath[i].kind # "if" => \E k \in 1..m : place[k] = i
      /\ \A k \in 1..m :
           /\ eventPath[place[k]].kind # "if"
           /\ AtWork(functionStack[k]) <=> eventPath[place[k]].kind = "callback" /\ eventPath[place[k]].early
  BY <1>4 DEF Stands
<1>8. /\ m # 0 => Informed(functionStack[m], envs, held, deep)
      /\ \A k \in 2..m :
           Informed(functionStack[k - 1], eventPath[place[k]].envs, eventPath[place[k]].held, eventPath[place[k]].deep)
  BY <1>4, <1>5 DEF Knowing
<1> HIDE DEF m, n
<1>9. PICK new \in [1..m + 1 -> 1..n + 1] :
        /\ \A k \in 1..m : new[k] = place[k] /\ place[k] \in 1..n /\ k \in 1..m + 1 /\ k # m + 1
        /\ new[m + 1] = n + 1 /\ m + 1 \in 1..m + 1
  <2> DEFINE w == [k \in 1..m + 1 |-> IF k = m + 1 THEN n + 1 ELSE place[k]]
  <2>1. /\ \A k \in 1..m : w[k] = place[k] /\ place[k] \in 1..n /\ k \in 1..m + 1 /\ k # m + 1
        /\ w[m + 1] = n + 1 /\ m + 1 \in 1..m + 1
        /\ w \in [1..m + 1 -> 1..n + 1]
    BY <1>1, <1>2, <1>4
  <2> HIDE DEF w
  <2> QED BY <2>1
<1>10. /\ \A k \in 1..m : functionStack'[k] = functionStack[k] /\ eventPath'[new[k]] = eventPath[place[k]]
       /\ functionStack'[m + 1] = f
  BY <1>1, <1>2, <1>9
<1>11. Stands(new)'
  <2>1. \A k, l \in 1..m + 1 : k < l => new[k] < new[l]
    <3> SUFFICES ASSUME NEW k \in 1..m + 1, NEW l \in 1..m + 1, k < l PROVE new[k] < new[l]
      OBVIOUS
    <3>1. k \in 1..m
      BY <1>1
    <3>2. CASE l = m + 1
      BY <1>2, <1>9, <3>1, <3>2
    <3>3. CASE l \in 1..m
      BY <1>7, <1>9, <3>1, <3>3
    <3> QED BY <1>6, <3>2, <3>3
  <2>2. \A i \in 1..n + 1 : eventPath'[i].kind # "if" => \E k \in 1..m + 1 : new[k] = i
    <3> SUFFICES ASSUME NEW i \in 1..n + 1, eventPath'[i].kind # "if" PROVE \E k \in 1..m + 1 : new[k] = i
      OBVIOUS
    <3>1. CASE i = n + 1
      BY <1>9, <3>1
    <3>2. CASE i \in 1..n
      <4>1. PICK k \in 1..m : place[k] = i
        BY <1>2, <1>7, <3>2
      <4> QED BY <1>9, <4>1
    <3> QED BY <1>2, <3>1, <3>2
  <2>3. \A k \in 1..m + 1 :
          /\ eventPath'[new[k]].kind # "if"
          /\ AtWork(functionStack'[k]) <=> eventPath'[new[k]].kind = "callback" /\ eventPath'[new[k]].early
    <3> SUFFICES ASSUME NEW k \in 1..m + 1
                 PROVE  /\ eventPath'[new[k]].kind # "if"
                        /\ AtWork(functionStack'[k]) <=> eventPath'[new[k]].kind = "callback" /\ eventPath'[new[k]].early
      OBVIOUS
    <3>1. CASE k = m + 1
      BY <1>3, <1>9, <1>10, <3>1
    <3>2. CASE k \in 1..m
      <4>1. functionStack'[k] = functionStack[k] /\ eventPath'[new[k]] = eventPath[place[k]]
        BY <1>10, <3>2
      <4>2. /\ eventPath[place[k]].kind # "if"
            /\ AtWork(functionStack[k]) <=> eventPath[place[k]].kind = "callback" /\ eventPath[place[k]].early
        BY <1>7, <3>2
      <4> QED BY <4>1, <4>2
    <3> QED BY <1>6, <3>1, <3>2
  <2> QED BY <1>1, <1>2, <1>9, <2>1, <2>2, <2>3 DEF Stands
<1>12. Knowing(new)'
  <2>1. ASSUME NEW k \in 2..m + 1
        PROVE  Informed(functionStack'[k - 1], eventPath'[new[k]].envs, eventPath'[new[k]].held, eventPath'[new[k]].deep)
    <3>1. CASE k = m + 1
      <4>1. k - 1 = m /\ m # 0 /\ m \in 1..m
        BY <1>1, <3>1
      <4>2. functionStack'[k - 1] = functionStack[m]
        BY <1>10, <4>1
      <4>3. /\ eventPath'[new[k]].envs = envs /\ eventPath'[new[k]].held = held
            /\ eventPath'[new[k]].deep = deep
        BY <1>3, <1>9, <3>1
      <4>4. Informed(functionStack[m], envs, held, deep)
        BY <1>8, <4>1
      <4> QED BY <4>2, <4>3, <4>4
    <3>2. CASE k \in 2..m
      <4>1. k \in 1..m /\ k - 1 \in 1..m
        BY <1>1, <3>2
      <4>2. functionStack'[k - 1] = functionStack[k - 1] /\ eventPath'[new[k]] = eventPath[place[k]]
        BY <1>10, <4>1
      <4> QED BY <1>8, <3>2, <4>2
    <3>3. k = m + 1 \/ k \in 2..m
      BY <1>1
    <3> QED BY <3>1, <3>2, <3>3
  <2>2. Informed(functionStack'[m + 1], envs', held', deep')
    BY <1>10
  <2> QED BY <1>1, <2>1, <2>2 DEF Knowing
<1> QED BY <1>1, <1>2, <1>9, <1>11, <1>12 DEF EventsInv
-----------------------------------------------------------------------------
LEMMA GrowsOn ==
  ASSUME NEW G, NEW H, NEW I, NEW D, NEW E, NEW F, Grows(G, D, H, E), Grows(H, E, I, F)
  PROVE  Grows(G, D, I, F)
BY DEF Grows

LEMMA InformedMore ==
  ASSUME NEW f \in EventFunctions, NEW E, NEW H, NEW D, NEW F, NEW I, NEW G,
         Informed(f, E, H, D), E \subseteq F, Grows(H, D, I, G)
  PROVE  Informed(f, F, I, G)
<1>1. f.callbackState \in States
  BY DEF EventFunctions
<1> QED BY <1>1, KnowsMore DEF Informed

(* A node is left.                                                         *)
LEMMA NodeLeft ==
  ASSUME EventsTyped, Lasting, eventPath # <<>>, eventPath' = Events!Front(eventPath),
         functionStack' \in Seq(EventFunctions), trackedEvents' = trackedEvents, Fits(envs', held', deep'),
         Grows(eventPath[Len(eventPath)].held, eventPath[Len(eventPath)].deep, held', deep')
  PROVE  /\ EventsTyped' /\ Lasting'
         /\ Len(eventPath) \in Nat \ {0} /\ Len(eventPath') = Len(eventPath) - 1
         /\ \A i \in 1..Len(eventPath) - 1 : eventPath'[i] = eventPath[i]
<1> DEFINE n == Len(eventPath)
<1>1. /\ n \in Nat \ {0} /\ eventPath' \in Seq(EventNodes) /\ Len(eventPath') = n - 1
      /\ \A i \in 1..n - 1 : eventPath'[i] = eventPath[i]
  BY FrontOfSeq DEF EventsTyped
<1>2. \A i \in 1..n : /\ Fits(eventPath[i].envs, eventPath[i].held, eventPath[i].deep)
                      /\ eventPath[i].early => trackedEvents
  BY DEF EventsTyped
<1>3. \A i \in 1..n : eventPath[i].kind # "callback" /\ i # n =>
        Grows(eventPath[i].held, eventPath[i].deep, eventPath[i + 1].held, eventPath[i + 1].deep)
  BY DEF Lasting
<1>4. Grows(eventPath[n].held, eventPath[n].deep, held', deep')
  OBVIOUS
<1> HIDE DEF n
<1>5. \A i \in 1..n - 1 : i \in 1..n /\ i # n /\ (i = n - 1 \/ i + 1 \in 1..n - 1)
  BY <1>1
<1>6. EventsTyped'
  BY <1>1, <1>2, <1>5 DEF EventsTyped
<1>7. Lasting'
  <2> SUFFICES ASSUME NEW i \in 1..n - 1, eventPath'[i].kind # "callback"
               PROVE  IF i = n - 1 THEN Grows(eventPath'[i].held, eventPath'[i].deep, held', deep')
                      ELSE Grows(eventPath'[i].held, eventPath'[i].deep, eventPath'[i + 1].held, eventPath'[i + 1].deep)
    BY <1>1 DEF Lasting
  <2>1. eventPath'[i] = eventPath[i]
    BY <1>1
  <2>2. Grows(eventPath[i].held, eventPath[i].deep, eventPath[i + 1].held, eventPath[i + 1].deep)
    BY <1>3, <1>5, <2>1
  <2>3. CASE i = n - 1
    <3>1. i + 1 = n
      BY <1>1, <2>3
    <3>2. Grows(eventPath[i].held, eventPath[i].deep, eventPath[n].held, eventPath[n].deep)
      BY <2>2, <3>1
    <3>3. Grows(eventPath[i].held, eventPath[i].deep, held', deep')
      BY <1>4, <3>2, GrowsOn
    <3> QED BY <2>1, <2>3, <3>3
  <2>4. CASE i # n - 1
    <3>1. eventPath'[i + 1] = eventPath[i + 1]
      BY <1>1, <1>5, <2>4
    <3> QED BY <2>1, <2>2, <2>4, <3>1
  <2> QED BY <2>3, <2>4
<1> QED BY <1>1, <1>6, <1>7 DEF n

(* The executions that skipped an if or a function join the others.        *)
LEMMA Joins ==
  ASSUME EventsTyped, Lasting, eventPath # <<>>, eventPath[Len(eventPath)].kind # "callback", Events!Joined
  PROVE  /\ Fits(envs', held', deep')
         /\ envs \subseteq envs' /\ eventPath[Len(eventPath)].envs \subseteq envs' /\ Grows(held, deep, held', deep')
         /\ Grows(eventPath[Len(eventPath)].held, eventPath[Len(eventPath)].deep, held', deep')
<1> DEFINE x == eventPath[Len(eventPath)]
<1>1. Len(eventPath) \in 1..Len(eventPath)
  BY EmptySeq DEF EventsTyped
<1>2. Fits(x.envs, x.held, x.deep) /\ Fits(envs, held, deep) /\ Grows(x.held, x.deep, held, deep)
  BY <1>1 DEF EventsTyped, Lasting
<1>3. envs' = envs \cup x.envs /\ held' = held /\ deep' = deep
  BY DEF Events!Joined, Events!Last
<1> HIDE DEF x
<1>4. \A env \in envs \cup x.envs, n \in Locals : env[n] \in held[n]
  BY <1>2 DEF Fits, Grows
<1>5. Fits(envs', held', deep')
  BY <1>2, <1>3, <1>4 DEF Fits
<1>6. Grows(held, deep, held', deep')
  BY <1>3 DEF Grows
<1> QED BY <1>2, <1>3, <1>5, <1>6 DEF x

LEMMA IfCloses ==
  ASSUME EventsInv, Events!EndIf
  PROVE  EventsInv'
<1> DEFINE n == Len(eventPath)
           m == Len(functionStack)
<1>1. /\ eventPath # <<>> /\ eventPath[n].kind = "if" /\ eventPath' = Events!Front(eventPath)
      /\ functionStack' = functionStack /\ trackedEvents' = trackedEvents
  BY DEF Events!EndIf, Events!Leaves, Events!Last
<1>2. /\ Fits(envs', held', deep') /\ envs \subseteq envs' /\ Grows(held, deep, held', deep')
      /\ Grows(eventPath[n].held, eventPath[n].deep, held', deep')
  BY <1>1, Joins DEF EventsInv, Events!EndIf
<1>3. /\ EventsTyped' /\ Lasting' /\ n \in Nat \ {0} /\ Len(eventPath') = n - 1
      /\ \A i \in 1..n - 1 : eventPath'[i] = eventPath[i]
  BY <1>1, <1>2, NodeLeft DEF EventsInv, EventsTyped
<1>4. PICK place \in [1..m -> 1..n] : Stands(place) /\ Knowing(place)
  BY DEF EventsInv
<1>5. /\ \A k, l \in 1..m : k < l => place[k] < place[l]
      /\ \A i \in 1..n : eventPath[i].kind # "if" => \E k \in 1..m : place[k] = i
      /\ \A k \in 1..m :
           /\ eventPath[place[k]].kind # "if"
           /\ AtWork(functionStack[k]) <=> eventPath[place[k]].kind = "callback" /\ eventPath[place[k]].early
  BY <1>4 DEF Stands
<1>6. /\ functionStack # <<>> => Informed(functionStack[m], envs, held, deep)
      /\ \A k \in 2..m :
           Informed(functionStack[k - 1], eventPath[place[k]].envs, eventPath[place[k]].held, eventPath[place[k]].deep)
  BY <1>4 DEF Knowing
<1>7. functionStack # <<>> => functionStack[m] \in EventFunctions
  BY FrontOfSeq DEF EventsInv, EventsTyped
<1>8. m \in Nat /\ m = Len(functionStack')
  BY <1>1 DEF EventsInv, EventsTyped
<1>9. functionStack # <<>> => Informed(functionStack[m], envs', held', deep')
  BY <1>2, <1>6, <1>7, InformedMore
<1> HIDE DEF m, n
<1>10. \A k \in 1..m : place[k] \in 1..n - 1 /\ eventPath'[place[k]] = eventPath[place[k]]
  <2> SUFFICES ASSUME NEW k \in 1..m PROVE place[k] \in 1..n - 1
    BY <1>3
  <2>1. place[k] \in 1..n /\ place[k] # n
    BY <1>1, <1>4, <1>5
  <2> QED BY <1>3, <2>1
<1>11. place \in [1..m -> 1..n - 1]
  BY <1>4, <1>10
<1>12. \A i \in 1..n - 1 : i \in 1..n /\ eventPath'[i] = eventPath[i]
  BY <1>3
<1>13. Stands(place)'
  <2>1. \A i \in 1..n - 1 : eventPath'[i].kind # "if" => \E k \in 1..m : place[k] = i
    BY <1>5, <1>12
  <2>2. \A k \in 1..m :
          /\ eventPath'[place[k]].kind # "if"
          /\ AtWork(functionStack[k]) <=> eventPath'[place[k]].kind = "callback" /\ eventPath'[place[k]].early
    BY <1>5, <1>10
  <2> QED BY <1>1, <1>3, <1>5, <1>8, <1>11, <2>1, <2>2 DEF Stands
<1>14. Knowing(place)'
  <2>1. \A k \in 2..m : k \in 1..m
    BY <1>8
  <2> QED BY <1>1, <1>6, <1>8, <1>9, <1>10, <2>1 DEF Knowing
<1> QED BY <1>3, <1>8, <1>11, <1>13, <1>14 DEF EventsInv

(* A function or a callback is left.                                       *)
LEMMA FunctionCloses ==
  ASSUME EventsInv, eventPath # <<>>, eventPath[Len(eventPath)].kind # "if", eventPath' = Events!Front(eventPath),
         functionStack' = Events!Front(functionStack), trackedEvents' = trackedEvents,
         Fits(envs', held', deep'), eventPath[Len(eventPath)].envs \subseteq envs',
         Grows(eventPath[Len(eventPath)].held, eventPath[Len(eventPath)].deep, held', deep')
  PROVE  EventsInv'
<1> DEFINE n == Len(eventPath)
           m == Len(functionStack)
<1>1. n \in 1..n /\ n \in Nat
  BY EmptySeq DEF EventsInv, EventsTyped
<1>2. PICK place \in [1..m -> 1..n] : Stands(place) /\ Knowing(place)
  BY DEF EventsInv
<1>3. /\ \A k, l \in 1..m : k < l => place[k] < place[l]
      /\ \A i \in 1..n : eventPath[i].kind # "if" => \E k \in 1..m : place[k] = i
      /\ \A k \in 1..m :
           /\ eventPath[place[k]].kind # "if"
           /\ AtWork(functionStack[k]) <=> eventPath[place[k]].kind = "callback" /\ eventPath[place[k]].early
  BY <1>2 DEF Stands
<1>4. \A k \in 2..m :
        Informed(functionStack[k - 1], eventPath[place[k]].envs, eventPath[place[k]].held, eventPath[place[k]].deep)
  BY <1>2 DEF Knowing
<1>5. m \in Nat
  BY DEF EventsInv, EventsTyped
<1>6. m \in Nat \ {0} /\ place[m] = n
  <2>1. PICK k \in 1..m : place[k] = n
    BY <1>1, <1>3
  <2>2. m \in 1..m /\ place[m] \in 1..n
    BY <1>2, <1>5, <2>1
  <2>3. k < m => place[k] < place[m]
    BY <1>3, <2>2
  <2>4. ~ k < m
    BY <1>1, <2>1, <2>2, <2>3
  <2>5. k = m
    BY <1>5, <2>1, <2>4
  <2> QED BY <1>5, <2>1, <2>5
<1>7. functionStack # <<>>
  BY <1>6
<1>8. /\ functionStack' \in Seq(EventFunctions) /\ Len(functionStack') = m - 1
      /\ \A k \in 1..m - 1 : functionStack'[k] = functionStack[k]
  BY <1>7, FrontOfSeq DEF EventsInv, EventsTyped
<1>9. /\ EventsTyped' /\ Lasting' /\ n \in Nat \ {0} /\ Len(eventPath') = n - 1
      /\ \A i \in 1..n - 1 : eventPath'[i] = eventPath[i]
  BY <1>8, NodeLeft DEF EventsInv
<1>10. \A k \in 1..m : functionStack[k] \in EventFunctions
  BY DEF EventsInv, EventsTyped
<1>11. eventPath[n].envs \subseteq envs' /\ Grows(eventPath[n].held, eventPath[n].deep, held', deep') /\ eventPath[n].kind # "if"
  OBVIOUS
<1> HIDE DEF m, n
<1>12. PICK new \in [1..m - 1 -> 1..n - 1] : \A k \in 1..m - 1 : k \in 1..m /\ new[k] = place[k]
  <2> DEFINE w == [k \in 1..m - 1 |-> place[k]]
  <2>1. \A k \in 1..m - 1 : k \in 1..m /\ k < m /\ m \in 1..m
    BY <1>6
  <2>2. \A k \in 1..m - 1 : place[k] \in 1..n /\ place[k] < n
    BY <1>2, <1>3, <1>6, <2>1
  <2>3. \A k \in 1..m - 1 : place[k] \in 1..n - 1
    BY <1>9, <2>2
  <2>4. w \in [1..m - 1 -> 1..n - 1] /\ \A k \in 1..m - 1 : w[k] = place[k]
    BY <2>3
  <2> HIDE DEF w
  <2> QED BY <2>1, <2>4
<1>13. \A k \in 1..m - 1 :
         /\ k \in 1..m /\ new[k] = place[k] /\ eventPath'[new[k]] = eventPath[place[k]]
         /\ functionStack'[k] = functionStack[k]
  BY <1>8, <1>9, <1>12
<1>14. Stands(new)'
  <2>1. \A k, l \in 1..m - 1 : k < l => new[k] < new[l]
    BY <1>3, <1>13
  <2>2. \A i \in 1..n - 1 : eventPath'[i].kind # "if" => \E k \in 1..m - 1 : new[k] = i
    <3> SUFFICES ASSUME NEW i \in 1..n - 1, eventPath'[i].kind # "if" PROVE \E k \in 1..m - 1 : new[k] = i
      OBVIOUS
    <3>1. eventPath'[i] = eventPath[i] /\ i \in 1..n /\ i # n
      BY <1>9
    <3>2. PICK k \in 1..m : place[k] = i
      BY <1>3, <3>1
    <3>3. k # m
      BY <1>6, <3>1, <3>2
    <3>4. k \in 1..m - 1
      BY <1>6, <3>3
    <3> QED BY <1>13, <3>2, <3>4
  <2>3. \A k \in 1..m - 1 :
          /\ eventPath'[new[k]].kind # "if"
          /\ AtWork(functionStack'[k]) <=> eventPath'[new[k]].kind = "callback" /\ eventPath'[new[k]].early
    <3> SUFFICES ASSUME NEW k \in 1..m - 1
                 PROVE  /\ eventPath'[new[k]].kind # "if"
                        /\ AtWork(functionStack'[k]) <=> eventPath'[new[k]].kind = "callback" /\ eventPath'[new[k]].early
      OBVIOUS
    <3>1. functionStack'[k] = functionStack[k] /\ eventPath'[new[k]] = eventPath[place[k]] /\ k \in 1..m
      BY <1>13
    <3>2. /\ eventPath[place[k]].kind # "if"
          /\ AtWork(functionStack[k]) <=> eventPath[place[k]].kind = "callback" /\ eventPath[place[k]].early
      BY <1>3, <3>1
    <3> QED BY <3>1, <3>2
  <2> QED BY <1>8, <1>9, <1>12, <2>1, <2>2, <2>3 DEF Stands
<1>15. Knowing(new)'
  <2>1. functionStack' # <<>> => Informed(functionStack'[m - 1], envs', held', deep')
    <3>1. SUFFICES ASSUME functionStack' # <<>> PROVE Informed(functionStack'[m - 1], envs', held', deep')
      OBVIOUS
    <3>2. m - 1 \in Nat \ {0}
      BY <1>8, <3>1, EmptySeq
    <3>3. m \in 2..m /\ m - 1 \in 1..m - 1 /\ m - 1 \in 1..m
      BY <1>6, <3>2
    <3>4. Informed(functionStack[m - 1], eventPath[n].envs, eventPath[n].held, eventPath[n].deep)
      BY <1>4, <1>6, <3>3
    <3>5. functionStack[m - 1] \in EventFunctions
      BY <1>10, <3>3
    <3>6. Informed(functionStack[m - 1], envs', held', deep')
      BY <1>11, <3>4, <3>5, InformedMore
    <3> QED BY <1>13, <3>3, <3>6
  <2>2. ASSUME NEW k \in 2..m - 1
        PROVE  Informed(functionStack'[k - 1], eventPath'[new[k]].envs, eventPath'[new[k]].held, eventPath'[new[k]].deep)
    <3>1. k \in 2..m /\ k \in 1..m - 1 /\ k - 1 \in 1..m - 1
      BY <1>6
    <3>2. functionStack'[k - 1] = functionStack[k - 1] /\ eventPath'[new[k]] = eventPath[place[k]]
      BY <1>13, <3>1
    <3>3. Informed(functionStack[k - 1], eventPath[place[k]].envs, eventPath[place[k]].held, eventPath[place[k]].deep)
      BY <1>4, <3>1
    <3> QED BY <3>2, <3>3
  <2> QED BY <1>8, <2>1, <2>2 DEF Knowing
<1> QED BY <1>8, <1>9, <1>12, <1>14, <1>15 DEF EventsInv
(* A variable is declared or assigned.                                     *)
LEMMA Rebound ==
  ASSUME EventsInv, eventPath' = eventPath, trackedEvents' = trackedEvents,
         Fits(envs', held', deep'), Grows(held, deep, held', deep'),
         functionStack' \in Seq(EventFunctions), Len(functionStack') = Len(functionStack),
         \A k \in 1..Len(functionStack) - 1 : functionStack'[k] = functionStack[k],
         functionStack # <<>> =>
           /\ AtWork(functionStack'[Len(functionStack)]) <=> AtWork(functionStack[Len(functionStack)])
           /\ Informed(functionStack'[Len(functionStack)], envs', held', deep')
  PROVE  EventsInv'
<1> DEFINE n == Len(eventPath)
           m == Len(functionStack)
<1>1. n \in Nat /\ m \in Nat /\ eventPath' = eventPath /\ Len(functionStack') = m
  BY DEF EventsInv, EventsTyped
<1>2. EventsTyped'
  BY DEF EventsInv, EventsTyped
<1>3. Lasting'
  <2> SUFFICES ASSUME NEW i \in 1..n, eventPath[i].kind # "callback"
               PROVE  IF i = n THEN Grows(eventPath[i].held, eventPath[i].deep, held', deep')
                      ELSE Grows(eventPath[i].held, eventPath[i].deep, eventPath[i + 1].held, eventPath[i + 1].deep)
    BY <1>1 DEF Lasting
  <2>1. IF i = n THEN Grows(eventPath[i].held, eventPath[i].deep, held, deep)
        ELSE Grows(eventPath[i].held, eventPath[i].deep, eventPath[i + 1].held, eventPath[i + 1].deep)
    BY DEF EventsInv, Lasting
  <2>2. CASE i = n
    <3>1. Grows(eventPath[i].held, eventPath[i].deep, held, deep)
      BY <2>1, <2>2
    <3>2. Grows(eventPath[i].held, eventPath[i].deep, held', deep')
      BY <3>1, GrowsOn
    <3> QED BY <2>2, <3>2
  <2> QED BY <2>1, <2>2
<1>4. PICK place \in [1..m -> 1..n] : Stands(place) /\ Knowing(place)
  BY DEF EventsInv
<1>5. /\ \A k, l \in 1..m : k < l => place[k] < place[l]
      /\ \A i \in 1..n : eventPath[i].kind # "if" => \E k \in 1..m : place[k] = i
      /\ \A k \in 1..m :
           /\ eventPath[place[k]].kind # "if"
           /\ AtWork(functionStack[k]) <=> eventPath[place[k]].kind = "callback" /\ eventPath[place[k]].early
  BY <1>4 DEF Stands
<1>6. \A k \in 2..m :
        Informed(functionStack[k - 1], eventPath[place[k]].envs, eventPath[place[k]].held, eventPath[place[k]].deep)
  BY <1>4 DEF Knowing
<1>7. \A k \in 1..m - 1 : functionStack'[k] = functionStack[k]
  OBVIOUS
<1>8. m # 0 => /\ AtWork(functionStack'[m]) <=> AtWork(functionStack[m])
               /\ Informed(functionStack'[m], envs', held', deep')
  BY EmptySeq DEF EventsInv, EventsTyped
<1>9. functionStack' # <<>> => m # 0
  BY <1>1, EmptySeq
<1> HIDE DEF m, n
<1>10. \A k \in 1..m : AtWork(functionStack'[k]) <=> AtWork(functionStack[k])
  <2> SUFFICES ASSUME NEW k \in 1..m PROVE AtWork(functionStack'[k]) <=> AtWork(functionStack[k])
    OBVIOUS
  <2>1. CASE k = m
    BY <1>1, <1>8, <2>1
  <2>2. CASE k # m
    <3>1. k \in 1..m - 1
      BY <1>1, <2>2
    <3> QED BY <1>7, <3>1
  <2> QED BY <2>1, <2>2
<1>11. Stands(place)'
  <2>1. \A k \in 1..m :
          /\ eventPath[place[k]].kind # "if"
          /\ AtWork(functionStack'[k]) <=> eventPath[place[k]].kind = "callback" /\ eventPath[place[k]].early
    BY <1>5, <1>10
  <2> QED BY <1>1, <1>4, <1>5, <2>1 DEF Stands, n
<1>12. Knowing(place)'
  <2>1. \A k \in 2..m : k - 1 \in 1..m - 1
    BY <1>1
  <2>2. \A k \in 2..m :
          Informed(functionStack'[k - 1], eventPath[place[k]].envs, eventPath[place[k]].held, eventPath[place[k]].deep)
    BY <1>6, <1>7, <2>1
  <2> QED BY <1>1, <1>8, <1>9, <2>2 DEF Knowing
<1> QED BY <1>1, <1>2, <1>3, <1>4, <1>11, <1>12 DEF EventsInv, n

LEMMA CurrentIs ==
  ASSUME EventsTyped, functionStack # <<>>
  PROVE  /\ Len(functionStack) \in 1..Len(functionStack)
         /\ Events!Current = functionStack[Len(functionStack)] /\ Events!Current \in EventFunctions
         /\ State \in States
<1>1. Events!Current = functionStack[Len(functionStack)]
  BY DEF Events!Current, Events!Last
<1>2. functionStack[Len(functionStack)] \in EventFunctions /\ Len(functionStack) \in 1..Len(functionStack)
  BY FrontOfSeq DEF EventsTyped
<1>3. functionStack[Len(functionStack)].callbackState \in States
  BY <1>2 DEF EventFunctions
<1> QED BY <1>1, <1>2, <1>3 DEF State

LEMMA InTopLevel ==
  Events!InTopLevelCallback <=> functionStack # <<>> /\ AtWork(Events!Current)
BY DEF Events!InTopLevelCallback, AtWork

(* With marks: a declaration or a plain assignment.                        *)
LEMMA Marks ==
  ASSUME EventsInv, NEW n \in Locals, NEW pattern \in BOOLEAN, NEW e \in Events!Expressions,
         Events!Bind(n, pattern, FALSE, e), Events!Mark(n, pattern, e)
  PROVE  EventsInv'
<1> DEFINE m == Len(functionStack)
<1>1. eventPath' = eventPath /\ trackedEvents' = trackedEvents
  BY DEF Events!Bind
<1>2. EventsTyped /\ Fits(envs, held, deep)
  BY DEF EventsInv, EventsTyped
<1>3. Fits(envs', held', deep') /\ Grows(held, deep, held', deep')
  BY <1>2, BindFits
<1>4. CASE ~ Events!InTopLevelCallback
  <2>1. functionStack' = functionStack
    BY <1>4 DEF Events!Mark
  <2>2. functionStack # <<>> => ~ AtWork(functionStack[m])
    BY <1>2, <1>4, InTopLevel, CurrentIs
  <2>3. functionStack # <<>> => Informed(functionStack'[m], envs', held', deep')
    BY <2>1, <2>2 DEF Informed
  <2> QED BY <1>1, <1>2, <1>3, <2>1, <2>3, Rebound DEF EventsTyped
<1>5. CASE Events!InTopLevelCallback
  <2> DEFINE marked == Events!Marked(State, n, pattern, Taint(e))
             f == [Events!Current EXCEPT !.callbackState = marked]
  <2>1. /\ functionStack # <<>> /\ AtWork(Events!Current) /\ Events!Current = functionStack[m]
        /\ Events!Current \in EventFunctions /\ State \in States
    BY <1>2, <1>5, InTopLevel, CurrentIs
  <2>2. Events!ClassifyNodeTaint(e) = Taint(e)
    BY Forms, TaintIs
  <2>3. functionStack' = Events!Front(functionStack) \o <<f>>
    BY <1>5, <2>2 DEF Events!Mark, State
  <2>4. marked \in States /\ marked.undefined = State.undefined
    BY <2>1 DEF Events!Marked, States
  <2>5. PICK top \in EventFunctions : top = Events!Current
    BY <2>1
  <2> HIDE DEF marked
  <2>6. f \in EventFunctions /\ f.callbackState = marked /\ f.callbackDepth = top.callbackDepth
    BY <2>4, <2>5 DEF EventFunctions
  <2>7. AtWork(f)
    BY <2>1, <2>4, <2>5, <2>6 DEF AtWork, State
  <2>8. Informed(Events!Current, envs, held, deep)
    BY <2>1 DEF EventsInv, Knowing
  <2>9. Knows(State, envs, held, deep)
    BY <2>1, <2>8 DEF Informed, State
  <2>10. Knows(marked, envs', held', deep')
    BY <1>2, <2>1, <2>9, MarkKnows DEF marked
  <2> HIDE DEF f
  <2>11. Informed(f, envs', held', deep')
    BY <2>6, <2>10 DEF Informed
  <2>12. /\ functionStack' \in Seq(EventFunctions) /\ Len(functionStack') = m /\ functionStack'[m] = f
         /\ \A k \in 1..m - 1 : functionStack'[k] = functionStack[k]
    BY <1>2, <2>1, <2>3, <2>6, Replaced DEF EventsTyped
  <2> QED BY <1>1, <1>3, <2>1, <2>7, <2>11, <2>12, Rebound
<1> QED BY <1>4, <1>5

(* Without: a compound assignment.                                         *)
LEMMA Compounds ==
  ASSUME EventsInv, NEW n \in Locals, NEW e \in Events!Expressions, Events!CompoundAssignment(n, e)
  PROVE  EventsInv'
<1> DEFINE m == Len(functionStack)
<1>1. Events!Bind(n, FALSE, TRUE, e) /\ functionStack' = functionStack /\ eventPath' = eventPath /\ trackedEvents' = trackedEvents
  BY DEF Events!CompoundAssignment, Events!Bind
<1>2. EventsTyped /\ Fits(envs, held, deep)
  BY DEF EventsInv, EventsTyped
<1>3. Fits(envs', held', deep') /\ Grows(held, deep, held', deep') /\ Assigns(n, FALSE, TRUE, e)
  BY <1>1, <1>2, BindFits, BindIs
<1>4. envs \subseteq envs'
  <2> SUFFICES ASSUME NEW env \in envs PROVE env \in envs'
    OBVIOUS
  <2>1. env \in [Locals -> Events!Values]
    BY <1>2 DEF Fits
  <2>2. env[n] \in AfterIt(n, FALSE, TRUE, e, env)
    BY DEF AfterIt
  <2>3. [env EXCEPT ![n] = env[n]] \in envs'
    BY <1>3, <2>2 DEF Assigns
  <2>4. [env EXCEPT ![n] = env[n]] = env
    BY <2>1
  <2> QED BY <2>3, <2>4
<1>5. functionStack # <<>> => Informed(functionStack[m], envs', held', deep')
  <2>1. SUFFICES ASSUME functionStack # <<>> PROVE Informed(functionStack[m], envs', held', deep')
    OBVIOUS
  <2>2. functionStack[m] \in EventFunctions
    BY <1>2, <2>1, CurrentIs
  <2>3. Informed(functionStack[m], envs, held, deep)
    BY <2>1 DEF EventsInv, Knowing
  <2> QED BY <1>3, <1>4, <2>2, <2>3, InformedMore
<1> QED BY <1>1, <1>2, <1>3, <1>5, Rebound DEF EventsTyped
(* What the stack gets for a function, or for a callback before the import: *)
(* nothing of it is at work.                                               *)
LEMMA NestedIdle ==
  ASSUME EventsTyped
  PROVE  Events!Nested \in EventFunctions /\ ~ AtWork(Events!Nested)
<1>1. CASE functionStack = <<>> \/ Events!Current.callbackState.undefined
  <2>1. Events!Nested = Events!Function(0, Events!NoState)
    BY <1>1 DEF Events!Nested
  <2>2. Events!NoState \in States /\ Events!NoState.undefined
    BY DEF Events!NoState, States
  <2> QED BY <2>1, <2>2 DEF Events!Function, EventFunctions, AtWork
<1>2. CASE ~ (functionStack = <<>> \/ Events!Current.callbackState.undefined)
  <2>1. PICK f \in EventFunctions : f = Events!Current
    BY <1>2, CurrentIs
  <2>2. Events!Nested = [f EXCEPT !.callbackDepth = @ + 1] /\ f.callbackDepth \in Nat
    BY <1>2, <2>1 DEF Events!Nested, EventFunctions
  <2>3. Events!Nested \in EventFunctions /\ Events!Nested.callbackDepth = f.callbackDepth + 1
    BY <2>2 DEF EventFunctions
  <2>4. f.callbackDepth + 1 # 0
    BY <2>2
  <2> QED BY <2>3, <2>4 DEF AtWork
<1> QED BY <1>1, <1>2

LEMMA Enters ==
  ASSUME EventsInv, Events!OnFunctionEnter
  PROVE  EventsInv'
<1>1. /\ eventPath' = Append(eventPath, Events!Node("function"))
      /\ functionStack' = Append(functionStack, Events!Nested) /\ trackedEvents' = trackedEvents
      /\ envs' = envs /\ held' = held /\ deep' = deep
  BY DEF Events!OnFunctionEnter, Events!Open, Events!executions
<1>2. PICK f \in EventFunctions : f = Events!Nested /\ ~ AtWork(f)
  BY NestedIdle DEF EventsInv
<1>3. Fits(envs', held', deep') /\ Grows(held, deep, held', deep')
  BY <1>1 DEF EventsInv, EventsTyped, Grows
<1>4. Informed(f, envs', held', deep')
  BY <1>2 DEF Informed
<1>5. functionStack' = Append(functionStack, f)
  BY <1>1, <1>2
<1> QED BY <1>1, <1>2, <1>3, <1>4, <1>5, FunctionOpens

(* The executions of a callback that has just been called.                 *)
LEMMA Called ==
  ASSUME NEW n \in Locals, NEW parameter \in {"name", "pattern", "none"}, Events!Connect(n, parameter)
  PROVE  /\ Fits(envs', held', deep')
         /\ Knows([values |-> Events!Seeds(parameter, n), containers |-> {}, undefined |-> FALSE],
                  envs', held', deep')
<1> DEFINE got == Events!Received(parameter)
           s == [values |-> Events!Seeds(parameter, n), containers |-> {}, undefined |-> FALSE]
<1>1. /\ envs' = {[Events!Nowhere EXCEPT ![n] = v] : v \in got}
      /\ held' = [m \in Locals |-> IF m = n THEN got ELSE {"other"}]
      /\ deep' = FALSE
  BY DEF Events!Connect
<1>2. /\ got \in SUBSET {"player", "other"} /\ got # {} /\ got \in SUBSET Events!Values
      /\ parameter # "none" => "player" \in got
      /\ parameter = "none" => got = {"other"}
  BY ValuesOf DEF Events!Received
<1>3. s.values = (IF parameter = "none" THEN {} ELSE {n}) /\ s.containers = {}
  BY DEF Events!Seeds
<1> HIDE DEF got, s
<1>4. Events!Nowhere \in [Locals -> Events!Values] /\ \A m \in Locals : Events!Nowhere[m] = "other"
  BY ValuesOf DEF Events!Nowhere
<1>5. \A env \in envs' :
        /\ env \in [Locals -> Events!Values] /\ env[n] \in got
        /\ \A m \in Locals : m # n => env[m] = "other"
  <2> SUFFICES ASSUME NEW env \in envs'
               PROVE  /\ env \in [Locals -> Events!Values] /\ env[n] \in got
                      /\ \A m \in Locals : m # n => env[m] = "other"
    OBVIOUS
  <2>1. PICK v \in got : env = [Events!Nowhere EXCEPT ![n] = v]
    BY <1>1
  <2>2. v \in Events!Values /\ env \in [Locals -> Events!Values]
    BY <1>2, <1>4, <2>1
  <2>3. env[n] = v
    BY <1>4, <2>1
  <2>4. \A m \in Locals : m # n => env[m] = Events!Nowhere[m]
    BY <1>4, <2>1
  <2> QED BY <1>4, <2>1, <2>2, <2>3, <2>4
<1>6. PICK some : some \in envs'
  <2>1. PICK v \in got : TRUE
    BY <1>2
  <2>2. [Events!Nowhere EXCEPT ![n] = v] \in envs'
    BY <1>1, <2>1
  <2> QED BY <2>2
<1>7. held' \in Holdings /\ \A m \in Locals : held'[m] = IF m = n THEN got ELSE {"other"}
  <2>1. {"other"} \in SUBSET Events!Values
    BY ValuesOf
  <2> QED BY <1>1, <1>2, <2>1 DEF Holdings
<1>8. \A env \in envs', m \in Locals : env[m] \in held'[m]
  BY <1>5, <1>7
<1>9. \A m \in Locals : "nest" \notin held'[m]
  BY <1>2, <1>7
<1>10. Fits(envs', held', deep')
  BY <1>1, <1>5, <1>6, <1>7, <1>8, <1>9 DEF Fits
<1>11. MayBe(s, held')
  BY <1>2, <1>3, <1>7 DEF MayBe
<1>12. NeedNotBe(s, envs')
  <2>1. \A m \in Locals : some[m] # "box"
    BY <1>2, <1>5, <1>6
  <2>2. \A m \in Locals \ s.values : some[m] = "other"
    BY <1>2, <1>3, <1>5, <1>6
  <2> QED BY <1>6, <2>1, <2>2 DEF NeedNotBe
<1> QED BY <1>10, <1>11, <1>12 DEF Knows, s

LEMMA Connects ==
  ASSUME EventsInv, NEW n \in Locals, NEW parameter \in {"name", "pattern", "none"}, Events!Connect(n, parameter)
  PROVE  EventsInv'
<1> DEFINE s == [values |-> Events!Seeds(parameter, n), containers |-> {}, undefined |-> FALSE]
           g == IF trackedEvents THEN Events!Function(0, s) ELSE Events!Nested
<1>1. /\ eventPath' = Append(eventPath, Events!Node("callback")) /\ functionStack' = Append(functionStack, g)
      /\ trackedEvents' = trackedEvents
  BY DEF Events!Connect, Events!Open
<1>2. Fits(envs', held', deep') /\ Knows(s, envs', held', deep')
  BY Called
<1>3. s \in States /\ ~ s.undefined
  BY DEF States, Events!Seeds
<1>4. trackedEvents \in BOOLEAN
  BY DEF EventsInv, EventsTyped
<1> HIDE DEF s
<1>5. /\ g \in EventFunctions
      /\ AtWork(g) <=> trackedEvents
      /\ Informed(g, envs', held', deep')
  <2>1. CASE trackedEvents
    <3>1. g = [callbackDepth |-> 0, callbackState |-> s]
      BY <2>1 DEF Events!Function
    <3> QED BY <1>2, <1>3, <2>1, <3>1 DEF EventFunctions, AtWork, Informed
  <2>2. CASE ~ trackedEvents
    <3>1. g = Events!Nested
      BY <2>2
    <3> QED BY <2>2, <3>1, NestedIdle DEF Informed, EventsInv
  <2> QED BY <1>4, <2>1, <2>2
<1> HIDE DEF g
<1>6. PICK f \in EventFunctions : f = g
  BY <1>5
<1> QED BY <1>1, <1>2, <1>5, <1>6, FunctionOpens

LEMMA Exits ==
  ASSUME EventsInv, Events!OnFunctionExit \/ Events!ConnectExit
  PROVE  EventsInv'
<1> DEFINE x == eventPath[Len(eventPath)]
<1>1. /\ eventPath # <<>> /\ x.kind \in {"function", "callback"} /\ eventPath' = Events!Front(eventPath)
      /\ functionStack' = Events!Front(functionStack) /\ trackedEvents' = trackedEvents
  BY DEF Events!OnFunctionExit, Events!ConnectExit, Events!Leaves, Events!Last
<1>2. Fits(envs', held', deep') /\ x.envs \subseteq envs' /\ Grows(x.held, x.deep, held', deep')
  <2>1. CASE Events!OnFunctionExit
    <3>1. x.kind # "callback" /\ Events!Joined
      BY <2>1 DEF Events!OnFunctionExit, Events!Leaves, Events!Last
    <3> QED BY <1>1, <3>1, Joins DEF EventsInv
  <2>2. CASE Events!ConnectExit
    <3>1. envs' = x.envs /\ held' = x.held /\ deep' = x.deep
      BY <2>2 DEF Events!ConnectExit, Events!Last
    <3>2. Len(eventPath) \in 1..Len(eventPath)
      BY <1>1, EmptySeq DEF EventsInv, EventsTyped
    <3>3. Fits(x.envs, x.held, x.deep)
      BY <3>2 DEF EventsInv, EventsTyped
    <3> QED BY <3>1, <3>3 DEF Grows
  <2> QED BY <2>1, <2>2
<1> QED BY <1>1, <1>2, FunctionCloses

(* The import is met, at the top of the file; nothing is at work yet.      *)
LEMMA Imports ==
  ASSUME EventsInv, Events!ImportDeclaration
  PROVE  EventsInv'
<1>1. /\ eventPath = <<>> /\ eventPath' = eventPath /\ trackedEvents' = TRUE /\ functionStack' = functionStack
      /\ envs' = envs /\ held' = held /\ deep' = deep
  BY DEF Events!ImportDeclaration, Events!file, Events!executions
<1>2. EventsTyped' /\ Lasting'
  <2>1. \A i \in 1..Len(eventPath) : eventPath[i].early => TRUE
    OBVIOUS
  <2> QED BY <1>1, <2>1 DEF EventsInv, EventsTyped, Lasting
<1>3. PICK place \in [1..Len(functionStack) -> 1..Len(eventPath)] : Stands(place) /\ Knowing(place)
  BY DEF EventsInv
<1>4. Stands(place)' /\ Knowing(place)'
  BY <1>1, <1>3 DEF Stands, Knowing
<1> QED BY <1>1, <1>2, <1>3, <1>4 DEF EventsInv

LEMMA EventsNextInv == EventsInv /\ [Events!Next]_Events!vars => EventsInv'
<1> SUFFICES ASSUME EventsInv, [Events!Next]_Events!vars PROVE EventsInv'
  OBVIOUS
<1>1. CASE Events!ImportDeclaration
  BY <1>1, Imports
<1>2. CASE Events!If
  BY <1>2, IfOpens
<1>3. CASE Events!EndIf
  BY <1>3, IfCloses
<1>4. CASE Events!OnFunctionEnter
  BY <1>4, Enters
<1>5. CASE Events!OnFunctionExit \/ Events!ConnectExit
  BY <1>5, Exits
<1>6. ASSUME NEW n \in Locals, NEW parameter \in {"name", "pattern", "none"}, Events!Connect(n, parameter)
      PROVE  EventsInv'
  BY <1>6, Connects
<1>7. ASSUME NEW n \in Locals, NEW e \in Events!Expressions, Events!CompoundAssignment(n, e)
      PROVE  EventsInv'
  BY <1>7, Compounds
<1>8. ASSUME NEW n \in Locals, NEW e \in Events!Expressions, NEW pattern \in BOOLEAN,
             Events!VariableDeclarator(n, pattern, e) \/ Events!AssignmentExpression(n, pattern, e)
      PROVE  EventsInv'
  BY <1>8, Marks DEF Events!VariableDeclarator, Events!AssignmentExpression
<1>9. CASE UNCHANGED Events!vars
  <2>1. /\ eventPath' = eventPath /\ functionStack' = functionStack /\ trackedEvents' = trackedEvents
        /\ envs' = envs /\ held' = held /\ deep' = deep
    BY <1>9 DEF Events!vars, Events!file, Events!executions
  <2>2. PICK place \in [1..Len(functionStack) -> 1..Len(eventPath)] : Stands(place) /\ Knowing(place)
    BY DEF EventsInv
  <2>3. Stands(place)' /\ Knowing(place)'
    BY <2>1, <2>2 DEF Stands, Knowing
  <2>4. EventsTyped' /\ Lasting'
    BY <2>1 DEF EventsInv, EventsTyped, Lasting
  <2> QED BY <2>1, <2>2, <2>3, <2>4 DEF EventsInv
<1> QED BY <1>1, <1>2, <1>3, <1>4, <1>5, <1>6, <1>7, <1>8, <1>9 DEF Events!Next

-----------------------------------------------------------------------------
(* The rule is at work where a callback that was connected after the       *)
(* import is the innermost function.                                       *)
LEMMA WhereItWorks ==
  ASSUME EventsInv
  PROVE  Events!InCallback <=> Events!InTopLevelCallback
<1> DEFINE n == Len(eventPath)
           m == Len(functionStack)
<1>1. n \in Nat /\ m \in Nat /\ DOMAIN eventPath = 1..n /\ (functionStack # <<>> <=> m # 0)
  BY EmptySeq DEF EventsInv, EventsTyped
<1>2. PICK place \in [1..m -> 1..n] : Stands(place)
  BY DEF EventsInv
<1>3. /\ \A k, l \in 1..m : k < l => place[k] < place[l]
      /\ \A i \in 1..n : eventPath[i].kind # "if" => \E k \in 1..m : place[k] = i
      /\ \A k \in 1..m :
           /\ eventPath[place[k]].kind # "if"
           /\ AtWork(functionStack[k]) <=> eventPath[place[k]].kind = "callback" /\ eventPath[place[k]].early
  BY <1>2 DEF Stands
<1>4. Events!InTopLevelCallback <=> m # 0 /\ AtWork(functionStack[m])
  BY <1>1, InTopLevel, CurrentIs DEF EventsInv
<1>5. Events!InCallback <=>
        \E i \in 1..n : /\ eventPath[i].kind # "if" /\ \A j \in i + 1..n : eventPath[j].kind = "if"
                        /\ eventPath[i].kind = "callback" /\ eventPath[i].early
  BY <1>1 DEF Events!InCallback, Events!IsInnermost
<1> HIDE DEF m, n
<1>6. \A k \in 1..m : place[k] \in 1..n
  BY <1>2
<1>7. ASSUME NEW i \in 1..n, eventPath[i].kind # "if", \A j \in i + 1..n : eventPath[j].kind = "if",
             eventPath[i].kind = "callback", eventPath[i].early
      PROVE  m # 0 /\ AtWork(functionStack[m])
  <2>1. PICK k \in 1..m : place[k] = i
    BY <1>3, <1>7
  <2>2. m \in 1..m /\ m # 0
    BY <1>1, <2>1
  <2>3. k < m => place[m] \in i + 1..n
    <3>1. k < m => place[k] < place[m]
      BY <1>3, <2>2
    <3>2. place[m] \in 1..n
      BY <1>6, <2>2
    <3> QED BY <2>1, <3>1, <3>2
  <2>4. k = m
    <3>1. eventPath[place[m]].kind # "if"
      BY <1>3, <2>2
    <3>2. ~ k < m
      BY <1>7, <2>3, <3>1
    <3> QED BY <1>1, <3>2
  <2> QED BY <1>3, <1>7, <2>1, <2>2, <2>4
<1>8. ASSUME m # 0, AtWork(functionStack[m])
      PROVE  \E i \in 1..n : /\ eventPath[i].kind # "if" /\ \A j \in i + 1..n : eventPath[j].kind = "if"
                             /\ eventPath[i].kind = "callback" /\ eventPath[i].early
  <2>1. m \in 1..m /\ place[m] \in 1..n
    BY <1>1, <1>6, <1>8
  <2>2. eventPath[place[m]].kind # "if" /\ eventPath[place[m]].kind = "callback" /\ eventPath[place[m]].early
    BY <1>3, <1>8, <2>1
  <2>3. ASSUME NEW j \in place[m] + 1..n PROVE eventPath[j].kind = "if"
    <3>1. j \in 1..n /\ place[m] < j
      BY <1>1, <2>1
    <3>2. SUFFICES ASSUME eventPath[j].kind # "if" PROVE FALSE
      OBVIOUS
    <3>3. PICK k \in 1..m : place[k] = j
      BY <1>3, <3>1, <3>2
    <3>4. k < m => place[k] < place[m]
      BY <1>3, <2>1
    <3>5. k < m \/ k = m
      BY <1>1
    <3>6. CASE k = m
      BY <2>1, <3>1, <3>3, <3>6
    <3>7. CASE k < m
      BY <2>1, <3>1, <3>3, <3>4, <3>7
    <3> QED BY <3>5, <3>6, <3>7
  <2> QED BY <2>1, <2>2, <2>3
<1> QED BY <1>4, <1>5, <1>7, <1>8

LEMMA EventsInvIsRight == EventsInv => Events!SentBackIsReported
<1> SUFFICES ASSUME EventsInv, NEW e \in Events!Expressions
             PROVE  /\ Events!InCallback /\ ~ deep /\ ~ Events!Ambiguous
                         /\ (\A env \in envs : Events!Means(e, env) = {"player"}) => Events!Reported(e)
                    /\ Events!Reported(e) /\ ~ deep => Events!InCallback /\ "player" \in Events!MayMean(e)
  BY DEF Events!SentBackIsReported
<1>1. Fits(envs, held, deep) /\ EventsTyped
  BY DEF EventsInv, EventsTyped
<1>2. Events!ClassifyNodeTaint(e) = Taint(e)
  BY Forms, TaintIs
<1>3. Events!InCallback <=> Events!InTopLevelCallback
  BY WhereItWorks
<1>4. Events!Ambiguous = Mixing(held)
  BY DEF Events!Ambiguous, Mixing
<1>5. Events!InCallback => trackedEvents
  <2>1. DOMAIN eventPath = 1..Len(eventPath)
    BY <1>1 DEF EventsTyped
  <2> QED BY <1>1, <2>1 DEF Events!InCallback, EventsTyped
<1>6. ASSUME Events!InTopLevelCallback, ~ deep
      PROVE  MayBe(State, held) /\ (Mixing(held) \/ NeedNotBe(State, envs))
  <2>1. functionStack # <<>> /\ AtWork(Events!Current) /\ Events!Current = functionStack[Len(functionStack)]
    BY <1>1, <1>6, InTopLevel, CurrentIs
  <2>2. Informed(Events!Current, envs, held, deep)
    BY <2>1 DEF EventsInv, Knowing
  <2>3. Knows(State, envs, held, deep)
    BY <2>1, <2>2 DEF Informed, State
  <2> QED BY <1>6, <2>3 DEF Knows
<1>7. ASSUME Events!InCallback, ~ deep, ~ Events!Ambiguous, \A env \in envs : Events!Means(e, env) = {"player"}
      PROVE  Events!Reported(e)
  <2>1. Taint(e) # "value" => \E env \in envs : \E v \in Events!Means(e, env) : v # "player"
    BY <1>1, <1>3, <1>4, <1>6, <1>7, Cleared
  <2>2. Taint(e) = "value"
    BY <1>7, <2>1
  <2> QED BY <1>2, <1>3, <1>5, <1>7, <2>2 DEF Events!Reported
<1>8. ASSUME Events!Reported(e), ~ deep
      PROVE  Events!InCallback /\ "player" \in Events!MayMean(e)
  <2>1. Events!InTopLevelCallback /\ Taint(e) = "value"
    BY <1>2, <1>8 DEF Events!Reported
  <2>2. MayBe(State, held)
    BY <1>6, <1>8, <2>1
  <2> QED BY <1>1, <1>3, <2>1, <2>2, Suspected
<1> QED BY <1>7, <1>8

(* SentEvents.tla by itself and as a part of the instance say the same.    *)
LEMMA SameMeaning ==
  /\ Events!Expressions = Expressions
  /\ \A e, env : Events!Means(e, env) = Means(e, env)
  /\ \A e : Events!MayMean(e) = MayMean(e)
<1>1. Events!Expressions = Expressions
  BY DEF Events!Expressions, Expressions
<1>2. Events!Values = Values
  BY DEF Events!Values, Values
<1>3. \A v : Events!Members(v) = Members(v)
  BY DEF Events!Members, Members
<1>4. \A v, c : Events!Contained(v, c) = Contained(v, c)
  BY DEF Events!Contained, Contained
<1>5. \A e, env : Events!Means(e, env) = Means(e, env)
  BY <1>3, <1>4 DEF Events!Means, Means
<1>6. \A e : Events!MayMean(e) = MayMean(e)
  BY <1>2, <1>5 DEF Events!MayMean, MayMean
<1> QED
  BY <1>1, <1>5, <1>6

LEMMA SameReports ==
  /\ \A e : Events!Reported(e) <=> Reported(e)
  /\ Events!InCallback <=> InCallback
  /\ Events!Ambiguous <=> Ambiguous
<1>1. Events!Current = Current
  BY DEF Events!Current, Current, Events!Last, Last
<1>2. \A n : Events!Kind(n) = Kind(n)
  BY <1>1 DEF Events!Kind, Kind
<1>3. \A e : Events!ClassifyNodeTaint(e) = ClassifyNodeTaint(e)
  BY <1>2 DEF Events!ClassifyNodeTaint, ClassifyNodeTaint, Events!ClassifyMember, ClassifyMember,
              Events!ClassifyConditional, ClassifyConditional, Events!ClassifyContainer,
              ClassifyContainer
<1>4. \A e : Events!Reported(e) <=> Reported(e)
  BY <1>1, <1>3 DEF Events!Reported, Reported, Events!InTopLevelCallback, InTopLevelCallback
<1>5. Events!InCallback <=> InCallback
  BY DEF Events!InCallback, InCallback, Events!IsInnermost, IsInnermost
<1>6. Events!Ambiguous <=> Ambiguous
  BY DEF Events!Ambiguous, Ambiguous
<1> QED
  BY <1>4, <1>5, <1>6

LEMMA SameProperty == Events!SentBackIsReported <=> SentBackIsReported
BY SameMeaning, SameReports DEF Events!SentBackIsReported, SentBackIsReported

(* For files of any size and any number of variables: an event that the    *)
(* callback of an event sends back to its player is reported, through      *)
(* whatever variables, containers, branches and nested functions the       *)
(* player went, and what is reported may be sent back.                     *)
THEOREM SentBackIsFound == Events!Spec => []SentBackIsReported
<1>1. EventsInv /\ [Events!Next]_Events!vars => EventsInv'
  BY EventsNextInv
<1>2. Events!Spec => []EventsInv
  BY <1>1, EventsInitInv, PTL DEF Events!Spec
<1>3. EventsInv => SentBackIsReported
  BY EventsInvIsRight, SameProperty
<1> QED BY <1>2, <1>3, PTL
=============================================================================
