------------------------ MODULE HookTopLevelProofs -------------------------
(***************************************************************************)
(* Proofs about HookTopLevel.tla, for any functions, hooks, options and    *)
(* imports and walks of any depth: the reports of use-hook-at-top-level    *)
(* are justified, and on regular walks complete.                           *)
(*                                                                         *)
(* The rule's stack of contexts is not the stack of open functions: a      *)
(* callback in a callback pushes nothing and pops what is not its own. The *)
(* invariant therefore relates the number of contexts to the nesting on    *)
(* the path, and the lowest context to the outermost component, whatever   *)
(* the contexts between have become.                                       *)
(***************************************************************************)
EXTENDS HookTopLevel, FiniteSetTheorems, SequenceTheorems, TLAPS

(* The nodes of the walk, and the parts each kind of them goes through.    *)
Parts(kind) == CASE kind = "conditional" -> {"test", "branch"}
                 [] kind = "try" -> {"block", "finally"}
                 [] OTHER -> {"body"}
Frames == {f \in [kind : Kinds \cup {"function"}, part : {"test", "branch", "block", "finally", "body"},
                  shape : Functions \cup {NoName}, returned : BOOLEAN] : f.part \in Parts(f.kind)}

(* The components and hooks on a path; the functions in them, themselves   *)
(* included; the outermost component or hook.                              *)
HookishIn(p) == {i \in FunctionsIn(p) : p[i].shape.hookish}
Inside(p) == {j \in FunctionsIn(p) : \E i \in HookishIn(p) : i <= j}
Nesting(p) == Cardinality(Inside(p))
IsHome(p, h) == h \in HookishIn(p) /\ \A i \in HookishIn(p) : h <= i
(* The nodes in function h that are in no function inside it.              *)
Segment(p, h) == {i \in 1..Len(p) : h < i /\ \A j \in FunctionsIn(p) : j <= i => j <= h}
(* The name of the innermost named function among the first n nodes, and   *)
(* how many functions there are among them.                                *)
NameWithin(p, n) ==
  LET named == {i \in FunctionsIn(p) : i <= n /\ p[i].shape.name # NoName}
  IN  IF named = {} THEN NoName
      ELSE p[CHOOSE i \in named : \A j \in named : j <= i].shape.name
Count(p, n) == Cardinality({j \in FunctionsIn(p) : j <= n})

(* A set of numbers up to n has a greatest one: the choices of             *)
(* HookTopLevel are of such sets.                                          *)
LEMMA GreatestExists ==
  ASSUME NEW n \in Nat, NEW T \in SUBSET (1 .. n), T # {}
  PROVE  LET m == CHOOSE i \in T : \A j \in T : j <= i
         IN  m \in T /\ \A j \in T : j <= m
<1> DEFINE M == {m \in Nat : \A j \in T : j <= m}
<1>0. \A j \in T : j \in Nat /\ 1 <= j /\ j <= n
  OBVIOUS
<1>1. n \in M
  BY <1>0
<1>2. PICK m \in M : \A k \in M : m <= k
  <2> DEFINE less == OpToRel(<, Nat)
  <2>1. M \subseteq Nat /\ M # {}
    BY <1>1
  <2>2. IsWellFoundedOn(less, Nat)
    BY NatLessThanWellFounded
  <2>3. \A x, y \in Nat : y < x => <<y, x>> \in less
    BY DEF OpToRel
  <2> HIDE DEF M, less
  <2>4. PICK m \in M : \A k \in M : ~ (<<k, m>> \in less)
    BY <2>1, <2>2, WFMin
  <2>5. \A k \in M : ~ (k < m)
    BY <2>1, <2>3, <2>4
  <2>6. \A k \in M : m <= k
    BY <2>1, <2>5
  <2> QED
    BY <2>6
<1>3. m \in T
  <2> SUFFICES ASSUME m \notin T
               PROVE  FALSE
    OBVIOUS
  <2>1. \A j \in T : j \in Nat /\ j <= m /\ j # m /\ 1 <= j
    BY <1>0
  <2>2. m \in Nat /\ m # 0
    <3>1. PICK j \in T : TRUE
      OBVIOUS
    <3> QED
      BY <2>1, <3>1
  <2>3. m - 1 \in Nat /\ \A j \in T : j <= m - 1
    BY <2>1, <2>2
  <2>4. m - 1 \in M
    BY <2>3
  <2> QED
    BY <1>2, <2>2, <2>4
<1> QED
  BY <1>3

(* What Innermost returns.                                                 *)
LEMMA InnermostType ==
  ASSUME NEW p \in Seq(Frames)
  PROVE  /\ FunctionsIn(p) = {} => Innermost(p) = 0
         /\ FunctionsIn(p) # {} =>
              Innermost(p) \in FunctionsIn(p) /\ \A j \in FunctionsIn(p) : j <= Innermost(p)
<1>1. Len(p) \in Nat /\ FunctionsIn(p) \in SUBSET (1 .. Len(p))
  BY DEF FunctionsIn
<1> QED
  BY <1>1, GreatestExists DEF Innermost

(* The functions of a path can be counted.                                 *)
LEMMA PathsAreFinite ==
  ASSUME NEW p \in Seq(Frames)
  PROVE  /\ FunctionsIn(p) \subseteq 1 .. Len(p)
         /\ IsFiniteSet(FunctionsIn(p)) /\ Cardinality(FunctionsIn(p)) \in Nat
         /\ IsFiniteSet(Inside(p)) /\ Nesting(p) \in Nat
         /\ \A n : IsFiniteSet({j \in FunctionsIn(p) : j <= n}) /\ Count(p, n) \in Nat
         /\ \A i \in FunctionsIn(p) : Count(p, i) \in 1..Cardinality(FunctionsIn(p))
<1>1. Len(p) \in Nat /\ FunctionsIn(p) \in SUBSET (1 .. Len(p))
  BY DEF FunctionsIn
<1>2. IsFiniteSet(1 .. Len(p))
  BY <1>1, FS_Interval
<1>3. IsFiniteSet(FunctionsIn(p))
  BY <1>1, <1>2, FS_Subset
<1>4. \A T \in SUBSET FunctionsIn(p) :
        IsFiniteSet(T) /\ Cardinality(T) \in Nat /\ Cardinality(T) <= Cardinality(FunctionsIn(p))
  BY <1>3, FS_Subset, FS_CardinalityType
<1>5. IsFiniteSet(Inside(p)) /\ Nesting(p) \in Nat
  BY <1>4 DEF Inside, Nesting
<1>6. \A n : IsFiniteSet({j \in FunctionsIn(p) : j <= n}) /\ Count(p, n) \in Nat /\ Count(p, n) <= Cardinality(FunctionsIn(p))
  BY <1>4 DEF Count
<1>7. ASSUME NEW i \in FunctionsIn(p)
      PROVE  Count(p, i) \in 1..Cardinality(FunctionsIn(p))
  <2>1. i \in {j \in FunctionsIn(p) : j <= i}
    BY <1>1
  <2>2. Count(p, i) # 0
    <3>1. IsFiniteSet({j \in FunctionsIn(p) : j <= i})
      BY <1>6
    <3>2. Cardinality({j \in FunctionsIn(p) : j <= i}) # 0
      BY <2>1, <3>1, FS_EmptySet
    <3> QED
      BY <3>2 DEF Count
  <2>3. Count(p, i) \in Nat /\ Count(p, i) <= Cardinality(FunctionsIn(p))
    BY <1>6
  <2>4. Cardinality(FunctionsIn(p)) \in Nat
    BY <1>4
  <2> QED
    BY <2>2, <2>3, <2>4
<1>8. Cardinality(FunctionsIn(p)) \in Nat
  BY <1>4
<1> QED
  BY <1>1, <1>3, <1>5, <1>6, <1>7, <1>8

(* Two paths whose first n nodes are of the same kinds and shapes agree on *)
(* these nodes.                                                            *)
Agree(p, q, n) == \A i \in 1..n : p[i].kind = q[i].kind /\ p[i].shape = q[i].shape

(* Paths that agree on their first n nodes have the same functions,        *)
(* nesting and names among them.                                           *)
LEMMA Agreeing ==
  ASSUME NEW p \in Seq(Frames), NEW q \in Seq(Frames), NEW n \in Nat,
         n <= Len(p), n <= Len(q), Agree(p, q, n)
  PROVE  /\ \A i \in 1..n : i \in FunctionsIn(p) <=> i \in FunctionsIn(q)
         /\ \A i \in 1..n : i \in HookishIn(p) <=> i \in HookishIn(q)
         /\ \A i \in 1..n : i \in Inside(p) <=> i \in Inside(q)
         /\ \A m \in 0..n : Count(p, m) = Count(q, m)
         /\ \A m \in 0..n : NameWithin(p, m) = NameWithin(q, m)
<1>0. Len(p) \in Nat /\ Len(q) \in Nat
  OBVIOUS
<1>1. \A i \in 1..n : i \in FunctionsIn(p) <=> i \in FunctionsIn(q)
  BY <1>0 DEF FunctionsIn, Agree
<1>2. \A i \in 1..n : i \in HookishIn(p) <=> i \in HookishIn(q)
  BY <1>1 DEF HookishIn, Agree
<1>3. \A i \in HookishIn(p) \cup HookishIn(q) : i \in Nat /\ i >= 1
  BY <1>0 DEF HookishIn, FunctionsIn
<1>4. \A i \in 1..n : i \in Inside(p) <=> i \in Inside(q)
  BY <1>1, <1>2, <1>3 DEF Inside
<1>5. ASSUME NEW m \in 0..n
      PROVE  Count(p, m) = Count(q, m) /\ NameWithin(p, m) = NameWithin(q, m)
  <2> DEFINE fp == {j \in FunctionsIn(p) : j <= m}
             fq == {j \in FunctionsIn(q) : j <= m}
             np == {i \in FunctionsIn(p) : i <= m /\ p[i].shape.name # NoName}
             nq == {i \in FunctionsIn(q) : i <= m /\ q[i].shape.name # NoName}
  <2>1. \A i \in FunctionsIn(p) \cup FunctionsIn(q) : i \in Nat /\ i >= 1
    BY <1>0 DEF FunctionsIn
  <2>2. fp = fq /\ np = nq
    BY <1>1, <2>1 DEF Agree
  <2>3. Count(p, m) = Count(q, m)
    BY <2>2 DEF Count
  <2>4. np # {} => (CHOOSE i \in np : \A j \in np : j <= i) \in 1..n
    <3>1. np \in SUBSET (1 .. n)
      BY <2>1
    <3> HIDE DEF np
    <3> QED
      BY <3>1, GreatestExists
  <2>5. NameWithin(p, m) = NameWithin(q, m)
    <3>1. NameWithin(p, m) = IF np = {} THEN NoName ELSE p[CHOOSE i \in np : \A j \in np : j <= i].shape.name
      BY DEF NameWithin
    <3>2. NameWithin(q, m) = IF nq = {} THEN NoName ELSE q[CHOOSE i \in nq : \A j \in nq : j <= i].shape.name
      BY DEF NameWithin
    <3> HIDE DEF np, nq
    <3> QED
      BY <2>2, <2>4, <3>1, <3>2 DEF Agree
  <2> QED
    BY <2>3, <2>5
<1> QED
  BY <1>1, <1>2, <1>4, <1>5

-----------------------------------------------------------------------------
(* q is p with one more node.                                              *)
Longer(p, q) ==
  /\ p \in Seq(Frames) /\ q \in Seq(Frames)
  /\ Len(q) = Len(p) + 1
  /\ Agree(p, q, Len(p))

(* One more node that is not a function changes only what lies in the      *)
(* innermost function.                                                     *)
LEMMA LongerByOther ==
  ASSUME NEW p, NEW q, Longer(p, q), q[Len(q)].kind # "function"
  PROVE  /\ FunctionsIn(q) = FunctionsIn(p) /\ HookishIn(q) = HookishIn(p) /\ Inside(q) = Inside(p)
         /\ Innermost(q) = Innermost(p)
         /\ NameWithin(q, Len(q)) = NameWithin(p, Len(p))
         /\ \A h \in FunctionsIn(p) :
              Segment(q, h) = Segment(p, h) \cup {i \in {Len(q)} : h = Innermost(p)}
<1> DEFINE n == Len(p)
<1>1. p \in Seq(Frames) /\ q \in Seq(Frames) /\ n \in Nat /\ Len(q) = n + 1 /\ Agree(p, q, n)
  BY DEF Longer
<1>2. /\ \A i \in 1..n : i \in FunctionsIn(p) <=> i \in FunctionsIn(q)
      /\ \A i \in 1..n : i \in HookishIn(p) <=> i \in HookishIn(q)
      /\ \A i \in 1..n : i \in Inside(p) <=> i \in Inside(q)
  BY <1>1, Agreeing
<1>3. FunctionsIn(p) \subseteq 1..n /\ FunctionsIn(q) \subseteq 1..n
  BY <1>1 DEF FunctionsIn
<1>4. HookishIn(p) \subseteq FunctionsIn(p) /\ HookishIn(q) \subseteq FunctionsIn(q)
      /\ Inside(p) \subseteq FunctionsIn(p) /\ Inside(q) \subseteq FunctionsIn(q)
  BY DEF HookishIn, Inside
<1>5. FunctionsIn(q) = FunctionsIn(p)
  BY <1>2, <1>3
<1>6. HookishIn(q) = HookishIn(p)
  BY <1>2, <1>3, <1>4
<1>7. Inside(q) = Inside(p)
  BY <1>2, <1>3, <1>4
<1>8. Innermost(q) = Innermost(p)
  BY <1>5 DEF Innermost
<1>9. NameWithin(q, Len(q)) = NameWithin(p, Len(p))
  <2>1. NameWithin(q, n) = NameWithin(p, n)
    BY <1>1, Agreeing
  <2> DEFINE named(k) == {i \in FunctionsIn(q) : i <= k /\ q[i].shape.name # NoName}
  <2>2. named(n + 1) = named(n)
    BY <1>1, <1>3
  <2>3. \A k : NameWithin(q, k) = IF named(k) = {} THEN NoName
                                 ELSE q[CHOOSE i \in named(k) : \A j \in named(k) : j <= i].shape.name
    BY DEF NameWithin
  <2> HIDE DEF named
  <2>4. NameWithin(q, n + 1) = NameWithin(q, n)
    BY <2>2, <2>3
  <2> QED
    BY <1>1, <2>1, <2>4
<1>10. ASSUME NEW h \in FunctionsIn(p)
       PROVE  Segment(q, h) = Segment(p, h) \cup {i \in {Len(q)} : h = Innermost(p)}
  <2>1. Innermost(p) \in FunctionsIn(p) /\ \A j \in FunctionsIn(p) : j <= Innermost(p)
    BY <1>1, InnermostType
  <2>2. \A i \in 1..n : i \in Segment(q, h) <=> i \in Segment(p, h)
    BY <1>1, <1>5 DEF Segment
  <2>3. n + 1 \in Segment(q, h) <=> h = Innermost(p)
    BY <1>1, <1>3, <1>5, <2>1 DEF Segment
  <2>4. Segment(q, h) \subseteq 1..(n + 1) /\ Segment(p, h) \subseteq 1..n
    BY <1>1 DEF Segment
  <2>5. \A i \in 1..(n + 1) : i \in 1..n \/ i = n + 1
    BY <1>1
  <2>6. ~ (n + 1 \in 1..n)
    BY <1>1
  <2> HIDE DEF n
  <2> QED
    BY <1>1, <2>2, <2>3, <2>4, <2>5, <2>6
<1> QED
  BY <1>5, <1>6, <1>7, <1>8, <1>9, <1>10

(* One more function becomes the innermost, gives the name if it has one,  *)
(* and is inside a component or hook if it is one or there is one around   *)
(* it.                                                                     *)
LEMMA LongerByFunction ==
  ASSUME NEW p, NEW q, Longer(p, q), q[Len(q)].kind = "function"
  PROVE  LET n == Len(q)
             shape == q[n].shape
         IN  /\ n \notin FunctionsIn(p) /\ FunctionsIn(q) = FunctionsIn(p) \cup {n}
             /\ \A j \in FunctionsIn(p) : j < n
             /\ HookishIn(q) = HookishIn(p) \cup {i \in {n} : shape.hookish}
             /\ Inside(q) = Inside(p) \cup {i \in {n} : shape.hookish \/ HookishIn(p) # {}}
             /\ Innermost(q) = n
             /\ NameWithin(q, n) = IF shape.name # NoName THEN shape.name ELSE NameWithin(p, Len(p))
             /\ \A h \in FunctionsIn(p) : Segment(q, h) = Segment(p, h)
             /\ Segment(q, n) = {}
<1> DEFINE m == Len(p)
           n == Len(q)
           shape == q[n].shape
<1>1. p \in Seq(Frames) /\ q \in Seq(Frames) /\ m \in Nat /\ n = m + 1 /\ Agree(p, q, m)
  BY DEF Longer
<1>2. /\ \A i \in 1..m : i \in FunctionsIn(p) <=> i \in FunctionsIn(q)
      /\ \A i \in 1..m : i \in HookishIn(p) <=> i \in HookishIn(q)
      /\ \A i \in 1..m : i \in Inside(p) <=> i \in Inside(q)
  BY <1>1, Agreeing
<1>3. FunctionsIn(p) \subseteq 1..m /\ FunctionsIn(q) \subseteq 1..n /\ n \in FunctionsIn(q)
  BY <1>1 DEF FunctionsIn
<1>4. HookishIn(p) \subseteq FunctionsIn(p) /\ HookishIn(q) \subseteq FunctionsIn(q)
      /\ Inside(p) \subseteq FunctionsIn(p) /\ Inside(q) \subseteq FunctionsIn(q)
  BY DEF HookishIn, Inside
<1>5. \A i \in 1..n : i \in 1..m \/ i = n
  BY <1>1
<1>6. ~ (n \in 1..m) /\ \A i \in 1..m : i < n
  BY <1>1
<1>7. FunctionsIn(q) = FunctionsIn(p) \cup {n}
  BY <1>2, <1>3, <1>5
<1>8. n \in HookishIn(q) <=> shape.hookish
  BY <1>3 DEF HookishIn
<1>9. HookishIn(q) = HookishIn(p) \cup {i \in {n} : shape.hookish}
  <2> HIDE DEF n, m
  <2> QED
    BY <1>2, <1>3, <1>4, <1>5, <1>8
<1>10. n \in Inside(q) <=> shape.hookish \/ HookishIn(p) # {}
  <2>1. n \in Inside(q) <=> \E i \in HookishIn(q) : i <= n
    BY <1>3 DEF Inside
  <2>2. \A i \in HookishIn(q) : i <= n
    BY <1>1, <1>3, <1>4
  <2> HIDE DEF n, m
  <2> QED
    BY <1>9, <2>1, <2>2
<1>11. Inside(q) = Inside(p) \cup {i \in {n} : shape.hookish \/ HookishIn(p) # {}}
  <2> HIDE DEF n, m
  <2> QED
    BY <1>2, <1>3, <1>4, <1>5, <1>10
<1>12. Innermost(q) = n
  <2>1. Innermost(q) \in FunctionsIn(q) /\ \A j \in FunctionsIn(q) : j <= Innermost(q)
    BY <1>1, <1>3, InnermostType
  <2> QED
    BY <1>1, <1>3, <2>1
<1>13. NameWithin(q, n) = IF shape.name # NoName THEN shape.name ELSE NameWithin(p, m)
  <2> DEFINE named == {i \in FunctionsIn(q) : i <= n /\ q[i].shape.name # NoName}
             before == {i \in FunctionsIn(q) : i <= m /\ q[i].shape.name # NoName}
  <2>1. NameWithin(q, n) = IF named = {} THEN NoName ELSE q[CHOOSE i \in named : \A j \in named : j <= i].shape.name
    BY DEF NameWithin
  <2>2. CASE shape.name # NoName
    <3>1. n \in named /\ named \in SUBSET (1..n)
      BY <1>1, <1>3, <2>2
    <3> DEFINE last == CHOOSE i \in named : \A j \in named : j <= i
    <3>2. last \in named /\ \A j \in named : j <= last
      <4> HIDE DEF named, n
      <4>1. n \in Nat
        BY <1>1 DEF n
      <4> QED
        BY <3>1, <4>1, GreatestExists
    <3>3. last = n
      <4>1. last \in 1..n /\ n <= last
        BY <3>1, <3>2
      <4> HIDE DEF last
      <4> QED
        BY <1>1, <4>1
    <3> HIDE DEF last, named
    <3> QED
      BY <2>1, <2>2, <3>1, <3>3 DEF last
  <2>3. CASE shape.name = NoName
    <3>1. named = before
      BY <1>1, <1>3, <2>3
    <3>2. NameWithin(q, n) = NameWithin(q, m)
      <4>1. NameWithin(q, m) = IF before = {} THEN NoName ELSE q[CHOOSE i \in before : \A j \in before : j <= i].shape.name
        BY DEF NameWithin
      <4> HIDE DEF named, before
      <4> QED
        BY <2>1, <3>1, <4>1
    <3>3. NameWithin(q, m) = NameWithin(p, m)
      BY <1>1, Agreeing
    <3> QED
      BY <2>3, <3>2, <3>3
  <2> QED
    BY <2>2, <2>3
<1>14. ASSUME NEW h \in FunctionsIn(p)
       PROVE  Segment(q, h) = Segment(p, h)
  <2>1. \A i \in 1..m : i \in Segment(q, h) <=> i \in Segment(p, h)
    BY <1>1, <1>3, <1>7 DEF Segment
  <2>2. n \notin Segment(q, h)
    BY <1>1, <1>3 DEF Segment
  <2>3. Segment(q, h) \subseteq 1..n /\ Segment(p, h) \subseteq 1..m
    BY <1>1 DEF Segment
  <2> HIDE DEF n, m
  <2> QED
    BY <1>5, <1>6, <2>1, <2>2, <2>3
<1>15. Segment(q, n) = {}
  BY <1>1 DEF Segment
<1>16. n \notin FunctionsIn(p) /\ \A j \in FunctionsIn(p) : j < n
  BY <1>3, <1>6
<1> QED
  BY <1>7, <1>9, <1>11, <1>12, <1>13, <1>14, <1>15, <1>16

(* Nothing of the nesting depends on the parts reached and the returns     *)
(* passed.                                                                 *)
LEMMA SameShape ==
  ASSUME NEW p \in Seq(Frames), NEW q \in Seq(Frames), Len(q) = Len(p), Agree(p, q, Len(p))
  PROVE  /\ FunctionsIn(q) = FunctionsIn(p) /\ HookishIn(q) = HookishIn(p) /\ Inside(q) = Inside(p)
         /\ Innermost(q) = Innermost(p)
         /\ \A h : Segment(q, h) = Segment(p, h)
         /\ \A n \in 0..Len(p) : NameWithin(q, n) = NameWithin(p, n) /\ Count(q, n) = Count(p, n)
<1>1. Len(p) \in Nat /\ FunctionsIn(p) \subseteq 1..Len(p) /\ FunctionsIn(q) \subseteq 1..Len(p)
  BY DEF FunctionsIn
<1>2. FunctionsIn(q) = FunctionsIn(p)
  BY <1>1 DEF FunctionsIn, Agree
<1>3. HookishIn(q) = HookishIn(p)
  BY <1>1, <1>2, Agreeing DEF HookishIn
<1>4. Inside(q) = Inside(p)
  BY <1>2, <1>3 DEF Inside
<1>5. \A n \in 0..Len(p) : NameWithin(q, n) = NameWithin(p, n) /\ Count(q, n) = Count(p, n)
  BY <1>1, Agreeing
<1>6. Innermost(q) = Innermost(p) /\ \A h : Segment(q, h) = Segment(p, h)
  BY <1>2 DEF Innermost, Segment
<1> QED
  BY <1>2, <1>3, <1>4, <1>5, <1>6

-----------------------------------------------------------------------------
(* The values of the rule's own variables.                                 *)
Fields == {"afterEarlyReturn", "inConditional", "inLoop", "inNestedFunction", "inTryBlock", "isComponentOrHook"}
Contexts == [afterEarlyReturn : BOOLEAN, inConditional : BOOLEAN, inLoop : BOOLEAN,
             inNestedFunction : BOOLEAN, inTryBlock : BOOLEAN, isComponentOrHook : BOOLEAN]
Names == {shape.name : shape \in Functions} \cup {NoName}

(* The part of the type invariant the stack needs.                         *)
Typed ==
  /\ path \in Seq(Frames)
  /\ regular \in BOOLEAN
  /\ contextStack \in Seq(Contexts)

(* The current name is that of the innermost named function, and the stack *)
(* of names keeps for each open function the name that was current around  *)
(* it: what HandleFunctionExit restores is right.                          *)
NamesFollow ==
  /\ functionNameStack \in Seq(Names) /\ currentFunctionName \in Names
  /\ currentFunctionName = NameWithin(path, Len(path))
  /\ Len(functionNameStack) = Cardinality(FunctionsIn(path))
  /\ \A i \in FunctionsIn(path) : functionNameStack[Count(path, i)] = NameWithin(path, i - 1)

(* What a context c says of function h: every flag that is set has its     *)
(* cause (Backed), every cause has its flag (Complete), and no construct   *)
(* stands in one of its own kind, whose exit would clear the flag early    *)
(* (OneOfAKind).                                                           *)
Has(p, h, kind) == \E i \in Segment(p, h) : p[i].kind = kind
Backed(p, h, c) ==
  /\ c.isComponentOrHook /\ ~c.inNestedFunction
  /\ \A kind \in Kinds : c[FieldOf[kind]] => Has(p, h, kind)
  /\ c.afterEarlyReturn => p[h].returned
Complete(p, h, c) ==
  /\ \A kind \in Kinds : Has(p, h, kind) => c[FieldOf[kind]]
  /\ p[h].returned => c.afterEarlyReturn
OneOfAKind(p, h) == \A i, j \in Segment(p, h) : p[i].kind = p[j].kind => i = j

(* Whatever the nesting, there are never more contexts than functions in   *)
(* components or hooks, because every exit pops one while only some enters *)
(* push; and as long as there are as many, the lowest is that of the       *)
(* outermost component or hook, and its flags are backed. The lowest is    *)
(* the one to speak of: nothing is claimed of the contexts above it, which *)
(* the code may have given to the wrong functions.                         *)
StackFollows ==
  /\ Len(contextStack) <= Nesting(path)
  /\ Len(contextStack) = Nesting(path) =>
       \A h : IsHome(path, h) => Backed(path, h, contextStack[1])

(* On a regular walk the contexts are exactly the functions in the         *)
(* component, of which there are at most two, and the lowest is complete.  *)
StackIsExact ==
  regular =>
    /\ Len(contextStack) = Nesting(path) /\ Nesting(path) <= 2
    /\ \A h : IsHome(path, h) => Complete(path, h, contextStack[1]) /\ OneOfAKind(path, h)
    /\ Nesting(path) = 2 => contextStack[2].inNestedFunction

-----------------------------------------------------------------------------
(* A path that opens one more node.                                        *)
LEMMA Opening ==
  ASSUME path \in Seq(Frames), NEW f \in Frames, path' = Append(path, f)
  PROVE  /\ Longer(path, path') /\ path' \in Seq(Frames)
         /\ path'[Len(path')] = f
         /\ \A i \in 1..Len(path) : path'[i] = path[i]
<1>1. /\ path' \in Seq(Frames) /\ Len(path') = Len(path) + 1 /\ Len(path) \in Nat
      /\ path'[Len(path) + 1] = f
      /\ \A i \in 1..Len(path) : path'[i] = path[i]
  BY AppendProperties
<1>2. Agree(path, path', Len(path))
  BY <1>1 DEF Agree
<1> QED
  BY <1>1, <1>2 DEF Longer

(* Pop of a sequence that is not empty.                                    *)
LEMMA Popped ==
  ASSUME NEW S, NEW s \in Seq(S), s # <<>>
  PROVE  /\ Pop(s) \in Seq(S) /\ Len(s) \in Nat /\ Len(s) >= 1 /\ Len(Pop(s)) = Len(s) - 1
         /\ \A i \in 1..Len(s) - 1 : Pop(s)[i] = s[i]
<1>1. Len(s) \in Nat /\ Len(s) >= 1
  BY EmptySeq, LenProperties
<1>2. \A i \in 1..Len(s) - 1 : s[i] \in S
  BY <1>1, ElementOfSeq
<1>3. /\ SubSeq(s, 1, Len(s) - 1) \in Seq(S)
      /\ Len(SubSeq(s, 1, Len(s) - 1)) = Len(s) - 1
      /\ \A i \in 1..Len(s) - 1 : SubSeq(s, 1, Len(s) - 1)[i] = s[i]
  <2> DEFINE n == Len(s) - 1
  <2>0. n \in Nat
    BY <1>1
  <2>1. n \in Int /\ 1 \in Int /\ n - 1 + 1 = n /\ (IF 1 <= n THEN n - 1 + 1 ELSE 0) = n
    <3> HIDE DEF n
    <3> QED
      BY <2>0
  <2>2. \A i \in 1..n : s[i] \in S
    BY <1>2
  <2> HIDE DEF n
  <2>3. /\ SubSeq(s, 1, n) \in Seq(S)
        /\ Len(SubSeq(s, 1, n)) = IF 1 <= n THEN n - 1 + 1 ELSE 0
        /\ \A i \in 1..n - 1 + 1 : SubSeq(s, 1, n)[i] = s[1 + i - 1]
    BY <2>1, <2>2, SubSeqProperties
  <2>4. \A i \in 1..n : SubSeq(s, 1, n)[i] = s[i]
    BY <2>1, <2>3
  <2> QED
    BY <2>1, <2>3, <2>4 DEF n
<1> QED
  BY <1>1, <1>3 DEF Pop

(* A path that closes its last node.                                       *)
LEMMA Closing ==
  ASSUME path \in Seq(Frames), path # <<>>, path' = Pop(path)
  PROVE  /\ Longer(path', path) /\ path' \in Seq(Frames)
         /\ \A i \in 1..Len(path') : path'[i] = path[i]
<1>1. /\ path' \in Seq(Frames) /\ Len(path) \in Nat /\ Len(path) >= 1 /\ Len(path') = Len(path) - 1
      /\ \A i \in 1..Len(path) - 1 : path'[i] = path[i]
  BY Popped
<1>2. Agree(path', path, Len(path'))
  BY <1>1 DEF Agree
<1> QED
  BY <1>1, <1>2 DEF Longer

(* UpdateContext sets one field of the context on top, and nothing else.   *)
LEMMA Updated ==
  ASSUME contextStack \in Seq(Contexts), NEW field \in Fields, NEW value \in BOOLEAN,
         UpdateContext(field, value)
  PROVE  /\ contextStack' \in Seq(Contexts) /\ Len(contextStack') = Len(contextStack)
         /\ \A i \in 1..Len(contextStack) - 1 : contextStack'[i] = contextStack[i]
         /\ Len(contextStack) >= 1 =>
              /\ contextStack'[Len(contextStack)][field] = value
              /\ \A g \in Fields \ {field} :
                   contextStack'[Len(contextStack)][g] = contextStack[Len(contextStack)][g]
<1>1. Len(contextStack) \in Nat
  OBVIOUS
<1>2. CASE contextStack = <<>>
  BY <1>2 DEF UpdateContext
<1>3. CASE contextStack # <<>>
  <2> DEFINE n == Len(contextStack)
             c == [contextStack[n] EXCEPT ![field] = value]
  <2>1. n \in 1..Len(contextStack) /\ n >= 1
    BY <1>3, EmptySeq
  <2>2. contextStack[n] \in Contexts
    BY <2>1, ElementOfSeq
  <2>3. c \in Contexts
    BY <2>2 DEF Contexts, Fields
  <2>4. c[field] = value /\ \A g \in Fields \ {field} : c[g] = contextStack[n][g]
    BY <2>2 DEF Contexts, Fields
  <2>5. contextStack' = [contextStack EXCEPT ![n] = c]
    BY <1>3 DEF UpdateContext
  <2> HIDE DEF c, n
  <2>6. /\ contextStack' \in Seq(Contexts) /\ Len(contextStack') = Len(contextStack)
        /\ \A j \in 1..Len(contextStack) : contextStack'[j] = IF j = n THEN c ELSE contextStack[j]
    BY <2>1, <2>3, <2>5, ExceptSeq
  <2> QED
    BY <1>1, <2>1, <2>4, <2>6 DEF n
<1> QED
  BY <1>2, <1>3

(* The flags of the constructs are three different ones, and none of the   *)
(* others.                                                                 *)
LEMMA KindFields ==
  /\ FieldOf \in [Kinds -> Fields \ {"afterEarlyReturn", "inNestedFunction", "isComponentOrHook"}]
  /\ \A j, k \in Kinds : FieldOf[j] = FieldOf[k] => j = k
BY DEF FieldOf, Kinds, Fields

-----------------------------------------------------------------------------
(* A function that opens keeps the name around it.                         *)
LEMMA NamesOpen ==
  ASSUME Typed, NamesFollow, NEW shape \in Functions, EnterFunction(shape)
  PROVE  NamesFollow'
<1> DEFINE n == Len(path')
<1>1. /\ path' = Append(path, FunctionFrame(shape))
      /\ functionNameStack' = Append(functionNameStack, currentFunctionName)
      /\ currentFunctionName' = IF shape.name # NoName THEN shape.name ELSE currentFunctionName
  BY DEF EnterFunction, HandleFunctionEnter
<1>2. FunctionFrame(shape) \in Frames
  BY DEF Frames, FunctionFrame, Parts, Kinds
<1>3. /\ Longer(path, path') /\ path'[n] = FunctionFrame(shape)
      /\ Len(path) \in Nat /\ n = Len(path) + 1
  BY <1>1, <1>2, Opening DEF Typed, Longer
<1>4. /\ n \notin FunctionsIn(path) /\ FunctionsIn(path') = FunctionsIn(path) \cup {n}
      /\ \A j \in FunctionsIn(path) : j < n
      /\ NameWithin(path', n) = IF shape.name # NoName THEN shape.name ELSE NameWithin(path, Len(path))
  BY <1>3, LongerByFunction DEF FunctionFrame
<1>5. /\ IsFiniteSet(FunctionsIn(path)) /\ Cardinality(FunctionsIn(path)) \in Nat
      /\ FunctionsIn(path) \subseteq 1..Len(path)
      /\ \A i \in FunctionsIn(path) : Count(path, i) \in 1..Cardinality(FunctionsIn(path))
  BY PathsAreFinite DEF Typed
<1>6. Cardinality(FunctionsIn(path')) = Cardinality(FunctionsIn(path)) + 1
  BY <1>4, <1>5, FS_AddElement
<1>7. /\ functionNameStack' \in Seq(Names) /\ Len(functionNameStack') = Len(functionNameStack) + 1
      /\ \A i \in 1..Len(functionNameStack) : functionNameStack'[i] = functionNameStack[i]
      /\ functionNameStack'[Len(functionNameStack) + 1] = currentFunctionName
  BY <1>1, AppendProperties DEF NamesFollow
<1>8. \A m \in 0..Len(path) : Count(path, m) = Count(path', m) /\ NameWithin(path, m) = NameWithin(path', m)
  BY <1>3, Agreeing DEF Longer
<1>9. ASSUME NEW i \in FunctionsIn(path')
      PROVE  functionNameStack'[Count(path', i)] = NameWithin(path', i - 1)
  <2>1. CASE i \in FunctionsIn(path)
    <3>1. i \in 0..Len(path) /\ i - 1 \in 0..Len(path)
      BY <1>3, <1>5, <2>1
    <3>2. Count(path', i) = Count(path, i) /\ NameWithin(path', i - 1) = NameWithin(path, i - 1)
      BY <1>8, <3>1
    <3>3. Count(path, i) \in 1..Len(functionNameStack)
      BY <1>5, <2>1 DEF NamesFollow
    <3> QED
      BY <1>7, <2>1, <3>2, <3>3 DEF NamesFollow
  <2>2. CASE i = n
    <3>1. {j \in FunctionsIn(path') : j <= n} = FunctionsIn(path')
      BY <1>3, <1>4, <1>5
    <3>2. Count(path', i) = Len(functionNameStack) + 1
      BY <1>6, <2>2, <3>1 DEF Count, NamesFollow
    <3>3. NameWithin(path', i - 1) = NameWithin(path, Len(path))
      BY <1>3, <1>8, <2>2
    <3> QED
      BY <1>7, <3>2, <3>3 DEF NamesFollow
  <2> QED
    BY <1>4, <2>1, <2>2
<1>10. currentFunctionName' \in Names /\ currentFunctionName' = NameWithin(path', n)
  BY <1>1, <1>4 DEF NamesFollow, Names
<1>11. Len(functionNameStack') = Cardinality(FunctionsIn(path'))
  BY <1>6, <1>7 DEF NamesFollow
<1> QED
  BY <1>7, <1>9, <1>10, <1>11 DEF NamesFollow

(* A function that closes restores the name around it.                     *)
LEMMA NamesClose ==
  ASSUME Typed, NamesFollow, ExitFunction
  PROVE  NamesFollow'
<1> DEFINE n == Len(path)
<1>1. /\ path # <<>> /\ path[n].kind = "function" /\ path' = Pop(path)
      /\ currentFunctionName' = Top(functionNameStack)
      /\ functionNameStack' = Pop(functionNameStack)
  BY DEF ExitFunction, HandleFunctionExit, Top
<1>2. Longer(path', path) /\ Len(path') \in Nat /\ n = Len(path') + 1
  BY <1>1, Closing DEF Typed, Longer
<1>3. /\ n \notin FunctionsIn(path') /\ FunctionsIn(path) = FunctionsIn(path') \cup {n}
      /\ \A j \in FunctionsIn(path') : j < n
  BY <1>1, <1>2, LongerByFunction
<1>4. /\ IsFiniteSet(FunctionsIn(path')) /\ Cardinality(FunctionsIn(path')) \in Nat
      /\ FunctionsIn(path') \subseteq 1..Len(path')
      /\ \A i \in FunctionsIn(path') : Count(path', i) \in 1..Cardinality(FunctionsIn(path'))
  BY <1>2, PathsAreFinite DEF Longer
<1>5. Cardinality(FunctionsIn(path)) = Cardinality(FunctionsIn(path')) + 1
  BY <1>3, <1>4, FS_AddElement
<1>6. functionNameStack # <<>>
  BY <1>4, <1>5 DEF NamesFollow
<1>7. /\ functionNameStack' \in Seq(Names)
      /\ Len(functionNameStack) \in Nat /\ Len(functionNameStack) >= 1
      /\ Len(functionNameStack') = Len(functionNameStack) - 1
      /\ \A i \in 1..Len(functionNameStack) - 1 : functionNameStack'[i] = functionNameStack[i]
  BY <1>1, <1>6, Popped DEF NamesFollow
<1>8. \A m \in 0..Len(path') : Count(path', m) = Count(path, m) /\ NameWithin(path', m) = NameWithin(path, m)
  BY <1>2, Agreeing DEF Longer
<1>9. Len(functionNameStack') = Cardinality(FunctionsIn(path'))
  BY <1>4, <1>5, <1>7 DEF NamesFollow
<1>10. ASSUME NEW i \in FunctionsIn(path')
       PROVE  functionNameStack'[Count(path', i)] = NameWithin(path', i - 1)
  <2>1. i \in 0..Len(path') /\ i - 1 \in 0..Len(path') /\ i \in FunctionsIn(path)
    BY <1>2, <1>3, <1>4
  <2>2. Count(path', i) = Count(path, i) /\ NameWithin(path', i - 1) = NameWithin(path, i - 1)
    BY <1>8, <2>1
  <2>3. Count(path', i) \in 1..Len(functionNameStack) - 1
    BY <1>4, <1>7, <1>9
  <2> QED
    BY <1>7, <2>1, <2>2, <2>3 DEF NamesFollow
<1>11. currentFunctionName' = NameWithin(path', Len(path'))
  <2>1. {j \in FunctionsIn(path) : j <= n} = FunctionsIn(path)
    BY <1>2, <1>3, <1>4
  <2>2. Count(path, n) = Len(functionNameStack)
    BY <2>1 DEF Count, NamesFollow
  <2>3. currentFunctionName' = NameWithin(path, n - 1)
    BY <1>1, <1>3, <2>2 DEF NamesFollow, Top
  <2> QED
    BY <1>2, <1>8, <2>3
<1>12. currentFunctionName' \in Names
  BY <1>1, <1>7, ElementOfSeq DEF NamesFollow, Top
<1> QED
  BY <1>7, <1>9, <1>10, <1>11, <1>12 DEF NamesFollow

(* Other nodes have no names.                                              *)
LEMMA NamesKeep ==
  ASSUME NamesFollow, UNCHANGED <<functionNameStack, currentFunctionName>>,
         path \in Seq(Frames), path' \in Seq(Frames),
         \/ Longer(path, path') /\ path'[Len(path')].kind # "function"
         \/ Longer(path', path) /\ path[Len(path)].kind # "function"
         \/ Len(path') = Len(path) /\ Agree(path, path', Len(path))
  PROVE  NamesFollow'
<1>1. FunctionsIn(path') = FunctionsIn(path) /\ NameWithin(path', Len(path')) = NameWithin(path, Len(path))
  <2>1. CASE Longer(path, path') /\ path'[Len(path')].kind # "function"
    BY <2>1, LongerByOther
  <2>2. CASE Longer(path', path) /\ path[Len(path)].kind # "function"
    BY <2>2, LongerByOther
  <2>3. CASE Len(path') = Len(path) /\ Agree(path, path', Len(path))
    <3>1. Len(path) \in 0..Len(path)
      OBVIOUS
    <3> QED
      BY <2>3, <3>1, SameShape
  <2> QED
    BY <2>1, <2>2, <2>3
<1>2. ASSUME NEW i \in FunctionsIn(path')
      PROVE  Count(path', i) = Count(path, i) /\ NameWithin(path', i - 1) = NameWithin(path, i - 1)
  <2>1. /\ Len(path) \in Nat /\ Len(path') \in Nat
        /\ i \in 1..Len(path) /\ i \in 1..Len(path')
    BY <1>1 DEF FunctionsIn
  <2>2. i \in 0..Len(path) /\ i \in 0..Len(path') /\ i - 1 \in 0..Len(path) /\ i - 1 \in 0..Len(path')
    BY <2>1
  <2>3. CASE Longer(path, path')
    BY <2>1, <2>2, <2>3, Agreeing DEF Longer
  <2>4. CASE Longer(path', path)
    BY <2>1, <2>2, <2>4, Agreeing DEF Longer
  <2>5. CASE Len(path') = Len(path) /\ Agree(path, path', Len(path))
    BY <2>2, <2>5, SameShape
  <2> QED
    BY <2>3, <2>4, <2>5
<1> QED
  BY <1>1, <1>2 DEF NamesFollow

-----------------------------------------------------------------------------
(* There is a component or hook exactly if something is nested in one, and *)
(* the outermost one is the innermost function exactly if nothing else is. *)
LEMMA NestingFacts ==
  ASSUME NEW p \in Seq(Frames)
  PROVE  /\ HookishIn(p) = {} <=> Nesting(p) = 0
         /\ \A h : IsHome(p, h) =>
              /\ h \in FunctionsIn(p) /\ h \in 1..Len(p) /\ Nesting(p) >= 1
              /\ Nesting(p) = 1 <=> h = Innermost(p)
<1>1. /\ FunctionsIn(p) \subseteq 1 .. Len(p) /\ Len(p) \in Nat
      /\ IsFiniteSet(Inside(p)) /\ Nesting(p) \in Nat
  BY PathsAreFinite
<1>2. HookishIn(p) \subseteq Inside(p) /\ Inside(p) \subseteq FunctionsIn(p)
  BY <1>1 DEF HookishIn, Inside
<1>3. Inside(p) = {} <=> HookishIn(p) = {}
  BY <1>2 DEF Inside
<1>4. Nesting(p) = 0 <=> Inside(p) = {}
  BY <1>1, FS_EmptySet DEF Nesting
<1>5. ASSUME NEW h, IsHome(p, h)
      PROVE  /\ h \in FunctionsIn(p) /\ h \in 1..Len(p) /\ Nesting(p) >= 1
             /\ Nesting(p) = 1 <=> h = Innermost(p)
  <2>1. h \in HookishIn(p) /\ h \in Inside(p) /\ h \in FunctionsIn(p)
    BY <1>2, <1>5 DEF IsHome
  <2>2. Nesting(p) >= 1
    BY <1>1, <1>4, <2>1
  <2>3. Innermost(p) \in FunctionsIn(p) /\ \A j \in FunctionsIn(p) : j <= Innermost(p)
    BY <2>1, InnermostType
  <2>4. Innermost(p) \in Inside(p)
    BY <2>1, <2>3 DEF Inside
  <2>5. \A j \in Inside(p) : h <= j
    <3> SUFFICES ASSUME NEW j \in Inside(p)
                 PROVE  h <= j
      OBVIOUS
    <3>1. PICK i \in HookishIn(p) : i <= j
      BY DEF Inside
    <3>2. h <= i
      BY <1>5 DEF IsHome
    <3>3. h \in Nat /\ i \in Nat /\ j \in Nat
      BY <1>1, <1>2, <2>1
    <3> QED
      BY <3>1, <3>2, <3>3
  <2>6. CASE h = Innermost(p)
    <3>1. Inside(p) = {h}
      <4>1. \A j \in Inside(p) : j <= h /\ h <= j /\ j \in Nat /\ h \in Nat
        BY <1>1, <1>2, <2>1, <2>3, <2>5, <2>6
      <4> QED
        BY <2>1, <4>1
    <3> QED
      BY <1>1, <2>1, <2>2, <2>6, <3>1, FS_Singleton DEF Nesting
  <2>7. CASE Nesting(p) = 1
    <3>1. PICK x : Inside(p) = {x}
      BY <1>1, <2>7, FS_Singleton DEF Nesting
    <3> QED
      BY <1>1, <2>1, <2>2, <2>4, <2>7, <3>1
  <2> QED
    BY <1>1, <2>1, <2>2, <2>6, <2>7
<1> QED
  BY <1>3, <1>4, <1>5

(* At home the innermost function is the only component or hook, and       *)
(* nested in a hook there is another function inside it.                   *)
LEMMA HomeFacts ==
  ASSUME path \in Seq(Frames)
  PROVE  /\ AtHome => IsHome(path, Innermost(path)) /\ Nesting(path) = 1
         /\ HookishIn(path) # {} => AtHome \/ NestedInHook
         /\ NestedInHook => Nesting(path) \notin {0, 1}
         /\ Nesting(path) = 1 => AtHome /\ ~NestedInHook
<1>1. \A i \in FunctionsIn(path) : Hookish(i) <=> i \in HookishIn(path)
  BY DEF Hookish, HookishIn, FunctionsIn
<1>2. HookishIn(path) \subseteq FunctionsIn(path) /\ FunctionsIn(path) \subseteq 1..Len(path) /\ Len(path) \in Nat
  BY DEF HookishIn, FunctionsIn
<1>3. AtHome => IsHome(path, Innermost(path))
  <2>1. AtHome => Innermost(path) \in FunctionsIn(path)
    BY InnermostType DEF AtHome
  <2> QED
    BY <1>1, <1>2, <2>1 DEF AtHome, IsHome
<1>4. AtHome => Nesting(path) = 1
  BY <1>3, NestingFacts
<1>5. HookishIn(path) # {} => AtHome \/ NestedInHook
  BY <1>1, <1>2 DEF NestedInHook
<1>6. ASSUME Nesting(path) = 1
      PROVE  AtHome
  <2>1. PICK x : Inside(path) = {x}
    BY <1>6, PathsAreFinite, FS_Singleton DEF Nesting
  <2>2. HookishIn(path) \subseteq {x}
    BY <1>2, <2>1 DEF HookishIn, Inside
  <2>3. HookishIn(path) = {x}
    BY <1>6, <2>2, NestingFacts
  <2>4. IsHome(path, x)
    BY <1>2, <2>3 DEF IsHome
  <2>5. x = Innermost(path) /\ x \in 1..Len(path)
    BY <1>6, <2>4, NestingFacts
  <2> QED
    BY <1>1, <1>2, <2>3, <2>5 DEF AtHome, HookishIn, Hookish
<1>7. NestedInHook => Nesting(path) \notin {0, 1}
  <2>1. NestedInHook => HookishIn(path) # {} /\ ~AtHome
    BY <1>1 DEF NestedInHook
  <2> QED
    BY <1>6, <2>1, NestingFacts
<1> QED
  BY <1>3, <1>4, <1>5, <1>6, <1>7

(* What every step preserves of the stack, one lemma for each kind of      *)
(* step.                                                                   *)
StackInv == Typed /\ StackFollows /\ StackIsExact

(* A function opened outside every component starts the stack if it is a   *)
(* component; inside one it may be given a context or not, and on a        *)
(* regular walk it is.                                                     *)
LEMMA StackOpensFunction ==
  ASSUME StackInv, NEW shape \in Functions, EnterFunction(shape)
  PROVE  StackInv'
<1> DEFINE n == Len(path')
           home == [CleanContext EXCEPT !.isComponentOrHook = TRUE]
           nested == [CleanContext EXCEPT !.inNestedFunction = TRUE]
<1>1. /\ path' = Append(path, FunctionFrame(shape))
      /\ regular' = (regular /\ ~NestedInHook)
      /\ contextStack' = IF contextStack # <<>> /\ Top(contextStack).isComponentOrHook
                         THEN Append(contextStack, nested)
                         ELSE IF shape.hookish THEN Append(contextStack, home)
                         ELSE contextStack
  BY DEF EnterFunction, HandleFunctionEnter
<1>2. FunctionFrame(shape) \in Frames
  BY DEF Frames, FunctionFrame, Parts, Kinds
<1>3. /\ Longer(path, path') /\ path' \in Seq(Frames) /\ path'[n] = FunctionFrame(shape)
      /\ \A i \in 1..Len(path) : path'[i] = path[i]
      /\ Len(path) \in Nat /\ n = Len(path) + 1
  BY <1>1, <1>2, Opening DEF StackInv, Typed, Longer
<1>4. /\ n \notin FunctionsIn(path) /\ \A j \in FunctionsIn(path) : j < n
      /\ HookishIn(path') = HookishIn(path) \cup {i \in {n} : shape.hookish}
      /\ Inside(path') = Inside(path) \cup {i \in {n} : shape.hookish \/ HookishIn(path) # {}}
      /\ \A h \in FunctionsIn(path) : Segment(path', h) = Segment(path, h)
      /\ Segment(path', n) = {}
  BY <1>3, LongerByFunction DEF FunctionFrame
<1>5. home \in Contexts /\ nested \in Contexts
      /\ home.isComponentOrHook /\ ~home.inNestedFunction /\ nested.inNestedFunction
      /\ ~home.afterEarlyReturn /\ \A kind \in Kinds : ~home[FieldOf[kind]]
  BY DEF CleanContext, Contexts, FieldOf, Kinds
<1> HIDE DEF home, nested
<1>6. /\ IsFiniteSet(Inside(path)) /\ Nesting(path) \in Nat /\ n \notin Inside(path)
      /\ HookishIn(path) \subseteq FunctionsIn(path) /\ FunctionsIn(path) \subseteq 1..Len(path)
  BY <1>3, <1>4, PathsAreFinite DEF Inside, HookishIn, Longer
<1>7. Nesting(path') = IF shape.hookish \/ HookishIn(path) # {} THEN Nesting(path) + 1 ELSE Nesting(path)
  <2>1. CASE shape.hookish \/ HookishIn(path) # {}
    <3>1. Inside(path') = Inside(path) \cup {n}
      BY <1>4, <2>1
    <3> QED
      BY <1>6, <2>1, <3>1, FS_AddElement DEF Nesting
  <2>2. CASE ~ (shape.hookish \/ HookishIn(path) # {})
    BY <1>4, <2>2 DEF Nesting
  <2> QED
    BY <2>1, <2>2
<1>8. /\ contextStack' \in Seq(Contexts) /\ Len(contextStack) \in Nat
      /\ \/ contextStack' = contextStack
         \/ Len(contextStack') = Len(contextStack) + 1
      /\ \A i \in 1..Len(contextStack) : contextStack'[i] = contextStack[i]
  <2>1. contextStack \in Seq(Contexts)
    BY DEF StackInv, Typed
  <2> QED
    BY <1>1, <1>5, <2>1, AppendProperties
<1>9. Typed'
  BY <1>1, <1>3, <1>8 DEF StackInv, Typed
<1>10. CASE HookishIn(path) = {}
  <2>1. Nesting(path) = 0 /\ contextStack = <<>> /\ Len(contextStack) = 0
    <3>1. Nesting(path) = 0
      BY <1>3, <1>10, NestingFacts DEF StackInv, Typed
    <3>2. Len(contextStack) = 0 /\ contextStack \in Seq(Contexts)
      BY <1>8, <3>1 DEF StackInv, StackFollows, Typed
    <3> QED
      BY <3>1, <3>2
  <2>2. CASE shape.hookish
    <3>1. contextStack' = <<home>> /\ Len(contextStack') = 1 /\ contextStack'[1] = home
      BY <1>1, <2>1, <2>2
    <3>2. Nesting(path') = 1 /\ HookishIn(path') = {n}
      BY <1>4, <1>7, <1>10, <2>1, <2>2
    <3>3. \A h : IsHome(path', h) => h = n
      BY <3>2 DEF IsHome
    <3>4. ~path'[n].returned
      BY <1>3 DEF FunctionFrame
    <3>5. Backed(path', n, home) /\ Complete(path', n, home) /\ OneOfAKind(path', n)
      BY <1>4, <1>5, <3>4 DEF Backed, Complete, OneOfAKind, Has
    <3>6. StackFollows' /\ StackIsExact'
      BY <3>1, <3>2, <3>3, <3>5 DEF StackFollows, StackIsExact
    <3> QED
      BY <1>9, <3>6 DEF StackInv
  <2>3. CASE ~shape.hookish
    <3>1. Len(contextStack') = 0
      BY <1>1, <2>1, <2>3
    <3>2. Nesting(path') = 0 /\ HookishIn(path') = {}
      BY <1>4, <1>7, <1>10, <2>1, <2>3
    <3>3. StackFollows' /\ StackIsExact'
      BY <3>1, <3>2 DEF StackFollows, StackIsExact, IsHome
    <3> QED
      BY <1>9, <3>3 DEF StackInv
  <2> QED
    BY <2>2, <2>3
<1>11. CASE HookishIn(path) # {}
  <2>1. Nesting(path') = Nesting(path) + 1
    BY <1>7, <1>11
  <2>2. \A h : IsHome(path', h) => IsHome(path, h)
    <3>1. PICK j \in HookishIn(path) : TRUE
      BY <1>11
    <3>2. j < n /\ j \in Nat /\ n \in Nat
      BY <1>3, <1>4, <1>6
    <3>3. \A h : IsHome(path', h) => h # n
      BY <1>4, <3>1, <3>2 DEF IsHome
    <3> QED
      BY <1>4, <3>3 DEF IsHome
  <2>3. ASSUME NEW h, IsHome(path, h)
        PROVE  /\ Segment(path', h) = Segment(path, h)
               /\ path'[h] = path[h]
               /\ \A i \in Segment(path, h) : path'[i] = path[i]
               /\ Nesting(path) >= 1
    <3>1. h \in FunctionsIn(path) /\ h \in 1..Len(path) /\ Nesting(path) >= 1
      BY <2>3, NestingFacts DEF StackInv, Typed
    <3> QED
      BY <1>3, <1>4, <3>1 DEF Segment
  <2>4. ASSUME NEW h, IsHome(path, h), NEW c
        PROVE  /\ Backed(path, h, c) => Backed(path', h, c)
               /\ Complete(path, h, c) => Complete(path', h, c)
               /\ OneOfAKind(path, h) => OneOfAKind(path', h)
    BY <2>3, <2>4 DEF Backed, Complete, Has, OneOfAKind
  <2>5. Len(contextStack') <= Nesting(path')
    BY <1>6, <1>8, <2>1 DEF StackInv, StackFollows
  <2>6. ASSUME Len(contextStack') = Nesting(path'), NEW h, IsHome(path', h)
        PROVE  Backed(path', h, contextStack'[1])
    <3>1. IsHome(path, h) /\ Nesting(path) >= 1
      BY <2>2, <2>3, <2>6
    <3>2. Len(contextStack) = Nesting(path)
      BY <1>6, <1>8, <2>1, <2>6 DEF StackInv, StackFollows
    <3>3. contextStack'[1] = contextStack[1]
      BY <1>6, <1>8, <3>1, <3>2
    <3>4. Backed(path, h, contextStack[1])
      BY <3>1, <3>2 DEF StackInv, StackFollows
    <3>5. Backed(path', h, contextStack[1])
      BY <2>4, <3>1, <3>4
    <3> QED
      BY <3>3, <3>5
  <2>7. StackFollows'
    BY <2>5, <2>6 DEF StackFollows
  <2>8. ASSUME regular'
        PROVE  /\ Len(contextStack') = Nesting(path') /\ Nesting(path') = 2
               /\ \A h : IsHome(path', h) => Complete(path', h, contextStack'[1]) /\ OneOfAKind(path', h)
               /\ contextStack'[2].inNestedFunction
    <3>1. regular /\ AtHome
      BY <1>1, <1>11, <2>8, HomeFacts DEF StackInv, Typed
    <3>2. IsHome(path, Innermost(path)) /\ Nesting(path) = 1 /\ Len(contextStack) = 1
      BY <3>1, HomeFacts DEF StackInv, StackIsExact, Typed
    <3>3. Top(contextStack).isComponentOrHook
      BY <3>2 DEF StackInv, StackFollows, Backed, Top
    <3>4. contextStack' = Append(contextStack, nested)
      BY <1>1, <3>2, <3>3
    <3>5. Len(contextStack') = 2 /\ contextStack'[2] = nested /\ contextStack'[1] = contextStack[1]
      BY <1>5, <1>8, <3>2, <3>4, AppendProperties DEF StackInv, Typed
    <3>6. ASSUME NEW h, IsHome(path', h)
          PROVE  Complete(path', h, contextStack'[1]) /\ OneOfAKind(path', h)
      <4>1. IsHome(path, h)
        BY <2>2, <3>6
      <4>2. Complete(path, h, contextStack[1]) /\ OneOfAKind(path, h)
        BY <3>1, <4>1 DEF StackInv, StackIsExact
      <4>3. Complete(path', h, contextStack[1]) /\ OneOfAKind(path', h)
        BY <2>4, <4>1, <4>2
      <4> QED
        BY <3>5, <4>3
    <3>7. contextStack'[2].inNestedFunction
      BY <1>5, <3>5
    <3> QED
      BY <2>1, <3>2, <3>5, <3>6, <3>7
  <2>9. StackIsExact'
    BY <2>8 DEF StackIsExact
  <2> QED
    BY <1>9, <2>7, <2>9 DEF StackInv
<1> QED
  BY <1>10, <1>11

(* A function closed inside a component takes a context away, which may be *)
(* its own or not; outside there is none.                                  *)
LEMMA StackClosesFunction ==
  ASSUME StackInv, ExitFunction
  PROVE  StackInv'
<1> DEFINE n == Len(path)
           shape == path[n].shape
<1>1. /\ path # <<>> /\ path[n].kind = "function" /\ path' = Pop(path)
      /\ regular' = (regular \/ n = 1)
      /\ contextStack' = IF contextStack = <<>> THEN contextStack ELSE Pop(contextStack)
  BY DEF ExitFunction, HandleFunctionExit, Top
<1>2. /\ Longer(path', path) /\ path' \in Seq(Frames) /\ Len(path') \in Nat /\ n = Len(path') + 1
      /\ \A i \in 1..Len(path') : path'[i] = path[i]
  BY <1>1, Closing DEF StackInv, Typed, Longer
<1>3. /\ n \notin FunctionsIn(path') /\ \A j \in FunctionsIn(path') : j < n
      /\ HookishIn(path) = HookishIn(path') \cup {i \in {n} : shape.hookish}
      /\ Inside(path) = Inside(path') \cup {i \in {n} : shape.hookish \/ HookishIn(path') # {}}
      /\ \A h \in FunctionsIn(path') : Segment(path, h) = Segment(path', h)
  BY <1>1, <1>2, LongerByFunction
<1>4. /\ IsFiniteSet(Inside(path')) /\ Nesting(path') \in Nat /\ Nesting(path) \in Nat /\ n \notin Inside(path')
      /\ HookishIn(path') \subseteq FunctionsIn(path') /\ FunctionsIn(path') \subseteq 1..Len(path')
  BY <1>2, <1>3, PathsAreFinite DEF Inside, HookishIn, Longer
<1>5. /\ contextStack' \in Seq(Contexts) /\ Len(contextStack) \in Nat /\ Len(contextStack') \in Nat
      /\ Len(contextStack') = IF Len(contextStack) = 0 THEN 0 ELSE Len(contextStack) - 1
      /\ \A i \in 1..Len(contextStack') : contextStack'[i] = contextStack[i]
  <2>1. contextStack \in Seq(Contexts)
    BY DEF StackInv, Typed
  <2>2. CASE contextStack = <<>>
    BY <1>1, <2>1, <2>2
  <2>3. CASE contextStack # <<>>
    BY <1>1, <2>1, <2>3, Popped
  <2> QED
    BY <2>2, <2>3
<1>6. Typed'
  BY <1>1, <1>2, <1>5 DEF StackInv, Typed
<1>7. CASE ~ (shape.hookish \/ HookishIn(path') # {})
  <2>1. HookishIn(path') = {} /\ HookishIn(path) = {}
    BY <1>3, <1>7
  <2>2. Nesting(path') = 0 /\ Nesting(path) = 0
    BY <1>2, <2>1, NestingFacts DEF StackInv, Typed
  <2>3. Len(contextStack) = 0
    BY <1>5, <2>2 DEF StackInv, StackFollows
  <2>4. Len(contextStack') = 0
    BY <1>5, <2>3
  <2>5. StackFollows' /\ StackIsExact'
    BY <2>1, <2>2, <2>4 DEF StackFollows, StackIsExact, IsHome
  <2> QED
    BY <1>6, <2>5 DEF StackInv
<1>8. CASE shape.hookish \/ HookishIn(path') # {}
  <2>1. Nesting(path) = Nesting(path') + 1
    <3>1. Inside(path) = Inside(path') \cup {n}
      BY <1>3, <1>8
    <3> QED
      BY <1>4, <3>1, FS_AddElement DEF Nesting
  <2>2. ASSUME NEW h, IsHome(path', h)
        PROVE  IsHome(path, h) /\ Nesting(path') >= 1 /\ h \in 1..Len(path') /\ h \in FunctionsIn(path')
    <3>1. h \in FunctionsIn(path') /\ h \in 1..Len(path') /\ Nesting(path') >= 1
      BY <1>2, <2>2, NestingFacts
    <3>2. h <= n
      BY <1>2, <3>1
    <3> QED
      BY <1>3, <2>2, <3>1, <3>2 DEF IsHome
  <2>3. ASSUME NEW h, IsHome(path', h), NEW c
        PROVE  /\ Backed(path, h, c) => Backed(path', h, c)
               /\ Complete(path, h, c) => Complete(path', h, c)
               /\ OneOfAKind(path, h) => OneOfAKind(path', h)
    <3>1. h \in 1..Len(path') /\ Segment(path, h) = Segment(path', h)
      BY <1>3, <2>2, <2>3
    <3>2. path'[h] = path[h] /\ \A i \in Segment(path', h) : path'[i] = path[i]
      BY <1>2, <3>1 DEF Segment
    <3> QED
      BY <3>1, <3>2 DEF Backed, Complete, Has, OneOfAKind
  <2>4. Len(contextStack') <= Nesting(path')
    BY <1>4, <1>5, <2>1 DEF StackInv, StackFollows
  <2>5. ASSUME Len(contextStack') = Nesting(path'), NEW h, IsHome(path', h)
        PROVE  Backed(path', h, contextStack'[1])
    <3>1. IsHome(path, h) /\ Nesting(path') >= 1
      BY <2>2, <2>5
    <3>2. Len(contextStack) = Nesting(path) /\ contextStack'[1] = contextStack[1]
      BY <1>4, <1>5, <2>1, <2>5, <3>1
    <3>3. Backed(path, h, contextStack[1])
      BY <3>1, <3>2 DEF StackInv, StackFollows
    <3>4. Backed(path', h, contextStack[1])
      BY <2>3, <2>5, <3>3
    <3> QED
      BY <3>2, <3>4
  <2>6. StackFollows'
    BY <2>4, <2>5 DEF StackFollows
  <2>7. ASSUME regular'
        PROVE  /\ Len(contextStack') = Nesting(path') /\ Nesting(path') <= 1
               /\ \A h : IsHome(path', h) => Complete(path', h, contextStack'[1]) /\ OneOfAKind(path', h)
    <3>1. CASE n = 1
      <4>0. Len(path') = 0
        <5>1. Len(path') \in Nat /\ n = Len(path') + 1
          BY <1>2
        <5> DEFINE k == Len(path')
        <5> HIDE DEF n, k
        <5>2. k \in Nat /\ n = k + 1
          BY <5>1 DEF k
        <5>3. k = 0
          BY <3>1, <5>2
        <5> QED
          BY <5>3 DEF k
      <4>1. HookishIn(path') = {}
        BY <1>4, <4>0
      <4>2. Nesting(path') = 0
        BY <1>2, <4>1, NestingFacts
      <4>3. \A h : ~IsHome(path', h)
        BY <4>1 DEF IsHome
      <4>4. Len(contextStack') = 0
        <5>1. Len(contextStack') \in Nat /\ Len(contextStack') <= 0
          BY <1>5, <2>4, <4>2
        <5> QED
          BY <5>1
      <4> QED
        BY <4>2, <4>3, <4>4
    <3>2. CASE regular
      <4>1. Len(contextStack) = Nesting(path) /\ Nesting(path) <= 2
        BY <3>2 DEF StackInv, StackIsExact
      <4>2. Len(contextStack') = Nesting(path') /\ Nesting(path') <= 1
        BY <1>4, <1>5, <2>1, <4>1
      <4>3. ASSUME NEW h, IsHome(path', h)
            PROVE  Complete(path', h, contextStack'[1]) /\ OneOfAKind(path', h)
        <5>1. IsHome(path, h) /\ Nesting(path') >= 1
          BY <2>2, <4>3
        <5>2. Complete(path, h, contextStack[1]) /\ OneOfAKind(path, h)
          BY <3>2, <5>1 DEF StackInv, StackIsExact
        <5>3. contextStack'[1] = contextStack[1]
          BY <1>5, <4>2, <5>1
        <5>4. Complete(path', h, contextStack[1]) /\ OneOfAKind(path', h)
          BY <2>3, <4>3, <5>2
        <5> QED
          BY <5>3, <5>4
      <4> QED
        BY <4>2, <4>3
    <3> QED
      BY <1>1, <2>7, <3>1, <3>2
  <2>8. StackIsExact'
    BY <1>4, <2>7 DEF StackIsExact
  <2> QED
    BY <1>6, <2>6, <2>8 DEF StackInv
<1> QED
  BY <1>7, <1>8

(* A construct opened directly in the component sets the flag of the       *)
(* lowest context, elsewhere that of a higher one.                         *)
LEMMA StackEnters ==
  ASSUME StackInv, NEW kind \in Kinds, Enter(kind)
  PROVE  StackInv'
<1> DEFINE n == Len(path')
           part == CASE kind = "conditional" -> "test" [] kind = "loop" -> "body" [] kind = "try" -> "block"
           field == FieldOf[kind]
<1>1. /\ path' = Append(path, Frame(kind, part))
      /\ regular' = (regular /\ \A i \in Own(path) : path[i].kind # kind)
      /\ UpdateContext(field, TRUE)
  BY DEF Enter
<1>2. Frame(kind, part) \in Frames /\ Frame(kind, part).kind = kind /\ kind # "function"
  BY DEF Frames, Frame, Parts, Kinds
<1> HIDE DEF part
<1>3. /\ Longer(path, path') /\ path \in Seq(Frames) /\ path' \in Seq(Frames) /\ path'[n].kind = kind
      /\ \A i \in 1..Len(path) : path'[i] = path[i]
      /\ Len(path) \in Nat /\ n = Len(path) + 1
  BY <1>1, <1>2, Opening DEF StackInv, Typed, Longer
<1>4. /\ FunctionsIn(path') = FunctionsIn(path) /\ HookishIn(path') = HookishIn(path)
      /\ Inside(path') = Inside(path)
      /\ \A h \in FunctionsIn(path) :
           Segment(path', h) = Segment(path, h) \cup {i \in {n} : h = Innermost(path)}
  BY <1>2, <1>3, LongerByOther
<1>5. Nesting(path') = Nesting(path) /\ Nesting(path) \in Nat
  BY <1>3, <1>4, PathsAreFinite DEF Nesting
<1>6. contextStack \in Seq(Contexts) /\ field \in Fields \ {"afterEarlyReturn", "inNestedFunction", "isComponentOrHook"}
  BY KindFields DEF StackInv, Typed
<1>7. /\ contextStack' \in Seq(Contexts) /\ Len(contextStack') = Len(contextStack) /\ Len(contextStack) \in Nat
      /\ \A i \in 1..Len(contextStack) - 1 : contextStack'[i] = contextStack[i]
      /\ Len(contextStack) >= 1 =>
           /\ contextStack'[Len(contextStack)][field] = TRUE
           /\ \A g \in Fields \ {field} :
                contextStack'[Len(contextStack)][g] = contextStack[Len(contextStack)][g]
  <2>1. field \in Fields /\ contextStack \in Seq(Contexts) /\ UpdateContext(field, TRUE)
    BY <1>1, <1>6
  <2> HIDE DEF field
  <2>2. contextStack' \in Seq(Contexts) /\ Len(contextStack') = Len(contextStack)
    BY <2>1, Updated
  <2>5. Len(contextStack) \in Nat
    BY <2>1
  <2>3. \A i \in 1..Len(contextStack) - 1 : contextStack'[i] = contextStack[i]
    BY <2>1, Updated
  <2>4. Len(contextStack) >= 1 =>
           /\ contextStack'[Len(contextStack)][field] = TRUE
           /\ \A g \in Fields \ {field} :
                contextStack'[Len(contextStack)][g] = contextStack[Len(contextStack)][g]
    BY <2>1, Updated
  <2> QED
    BY <2>2, <2>3, <2>4, <2>5
<1>8. Typed'
  BY <1>1, <1>3, <1>7 DEF StackInv, Typed
<1>9. \A h : IsHome(path', h) <=> IsHome(path, h)
  BY <1>4 DEF IsHome
<1>10. ASSUME NEW h, IsHome(path, h)
       PROVE  /\ h \in FunctionsIn(path) /\ path'[h] = path[h] /\ Nesting(path) >= 1
              /\ Nesting(path) = 1 <=> h = Innermost(path)
              /\ \A i \in Segment(path, h) : path'[i] = path[i] /\ i \in Nat /\ i # n
  <2>1. h \in FunctionsIn(path) /\ h \in 1..Len(path) /\ Nesting(path) >= 1 /\ (Nesting(path) = 1 <=> h = Innermost(path))
    BY <1>3, <1>10, NestingFacts
  <2>2. \A i \in 1..Len(path) : path'[i] = path[i] /\ i \in Nat /\ i # n
    BY <1>3
  <2> HIDE DEF n
  <2> QED
    BY <2>1, <2>2 DEF Segment
<1>11. ASSUME NEW h, IsHome(path, h), Nesting(path) # 1, NEW c
       PROVE  /\ Backed(path, h, c) => Backed(path', h, c)
              /\ Complete(path, h, c) => Complete(path', h, c)
              /\ OneOfAKind(path, h) => OneOfAKind(path', h)
  <2>1. Segment(path', h) = Segment(path, h)
    BY <1>4, <1>10, <1>11
  <2>2. path'[h] = path[h] /\ \A i \in Segment(path, h) : path'[i] = path[i]
    BY <1>10, <1>11
  <2> QED
    BY <2>1, <2>2 DEF Backed, Complete, Has, OneOfAKind
<1>12. ASSUME NEW h, IsHome(path, h), Nesting(path) = 1
       PROVE  /\ Segment(path', h) = Segment(path, h) \cup {n}
              /\ path'[h] = path[h] /\ \A i \in Segment(path, h) : path'[i] = path[i]
              /\ \A i \in Segment(path, h) : i \in Own(path)
  <2>1. h = Innermost(path) /\ h \in FunctionsIn(path)
    BY <1>10, <1>12
  <2>2. Segment(path', h) = Segment(path, h) \cup {n}
    BY <1>4, <2>1
  <2>3. \A i \in Segment(path, h) : i \in Own(path)
    BY <1>3, <2>1 DEF Segment, Own, FunctionsIn
  <2> QED
    BY <1>10, <1>12, <2>2, <2>3
<1>13. \A k \in Kinds : FieldOf[k] \in Fields /\ (FieldOf[k] = field => k = kind)
  BY KindFields
<1>14. ASSUME NEW h, IsHome(path, h), Nesting(path) = 1, Len(contextStack) = 1,
              Backed(path, h, contextStack[1])
       PROVE  Backed(path', h, contextStack'[1])
  <2>1. contextStack'[1][field] = TRUE /\ \A g \in Fields \ {field} : contextStack'[1][g] = contextStack[1][g]
    BY <1>7, <1>14
  <2>2. contextStack'[1].isComponentOrHook /\ ~contextStack'[1].inNestedFunction
    BY <1>6, <1>14, <2>1 DEF Backed, Fields
  <2>3. contextStack'[1].afterEarlyReturn => path'[h].returned
    BY <1>6, <1>12, <1>14, <2>1 DEF Backed, Fields
  <2>4. ASSUME NEW k \in Kinds, contextStack'[1][FieldOf[k]]
        PROVE  Has(path', h, k)
    <3>1. CASE k = kind
      BY <1>3, <1>12, <1>14, <3>1 DEF Has
    <3>2. CASE k # kind
      <4>1. FieldOf[k] \in Fields \ {field}
        BY <1>13, <3>2
      <4>2. Has(path, h, k)
        BY <1>14, <2>1, <2>4, <4>1 DEF Backed
      <4> QED
        BY <1>12, <1>14, <4>2 DEF Has
    <3> QED
      BY <3>1, <3>2
  <2> QED
    BY <2>2, <2>3, <2>4 DEF Backed
<1>15. ASSUME NEW h, IsHome(path, h), Nesting(path) = 1, Len(contextStack) = 1,
              Complete(path, h, contextStack[1]), OneOfAKind(path, h),
              \A i \in Own(path) : path[i].kind # kind
       PROVE  Complete(path', h, contextStack'[1]) /\ OneOfAKind(path', h)
  <2>1. contextStack'[1][field] = TRUE /\ \A g \in Fields \ {field} : contextStack'[1][g] = contextStack[1][g]
    BY <1>7, <1>15
  <2>2. path'[h].returned => contextStack'[1].afterEarlyReturn
    BY <1>6, <1>12, <1>15, <2>1 DEF Complete, Fields
  <2>3. ASSUME NEW k \in Kinds, Has(path', h, k)
        PROVE  contextStack'[1][FieldOf[k]]
    <3>1. CASE k = kind
      BY <2>1, <3>1
    <3>2. CASE k # kind
      <4>1. FieldOf[k] \in Fields \ {field}
        BY <1>13, <3>2
      <4>2. Has(path, h, k)
        BY <1>3, <1>12, <1>15, <2>3, <3>2 DEF Has
      <4>3. contextStack[1][FieldOf[k]]
        BY <1>15, <4>2 DEF Complete
      <4> QED
        BY <2>1, <4>1, <4>3
    <3> QED
      BY <3>1, <3>2
  <2>4. ASSUME NEW i \in Segment(path', h), NEW j \in Segment(path', h), path'[i].kind = path'[j].kind
        PROVE  i = j
    <3>1. \A l \in Segment(path, h) : path'[l] = path[l] /\ path'[l].kind # kind
      BY <1>12, <1>15
    <3>2. path'[n].kind = kind
      BY <1>3
    <3>3. Segment(path', h) = Segment(path, h) \cup {n}
      BY <1>12, <1>15
    <3>4. i = n <=> j = n
      BY <2>4, <3>1, <3>2, <3>3
    <3> QED
      BY <1>15, <2>4, <3>1, <3>3, <3>4 DEF OneOfAKind
  <2> QED
    BY <2>2, <2>3, <2>4 DEF Complete, OneOfAKind
<1>16. StackFollows'
  <2>1. Len(contextStack') <= Nesting(path')
    BY <1>5, <1>7 DEF StackInv, StackFollows
  <2>2. ASSUME Len(contextStack') = Nesting(path'), NEW h, IsHome(path', h)
        PROVE  Backed(path', h, contextStack'[1])
    <3>1. IsHome(path, h) /\ Len(contextStack) = Nesting(path) /\ Nesting(path) >= 1
      BY <1>5, <1>7, <1>9, <1>10, <2>2
    <3>2. Backed(path, h, contextStack[1])
      BY <3>1 DEF StackInv, StackFollows
    <3>3. CASE Nesting(path) = 1
      BY <1>14, <3>1, <3>2, <3>3
    <3>4. CASE Nesting(path) # 1
      <4>1. contextStack'[1] = contextStack[1]
        BY <1>5, <1>7, <3>1, <3>4
      <4>2. Backed(path', h, contextStack[1])
        BY <1>11, <3>1, <3>2, <3>4
      <4> QED
        BY <4>1, <4>2
    <3> QED
      BY <3>3, <3>4
  <2> QED
    BY <2>1, <2>2 DEF StackFollows
<1>17. StackIsExact'
  <2> SUFFICES ASSUME regular'
               PROVE  /\ Len(contextStack') = Nesting(path') /\ Nesting(path') <= 2
                      /\ \A h : IsHome(path', h) => Complete(path', h, contextStack'[1]) /\ OneOfAKind(path', h)
                      /\ Nesting(path') = 2 => contextStack'[2].inNestedFunction
    BY DEF StackIsExact
  <2>1. /\ Len(contextStack) = Nesting(path) /\ Nesting(path) <= 2
        /\ \A i \in Own(path) : path[i].kind # kind
        /\ Nesting(path) = 2 => contextStack[2].inNestedFunction
    BY <1>1 DEF StackInv, StackIsExact
  <2>2. ASSUME NEW h, IsHome(path', h)
        PROVE  Complete(path', h, contextStack'[1]) /\ OneOfAKind(path', h)
    <3>1. IsHome(path, h) /\ Nesting(path) >= 1
      BY <1>9, <1>10, <2>2
    <3>2. Complete(path, h, contextStack[1]) /\ OneOfAKind(path, h)
      BY <1>1, <3>1 DEF StackInv, StackIsExact
    <3>3. CASE Nesting(path) = 1
      BY <1>15, <2>1, <3>1, <3>2, <3>3
    <3>4. CASE Nesting(path) # 1
      <4>1. contextStack'[1] = contextStack[1]
        BY <1>5, <1>7, <2>1, <3>1, <3>4
      <4>2. Complete(path', h, contextStack[1]) /\ OneOfAKind(path', h)
        BY <1>11, <3>1, <3>2, <3>4
      <4> QED
        BY <4>1, <4>2
    <3> QED
      BY <3>3, <3>4
  <2>3. ASSUME Nesting(path) = 2
        PROVE  contextStack'[2].inNestedFunction
    BY <1>6, <1>7, <2>1, <2>3 DEF Fields
  <2> QED
    BY <1>5, <1>7, <2>1, <2>2, <2>3
<1> QED
  BY <1>8, <1>16, <1>17 DEF StackInv

(* A construct closed clears the flag, which loses a construct of the same *)
(* kind around it, but never leaves a flag without its cause.              *)
LEMMA StackExits ==
  ASSUME StackInv, NEW kind \in Kinds, Exit(kind)
  PROVE  StackInv'
<1> DEFINE n == Len(path)
           field == FieldOf[kind]
<1>1. /\ path # <<>> /\ path[n].kind = kind /\ path' = Pop(path)
      /\ regular' = (regular \/ n = 1)
      /\ UpdateContext(field, FALSE)
      /\ kind # "function"
  BY DEF Exit, Top, Kinds
<1>2. /\ Longer(path', path) /\ path \in Seq(Frames) /\ path' \in Seq(Frames)
      /\ Len(path') \in Nat /\ n = Len(path') + 1
      /\ \A i \in 1..Len(path') : path'[i] = path[i]
  BY <1>1, Closing DEF StackInv, Typed, Longer
<1>3. /\ FunctionsIn(path) = FunctionsIn(path') /\ HookishIn(path) = HookishIn(path')
      /\ Inside(path) = Inside(path') /\ Innermost(path) = Innermost(path')
      /\ \A h \in FunctionsIn(path') :
           Segment(path, h) = Segment(path', h) \cup {i \in {n} : h = Innermost(path')}
  BY <1>1, <1>2, LongerByOther
<1>4. Nesting(path') = Nesting(path) /\ Nesting(path) \in Nat
  BY <1>2, <1>3, PathsAreFinite DEF Nesting
<1>5. contextStack \in Seq(Contexts) /\ field \in Fields \ {"afterEarlyReturn", "inNestedFunction", "isComponentOrHook"}
  BY KindFields DEF StackInv, Typed
<1>6. /\ contextStack' \in Seq(Contexts) /\ Len(contextStack') = Len(contextStack) /\ Len(contextStack) \in Nat
      /\ \A i \in 1..Len(contextStack) - 1 : contextStack'[i] = contextStack[i]
      /\ Len(contextStack) >= 1 =>
           /\ contextStack'[Len(contextStack)][field] = FALSE
           /\ \A g \in Fields \ {field} :
                contextStack'[Len(contextStack)][g] = contextStack[Len(contextStack)][g]
  <2>1. field \in Fields /\ contextStack \in Seq(Contexts) /\ UpdateContext(field, FALSE)
    BY <1>1, <1>5
  <2> HIDE DEF field
  <2>2. contextStack' \in Seq(Contexts) /\ Len(contextStack') = Len(contextStack)
    BY <2>1, Updated
  <2>3. Len(contextStack) \in Nat
    BY <2>1
  <2>4. \A i \in 1..Len(contextStack) - 1 : contextStack'[i] = contextStack[i]
    BY <2>1, Updated
  <2>5. Len(contextStack) >= 1 =>
           /\ contextStack'[Len(contextStack)][field] = FALSE
           /\ \A g \in Fields \ {field} :
                contextStack'[Len(contextStack)][g] = contextStack[Len(contextStack)][g]
    BY <2>1, Updated
  <2> QED
    BY <2>2, <2>3, <2>4, <2>5
<1>7. Typed'
  BY <1>1, <1>2, <1>6 DEF StackInv, Typed
<1>8. \A h : IsHome(path', h) <=> IsHome(path, h)
  BY <1>3 DEF IsHome
<1>9. ASSUME NEW h, IsHome(path', h)
      PROVE  /\ h \in FunctionsIn(path') /\ path'[h] = path[h] /\ Nesting(path) >= 1
             /\ Nesting(path) = 1 <=> h = Innermost(path')
             /\ \A i \in Segment(path', h) : path'[i] = path[i] /\ i # n
  <2>1. h \in FunctionsIn(path') /\ h \in 1..Len(path') /\ Nesting(path) >= 1 /\ (Nesting(path) = 1 <=> h = Innermost(path'))
    BY <1>2, <1>4, <1>9, NestingFacts
  <2>2. \A i \in 1..Len(path') : path'[i] = path[i] /\ i # n
    BY <1>2
  <2> HIDE DEF n
  <2> QED
    BY <2>1, <2>2 DEF Segment
<1>10. ASSUME NEW h, IsHome(path', h), Nesting(path) # 1, NEW c
       PROVE  /\ Backed(path, h, c) => Backed(path', h, c)
              /\ Complete(path, h, c) => Complete(path', h, c)
              /\ OneOfAKind(path, h) => OneOfAKind(path', h)
  <2>1. Segment(path', h) = Segment(path, h)
    BY <1>3, <1>9, <1>10
  <2>2. path'[h] = path[h] /\ \A i \in Segment(path', h) : path'[i] = path[i]
    BY <1>9, <1>10
  <2> QED
    BY <2>1, <2>2 DEF Backed, Complete, Has, OneOfAKind
<1>11. ASSUME NEW h, IsHome(path', h), Nesting(path) = 1
       PROVE  /\ Segment(path, h) = Segment(path', h) \cup {n}
              /\ path'[h] = path[h] /\ \A i \in Segment(path', h) : path'[i] = path[i] /\ i # n
  <2>1. h = Innermost(path') /\ h \in FunctionsIn(path')
    BY <1>9, <1>11
  <2>2. Segment(path, h) = Segment(path', h) \cup {n}
    BY <1>3, <2>1
  <2> QED
    BY <1>9, <1>11, <2>2
<1>12. \A k \in Kinds : FieldOf[k] \in Fields /\ (FieldOf[k] = field => k = kind)
  BY KindFields
<1>13. ASSUME NEW h, IsHome(path', h), Nesting(path) = 1, Len(contextStack) = 1,
              Backed(path, h, contextStack[1])
       PROVE  Backed(path', h, contextStack'[1])
  <2>1. contextStack'[1][field] = FALSE /\ \A g \in Fields \ {field} : contextStack'[1][g] = contextStack[1][g]
    BY <1>6, <1>13
  <2>2. contextStack'[1].isComponentOrHook /\ ~contextStack'[1].inNestedFunction
    BY <1>5, <1>13, <2>1 DEF Backed, Fields
  <2>3. contextStack'[1].afterEarlyReturn => path'[h].returned
    BY <1>5, <1>11, <1>13, <2>1 DEF Backed, Fields
  <2>4. ASSUME NEW k \in Kinds, contextStack'[1][FieldOf[k]]
        PROVE  Has(path', h, k)
    <3>1. k # kind
      BY <2>1, <2>4
    <3>2. FieldOf[k] \in Fields \ {field}
      BY <1>12, <3>1
    <3>3. Has(path, h, k)
      BY <1>13, <2>1, <2>4, <3>2 DEF Backed
    <3>4. path[n].kind # k
      BY <1>1, <3>1
    <3> HIDE DEF n
    <3> QED
      BY <1>11, <1>13, <3>3, <3>4 DEF Has
  <2> QED
    BY <2>2, <2>3, <2>4 DEF Backed
<1>14. ASSUME NEW h, IsHome(path', h), Nesting(path) = 1, Len(contextStack) = 1,
              Complete(path, h, contextStack[1]), OneOfAKind(path, h)
       PROVE  Complete(path', h, contextStack'[1]) /\ OneOfAKind(path', h)
  <2>1. contextStack'[1][field] = FALSE /\ \A g \in Fields \ {field} : contextStack'[1][g] = contextStack[1][g]
    BY <1>6, <1>14
  <2>2. path'[h].returned => contextStack'[1].afterEarlyReturn
    BY <1>5, <1>11, <1>14, <2>1 DEF Complete, Fields
  <2>3. ASSUME NEW k \in Kinds, Has(path', h, k)
        PROVE  contextStack'[1][FieldOf[k]]
    <3>1. PICK i \in Segment(path', h) : path'[i].kind = k
      BY <2>3 DEF Has
    <3>2. i \in Segment(path, h) /\ n \in Segment(path, h) /\ path[i].kind = k /\ i # n
      BY <1>11, <1>14, <3>1
    <3>3. k # kind
      BY <1>1, <1>14, <3>2 DEF OneOfAKind
    <3>4. FieldOf[k] \in Fields \ {field}
      BY <1>12, <3>3
    <3>5. contextStack[1][FieldOf[k]]
      BY <1>14, <3>2 DEF Complete, Has
    <3> QED
      BY <2>1, <3>4, <3>5
  <2>4. OneOfAKind(path', h)
    BY <1>11, <1>14 DEF OneOfAKind
  <2> QED
    BY <2>2, <2>3, <2>4 DEF Complete
<1>15. StackFollows'
  <2>1. Len(contextStack') <= Nesting(path')
    BY <1>4, <1>6 DEF StackInv, StackFollows
  <2>2. ASSUME Len(contextStack') = Nesting(path'), NEW h, IsHome(path', h)
        PROVE  Backed(path', h, contextStack'[1])
    <3>1. IsHome(path, h) /\ Len(contextStack) = Nesting(path) /\ Nesting(path) >= 1
      BY <1>4, <1>6, <1>8, <1>9, <2>2
    <3>2. Backed(path, h, contextStack[1])
      BY <3>1 DEF StackInv, StackFollows
    <3>3. CASE Nesting(path) = 1
      BY <1>13, <2>2, <3>1, <3>2, <3>3
    <3>4. CASE Nesting(path) # 1
      <4>1. contextStack'[1] = contextStack[1]
        BY <1>4, <1>6, <3>1, <3>4
      <4>2. Backed(path', h, contextStack[1])
        BY <1>10, <2>2, <3>2, <3>4
      <4> QED
        BY <4>1, <4>2
    <3> QED
      BY <3>3, <3>4
  <2> QED
    BY <2>1, <2>2 DEF StackFollows
<1>16. ASSUME regular
       PROVE  /\ Len(contextStack') = Nesting(path') /\ Nesting(path') <= 2
              /\ \A h : IsHome(path', h) => Complete(path', h, contextStack'[1]) /\ OneOfAKind(path', h)
              /\ Nesting(path') = 2 => contextStack'[2].inNestedFunction
  <2>1. /\ Len(contextStack) = Nesting(path) /\ Nesting(path) <= 2
        /\ Nesting(path) = 2 => contextStack[2].inNestedFunction
    BY <1>16 DEF StackInv, StackIsExact
  <2>2. ASSUME NEW h, IsHome(path', h)
        PROVE  Complete(path', h, contextStack'[1]) /\ OneOfAKind(path', h)
    <3>1. IsHome(path, h) /\ Nesting(path) >= 1
      BY <1>8, <1>9, <2>2
    <3>2. Complete(path, h, contextStack[1]) /\ OneOfAKind(path, h)
      BY <1>16, <3>1 DEF StackInv, StackIsExact
    <3>3. CASE Nesting(path) = 1
      BY <1>14, <2>1, <2>2, <3>2, <3>3
    <3>4. CASE Nesting(path) # 1
      <4>1. contextStack'[1] = contextStack[1]
        BY <1>4, <1>6, <2>1, <3>1, <3>4
      <4>2. Complete(path', h, contextStack[1]) /\ OneOfAKind(path', h)
        BY <1>10, <2>2, <3>2, <3>4
      <4> QED
        BY <4>1, <4>2
    <3> QED
      BY <3>3, <3>4
  <2>3. ASSUME Nesting(path) = 2
        PROVE  contextStack'[2].inNestedFunction
    BY <1>5, <1>6, <2>1, <2>3 DEF Fields
  <2> QED
    BY <1>4, <1>6, <2>1, <2>2, <2>3
<1>17. ASSUME n = 1
       PROVE  Len(contextStack') = 0 /\ Nesting(path') = 0 /\ \A h : ~IsHome(path', h)
  <2> DEFINE k == Len(path')
  <2>1. k \in Nat /\ n = k + 1
    BY <1>2
  <2>2. k = 0
    <3> HIDE DEF n, k
    <3> QED
      BY <1>17, <2>1
  <2>3. HookishIn(path') = {}
    BY <2>2 DEF HookishIn, FunctionsIn
  <2>4. Nesting(path') = 0
    BY <1>2, <2>3, NestingFacts
  <2>5. Len(contextStack') \in Nat /\ Len(contextStack') <= 0
    BY <1>6, <1>15, <2>4 DEF StackFollows
  <2>6. Len(contextStack') = 0
    BY <2>5
  <2> QED
    BY <2>3, <2>4, <2>6 DEF IsHome
<1>18. StackIsExact'
  <2>1. CASE regular
    BY <1>16, <2>1 DEF StackIsExact
  <2>2. CASE n = 1
    BY <1>17, <2>2 DEF StackIsExact
  <2>3. CASE ~regular'
    BY <2>3 DEF StackIsExact
  <2> QED
    BY <1>1, <2>1, <2>2, <2>3
<1> QED
  BY <1>7, <1>15, <1>18 DEF StackInv

(* A construct that goes on to its next part.                              *)
LEMMA Advancing ==
  ASSUME path \in Seq(Frames), Advance
  PROVE  /\ path' \in Seq(Frames) /\ Len(path') = Len(path) /\ Agree(path, path', Len(path))
         /\ \A i \in 1..Len(path) : path'[i].returned = path[i].returned
<1> DEFINE n == Len(path)
           f == [path[n] EXCEPT !.part = IF @ = "test" THEN "branch" ELSE "finally"]
<1>1. path # <<>> /\ path[n].part \in {"test", "block"} /\ path' = [path EXCEPT ![n] = f]
  BY DEF Advance, Top
<1>2. n \in 1..Len(path) /\ Len(path) \in Nat /\ path[n] \in Frames
  <2>1. n \in 1..Len(path) /\ Len(path) \in Nat
    BY <1>1, EmptySeq
  <2> QED
    BY <2>1, ElementOfSeq
<1>3. f \in Frames /\ f.kind = path[n].kind /\ f.shape = path[n].shape /\ f.returned = path[n].returned
  BY <1>1, <1>2 DEF Frames, Parts
<1> HIDE DEF f, n
<1>4. /\ path' \in Seq(Frames) /\ Len(path') = Len(path)
      /\ \A j \in 1..Len(path) : path'[j] = IF j = n THEN f ELSE path[j]
  BY <1>1, <1>2, <1>3, ExceptSeq
<1> QED
  BY <1>3, <1>4 DEF Agree

(* A return marks the innermost function.                                  *)
LEMMA Returning ==
  ASSUME path \in Seq(Frames), Return
  PROVE  /\ path' \in Seq(Frames) /\ Len(path') = Len(path) /\ Agree(path, path', Len(path))
         /\ path'[Innermost(path)].returned
         /\ \A i \in 1..Len(path) : i # Innermost(path) => path'[i] = path[i]
<1> DEFINE n == Innermost(path)
           f == [path[n] EXCEPT !.returned = TRUE]
<1>1. n \in FunctionsIn(path) /\ path' = [path EXCEPT ![n] = f]
  BY InnermostType DEF Return
<1>2. n \in 1..Len(path) /\ path[n] \in Frames
  <2>1. n \in 1..Len(path)
    BY <1>1 DEF FunctionsIn
  <2> QED
    BY <2>1, ElementOfSeq
<1>3. f \in Frames /\ f.kind = path[n].kind /\ f.shape = path[n].shape /\ f.returned
  BY <1>2 DEF Frames
<1> HIDE DEF f, n
<1>4. /\ path' \in Seq(Frames) /\ Len(path') = Len(path)
      /\ \A j \in 1..Len(path) : path'[j] = IF j = n THEN f ELSE path[j]
  BY <1>1, <1>2, <1>3, ExceptSeq
<1> QED
  BY <1>2, <1>3, <1>4 DEF Agree, n

(* A new part of a construct changes no kind, so no flag has to change.    *)
LEMMA StackAdvances ==
  ASSUME StackInv, Advance
  PROVE  StackInv'
<1>1. /\ path \in Seq(Frames) /\ path' \in Seq(Frames) /\ Len(path') = Len(path) /\ Agree(path, path', Len(path))
      /\ \A i \in 1..Len(path) : path'[i].returned = path[i].returned
  BY Advancing DEF StackInv, Typed
<1>2. regular' = regular /\ contextStack' = contextStack
  BY DEF Advance, ruleVars
<1>3. /\ HookishIn(path') = HookishIn(path) /\ Inside(path') = Inside(path)
      /\ \A h : Segment(path', h) = Segment(path, h)
  BY <1>1, SameShape
<1>4. Nesting(path') = Nesting(path) /\ \A h : IsHome(path', h) <=> IsHome(path, h)
  BY <1>3 DEF Nesting, IsHome
<1>5. ASSUME NEW h, IsHome(path, h), NEW c
      PROVE  /\ Backed(path, h, c) => Backed(path', h, c)
             /\ Complete(path, h, c) => Complete(path', h, c)
             /\ OneOfAKind(path, h) => OneOfAKind(path', h)
  <2>1. h \in 1..Len(path)
    BY <1>1, <1>5, NestingFacts
  <2>2. \A i \in Segment(path, h) : path'[i].kind = path[i].kind
    BY <1>1 DEF Agree, Segment
  <2> QED
    BY <1>1, <1>3, <2>1, <2>2 DEF Backed, Complete, Has, OneOfAKind
<1>6. Typed'
  BY <1>1, <1>2 DEF StackInv, Typed
<1>7. StackFollows'
  <2> SUFFICES ASSUME Len(contextStack) = Nesting(path), NEW h, IsHome(path, h)
               PROVE  Backed(path', h, contextStack[1])
    BY <1>2, <1>4 DEF StackInv, StackFollows
  <2>1. Backed(path, h, contextStack[1])
    BY DEF StackInv, StackFollows
  <2> QED
    BY <1>5, <2>1
<1>8. StackIsExact'
  <2>1. ASSUME regular, NEW h, IsHome(path, h)
        PROVE  Complete(path', h, contextStack[1]) /\ OneOfAKind(path', h)
    <3>1. Complete(path, h, contextStack[1]) /\ OneOfAKind(path, h)
      BY <2>1 DEF StackInv, StackIsExact
    <3> QED
      BY <1>5, <2>1, <3>1
  <2> QED
    BY <1>2, <1>4, <2>1 DEF StackInv, StackIsExact
<1> QED
  BY <1>6, <1>7, <1>8 DEF StackInv

(* A return sets the flag on top, and only the component's own return is   *)
(* in the component itself.                                                *)
LEMMA StackReturns ==
  ASSUME StackInv, Return
  PROVE  StackInv'
<1> DEFINE n == Innermost(path)
<1>1. /\ path \in Seq(Frames) /\ path' \in Seq(Frames) /\ Len(path') = Len(path) /\ Agree(path, path', Len(path))
      /\ path'[n].returned
      /\ \A i \in 1..Len(path) : i # n => path'[i] = path[i]
  BY Returning DEF StackInv, Typed
<1>2. regular' = regular /\ UpdateContext("afterEarlyReturn", TRUE) /\ contextStack \in Seq(Contexts)
  BY DEF Return, StackInv, Typed
<1>3. /\ HookishIn(path') = HookishIn(path) /\ Inside(path') = Inside(path)
      /\ \A h : Segment(path', h) = Segment(path, h)
  BY <1>1, SameShape
<1>4. /\ Nesting(path') = Nesting(path) /\ Nesting(path) \in Nat
      /\ \A h : IsHome(path', h) <=> IsHome(path, h)
  BY <1>1, <1>3, PathsAreFinite DEF Nesting, IsHome
<1>5. /\ contextStack' \in Seq(Contexts) /\ Len(contextStack') = Len(contextStack)
      /\ \A i \in 1..Len(contextStack) - 1 : contextStack'[i] = contextStack[i]
      /\ Len(contextStack) >= 1 =>
           /\ contextStack'[Len(contextStack)].afterEarlyReturn
           /\ \A g \in Fields \ {"afterEarlyReturn"} :
                contextStack'[Len(contextStack)][g] = contextStack[Len(contextStack)][g]
  <2>1. "afterEarlyReturn" \in Fields
    BY DEF Fields
  <2>2. contextStack' \in Seq(Contexts) /\ Len(contextStack') = Len(contextStack)
    BY <1>2, <2>1, Updated
  <2>3. \A i \in 1..Len(contextStack) - 1 : contextStack'[i] = contextStack[i]
    BY <1>2, <2>1, Updated
  <2>4. Len(contextStack) >= 1 =>
           /\ contextStack'[Len(contextStack)]["afterEarlyReturn"] = TRUE
           /\ \A g \in Fields \ {"afterEarlyReturn"} :
                contextStack'[Len(contextStack)][g] = contextStack[Len(contextStack)][g]
    BY <1>2, <2>1, Updated
  <2> QED
    BY <2>2, <2>3, <2>4
<1>6. Len(contextStack) \in Nat
  BY <1>2
<1>7. Typed'
  BY <1>1, <1>2, <1>5 DEF StackInv, Typed
<1>8. ASSUME NEW h, IsHome(path, h)
      PROVE  /\ h \in 1..Len(path) /\ Nesting(path) >= 1 /\ (Nesting(path) = 1 <=> h = n)
             /\ \A i \in Segment(path, h) : path'[i].kind = path[i].kind
  BY <1>1, <1>8, NestingFacts DEF Agree, Segment
<1>9. ASSUME NEW h, IsHome(path, h), Nesting(path) # 1, NEW c
      PROVE  /\ Backed(path, h, c) => Backed(path', h, c)
             /\ Complete(path, h, c) => Complete(path', h, c)
  <2>1. path'[h] = path[h] /\ \A i \in Segment(path, h) : path'[i].kind = path[i].kind
    BY <1>1, <1>8, <1>9
  <2> QED
    BY <1>3, <2>1 DEF Backed, Complete, Has
<1>10. ASSUME NEW h, IsHome(path, h), Nesting(path) = 1, Len(contextStack) = 1
       PROVE  /\ Backed(path, h, contextStack[1]) => Backed(path', h, contextStack'[1])
              /\ Complete(path, h, contextStack[1]) => Complete(path', h, contextStack'[1])
  <2>1. /\ contextStack'[1].afterEarlyReturn
        /\ \A g \in Fields \ {"afterEarlyReturn"} : contextStack'[1][g] = contextStack[1][g]
    BY <1>5, <1>10
  <2>2. path'[h].returned /\ \A i \in Segment(path, h) : path'[i].kind = path[i].kind
    BY <1>1, <1>8, <1>10
  <2>3. \A k \in Kinds : FieldOf[k] \in Fields \ {"afterEarlyReturn"}
    BY KindFields
  <2>4. \A k \in Kinds : Has(path', h, k) <=> Has(path, h, k)
    BY <1>3, <2>2 DEF Has
  <2>5. contextStack'[1].isComponentOrHook = contextStack[1].isComponentOrHook
        /\ contextStack'[1].inNestedFunction = contextStack[1].inNestedFunction
    BY <2>1 DEF Fields
  <2> QED
    BY <2>1, <2>2, <2>3, <2>4, <2>5 DEF Backed, Complete
<1>11. \A h : OneOfAKind(path, h) => OneOfAKind(path', h)
  <2>1. \A h : \A i \in Segment(path, h) : path'[i].kind = path[i].kind
    BY <1>1 DEF Agree, Segment
  <2> QED
    BY <1>3, <2>1 DEF OneOfAKind
<1>12. StackFollows'
  <2> SUFFICES ASSUME Len(contextStack) = Nesting(path), NEW h, IsHome(path, h)
               PROVE  Backed(path', h, contextStack'[1])
    BY <1>4, <1>5 DEF StackInv, StackFollows
  <2>1. Backed(path, h, contextStack[1]) /\ Nesting(path) >= 1
    BY <1>8 DEF StackInv, StackFollows
  <2>2. CASE Nesting(path) = 1
    BY <1>10, <2>1, <2>2
  <2>3. CASE Nesting(path) # 1
    <3>1. contextStack'[1] = contextStack[1]
      BY <1>4, <1>5, <2>1, <2>3
    <3>2. Backed(path', h, contextStack[1])
      BY <1>9, <2>1, <2>3
    <3> QED
      BY <3>1, <3>2
  <2> QED
    BY <2>2, <2>3
<1>13. StackIsExact'
  <2>1. CASE ~regular
    BY <1>2, <2>1 DEF StackIsExact
  <2>2. CASE regular
    <3>1. /\ Len(contextStack) = Nesting(path) /\ Nesting(path) <= 2
          /\ Nesting(path) = 2 => contextStack[2].inNestedFunction
      BY <2>2 DEF StackInv, StackIsExact
    <3>2. ASSUME NEW h, IsHome(path', h)
          PROVE  Complete(path', h, contextStack'[1]) /\ OneOfAKind(path', h)
      <4>1. IsHome(path, h) /\ Nesting(path) >= 1
        BY <1>4, <1>8, <3>2
      <4>2. Complete(path, h, contextStack[1]) /\ OneOfAKind(path, h)
        BY <2>2, <4>1 DEF StackInv, StackIsExact
      <4>3. OneOfAKind(path', h)
        BY <1>11, <4>2
      <4>4. CASE Nesting(path) = 1
        BY <1>10, <3>1, <4>1, <4>2, <4>3, <4>4
      <4>5. CASE Nesting(path) # 1
        <5>1. contextStack'[1] = contextStack[1]
          BY <1>4, <1>5, <3>1, <4>1, <4>5
        <5>2. Complete(path', h, contextStack[1])
          BY <1>9, <4>1, <4>2, <4>5
        <5> QED
          BY <4>3, <5>1, <5>2
      <4> QED
        BY <4>4, <4>5
    <3>3. ASSUME Nesting(path) = 2
          PROVE  contextStack'[2].inNestedFunction
      BY <1>5, <3>1, <3>3 DEF Fields
    <3> QED
      BY <1>4, <1>5, <3>1, <3>2, <3>3 DEF StackIsExact
  <2> QED
    BY <2>1, <2>2
<1> QED
  BY <1>7, <1>12, <1>13 DEF StackInv

-----------------------------------------------------------------------------
(* A report is the answer to the call just visited, as the state would     *)
(* give it.                                                                *)
Answer(c) ==
  IF ShouldIgnore(c) \/ contextStack = <<>> \/ IsInFinallyBlock THEN "none"
  ELSE MessageFor(c, Top(contextStack))
AnswerStands == (call = NoCall /\ report = "none") \/ report = Answer(call)
(* The inductive invariant.                                                *)
IInv == StackInv /\ NamesFollow /\ AnswerStands

(* Before the first node there is nothing on any stack.                    *)
LEMMA StackStarts == Init => StackInv
<1> SUFFICES ASSUME Init
             PROVE  StackInv
  OBVIOUS
<1>1. path = <<>> /\ contextStack = <<>> /\ regular = TRUE
  BY DEF Init
<1>2. path \in Seq(Frames) /\ contextStack \in Seq(Contexts) /\ Len(path) = 0 /\ Len(contextStack) = 0
  BY <1>1
<1>3. HookishIn(path) = {}
  BY <1>2 DEF HookishIn, FunctionsIn
<1>4. Nesting(path) = 0
  BY <1>2, <1>3, NestingFacts
<1>5. \A h : ~IsHome(path, h)
  BY <1>3 DEF IsHome
<1> QED
  BY <1>1, <1>2, <1>4, <1>5 DEF StackInv, Typed, StackFollows, StackIsExact

(* The outermost name is none.                                             *)
LEMMA NamesStart == Init => NamesFollow
<1> SUFFICES ASSUME Init
             PROVE  NamesFollow
  OBVIOUS
<1>1. FunctionsIn(path) = {}
  BY DEF Init, FunctionsIn
<1>2. Cardinality(FunctionsIn(path)) = 0
  BY <1>1, FS_EmptySet
<1>3. NameWithin(path, Len(path)) = NoName
  BY <1>1 DEF NameWithin
<1>4. functionNameStack = <<>> /\ functionNameStack \in Seq(Names) /\ Len(functionNameStack) = 0
      /\ currentFunctionName = NoName
  BY DEF Init
<1> QED
  BY <1>1, <1>2, <1>3, <1>4 DEF NamesFollow, Names

(* The stack follows in every step.                                        *)
LEMMA StackStep == StackInv /\ [Next]_vars => StackInv'
<1> SUFFICES ASSUME StackInv, [Next]_vars
             PROVE  StackInv'
  OBVIOUS
<1>1. ASSUME UNCHANGED <<path, regular, contextStack>>
      PROVE  StackInv'
  BY <1>1 DEF StackInv, Typed, StackFollows, StackIsExact
<1>2. ASSUME NEW i \in Imports, ImportDeclaration(i)
      PROVE  StackInv'
  BY <1>1, <1>2 DEF ImportDeclaration, ruleVars
<1>3. ASSUME NEW shape \in Functions, EnterFunction(shape)
      PROVE  StackInv'
  BY <1>3, StackOpensFunction
<1>4. CASE ExitFunction
  BY <1>4, StackClosesFunction
<1>5. ASSUME NEW kind \in Kinds, Enter(kind)
      PROVE  StackInv'
  BY <1>5, StackEnters
<1>6. ASSUME NEW kind \in Kinds, Exit(kind)
      PROVE  StackInv'
  BY <1>6, StackExits
<1>7. CASE Advance
  BY <1>7, StackAdvances
<1>8. CASE Return
  BY <1>8, StackReturns
<1>9. ASSUME NEW c \in Calls, CallExpression(c)
      PROVE  StackInv'
  BY <1>1, <1>9 DEF CallExpression, ruleVars
<1>10. CASE UNCHANGED vars
  BY <1>1, <1>10 DEF vars
<1> QED
  BY <1>2, <1>3, <1>4, <1>5, <1>6, <1>7, <1>8, <1>9, <1>10 DEF Next

(* The names follow in every step.                                         *)
LEMMA NamesStep == Typed /\ Typed' /\ NamesFollow /\ [Next]_vars => NamesFollow'
<1> SUFFICES ASSUME Typed, Typed', NamesFollow, [Next]_vars
             PROVE  NamesFollow'
  OBVIOUS
<1>0. path \in Seq(Frames) /\ path' \in Seq(Frames)
  BY DEF Typed
<1>1. ASSUME UNCHANGED <<path, functionNameStack, currentFunctionName>>
      PROVE  NamesFollow'
  BY <1>1 DEF NamesFollow
<1>2. ASSUME NEW i \in Imports, ImportDeclaration(i)
      PROVE  NamesFollow'
  BY <1>1, <1>2 DEF ImportDeclaration, ruleVars
<1>3. ASSUME NEW shape \in Functions, EnterFunction(shape)
      PROVE  NamesFollow'
  BY <1>3, NamesOpen
<1>4. CASE ExitFunction
  BY <1>4, NamesClose
<1>5. ASSUME NEW kind \in Kinds, Enter(kind)
      PROVE  NamesFollow'
  <2> DEFINE part == CASE kind = "conditional" -> "test" [] kind = "loop" -> "body" [] kind = "try" -> "block"
  <2>1. path' = Append(path, Frame(kind, part)) /\ UNCHANGED <<functionNameStack, currentFunctionName>>
    BY <1>5 DEF Enter
  <2>2. Frame(kind, part) \in Frames /\ Frame(kind, part).kind # "function"
    BY DEF Frames, Frame, Parts, Kinds
  <2> HIDE DEF part
  <2>3. Longer(path, path') /\ path'[Len(path')].kind # "function"
    BY <1>0, <2>1, <2>2, Opening
  <2> QED
    BY <1>0, <2>1, <2>3, NamesKeep
<1>6. ASSUME NEW kind \in Kinds, Exit(kind)
      PROVE  NamesFollow'
  <2>1. /\ path # <<>> /\ path' = Pop(path) /\ path[Len(path)].kind # "function"
        /\ UNCHANGED <<functionNameStack, currentFunctionName>>
    BY <1>6 DEF Exit, Top, Kinds
  <2>2. Longer(path', path)
    BY <1>0, <2>1, Closing
  <2> QED
    BY <1>0, <2>1, <2>2, NamesKeep
<1>7. CASE Advance
  <2>1. UNCHANGED <<functionNameStack, currentFunctionName>>
    BY <1>7 DEF Advance, ruleVars
  <2> QED
    BY <1>0, <1>7, <2>1, Advancing, NamesKeep
<1>8. CASE Return
  <2>1. UNCHANGED <<functionNameStack, currentFunctionName>>
    BY <1>8 DEF Return
  <2> QED
    BY <1>0, <1>8, <2>1, Returning, NamesKeep
<1>9. ASSUME NEW c \in Calls, CallExpression(c)
      PROVE  NamesFollow'
  BY <1>1, <1>9 DEF CallExpression, ruleVars
<1>10. CASE UNCHANGED vars
  BY <1>1, <1>10 DEF vars
<1> QED
  BY <1>2, <1>3, <1>4, <1>5, <1>6, <1>7, <1>8, <1>9, <1>10 DEF Next

(* Only a call is answered, and every other step takes the answer back.    *)
LEMMA AnswerStep == AnswerStands /\ [Next]_vars => AnswerStands'
<1> SUFFICES ASSUME AnswerStands, [Next]_vars
             PROVE  AnswerStands'
  OBVIOUS
<1>1. ASSUME Quiet
      PROVE  AnswerStands'
  BY <1>1 DEF Quiet, AnswerStands, NoCall
<1>2. ASSUME NEW c \in Calls, CallExpression(c)
      PROVE  AnswerStands'
  <2>1. call' = c /\ report' = Answer(c)
    BY <1>2 DEF CallExpression, HandleCall, Answer
  <2>2. UNCHANGED <<path, contextStack, currentFunctionName, importSourceMap>>
    BY <1>2 DEF CallExpression, ruleVars
  <2>3. Answer(call)' = Answer(c)
    BY <2>1, <2>2 DEF Answer, ShouldIgnore, IsInFinallyBlock, MessageFor, Top
  <2> QED
    BY <2>1, <2>3 DEF AnswerStands
<1>3. CASE UNCHANGED vars
  BY <1>3 DEF vars, AnswerStands, Answer, ShouldIgnore, IsInFinallyBlock, MessageFor, Top, NoCall
<1>4. CASE Next
  <2>1. Quiet \/ \E c \in Calls : CallExpression(c)
    BY <1>4 DEF Next, ImportDeclaration, EnterFunction, ExitFunction, Enter, Exit, Advance, Return
  <2> QED
    BY <1>1, <1>2, <2>1
<1> QED
  BY <1>3, <1>4

(* The invariant holds throughout.                                         *)
LEMMA IInvHolds == Spec => []IInv
<1>1. Init => IInv
  BY StackStarts, NamesStart DEF IInv, AnswerStands, Init
<1>2. IInv /\ [Next]_vars => IInv'
  BY StackStep, NamesStep, AnswerStep DEF IInv, StackInv
<1> QED
  BY <1>1, <1>2, PTL DEF Spec

-----------------------------------------------------------------------------
(* At home the nodes of the outermost component are the ones that          *)
(* EveryReportJustified speaks of.                                         *)
LEMMA OwnAreSegment ==
  ASSUME path \in Seq(Frames), Innermost(path) \in FunctionsIn(path)
  PROVE  Segment(path, Innermost(path)) = Own(path)
<1>1. /\ \A j \in FunctionsIn(path) : j <= Innermost(path)
      /\ Innermost(path) \in 1..Len(path) /\ Len(path) \in Nat
  BY InnermostType DEF FunctionsIn
<1> QED
  BY <1>1 DEF Segment, Own

(* IsInFinallyBlock looks at the nearest function or try statement only:   *)
(* it finds a finally block of the same function, and where it finds none  *)
(* an open try statement has its nearest at its block.                     *)
LEMMA FinallyIsOwn ==
  ASSUME path \in Seq(Frames), Innermost(path) \in FunctionsIn(path)
  PROVE  /\ IsInFinallyBlock => InFinally(path)
         /\ \A i \in Own(path) : path[i].kind = "try" /\ ~IsInFinallyBlock => Tried
<1> DEFINE stops == {i \in 1..Len(path) : path[i].kind \in {"function", "try"}}
           m == CHOOSE i \in stops : \A j \in stops : j <= i
<1>1. Len(path) \in Nat /\ stops \in SUBSET (1..Len(path)) /\ Innermost(path) \in stops
  BY DEF FunctionsIn
<1>2. m \in stops /\ \A j \in stops : j <= m
  <2> HIDE DEF stops
  <2> QED
    BY <1>1, GreatestExists
<1>3. IsInFinallyBlock <=> \E i \in stops : (\A j \in stops : j <= i) /\ path[i].part = "finally"
  BY DEF IsInFinallyBlock
<1>4. \A i \in stops : path[i] \in Frames /\ i \in Int
  BY <1>1, ElementOfSeq
<1>5. ASSUME IsInFinallyBlock
      PROVE  InFinally(path)
  <2>1. PICK i \in stops : (\A j \in stops : j <= i) /\ path[i].part = "finally"
    BY <1>3, <1>5
  <2>2. path[i].kind = "try"
    BY <1>4, <2>1 DEF Frames, Parts
  <2>3. path[Innermost(path)].kind = "function"
    BY DEF FunctionsIn
  <2>4. Innermost(path) <= i /\ Innermost(path) # i
    BY <1>1, <2>1, <2>2, <2>3
  <2>5. i \in Own(path)
    BY <1>1, <1>4, <2>4 DEF Own
  <2> QED
    BY <2>1, <2>2, <2>5 DEF InFinally
<1>6. ASSUME NEW i \in Own(path), path[i].kind = "try", ~IsInFinallyBlock
      PROVE  Tried
  <2>1. i \in stops /\ i > Innermost(path)
    BY <1>6 DEF Own
  <2> HIDE DEF m
  <2>2. m >= i /\ m > Innermost(path) /\ m \in 1..Len(path)
    BY <1>1, <1>2, <1>4, <2>1
  <2>3. m \in Own(path)
    BY <2>2 DEF Own
  <2>4. m \notin FunctionsIn(path)
    BY <1>1, <1>4, <2>2, InnermostType
  <2>5. path[m].kind = "try"
    BY <1>2, <2>2, <2>4 DEF FunctionsIn
  <2>6. path[m].part # "finally"
    BY <1>2, <1>3, <1>6
  <2>7. path[m].part = "block"
    BY <1>2, <1>4, <2>5, <2>6 DEF Frames, Parts
  <2> QED
    BY <2>3, <2>5, <2>7 DEF Tried
<1> QED
  BY <1>5, <1>6

(* The name of the innermost named function is DeclaredName.               *)
LEMMA NameIsDeclared ==
  ASSUME path \in Seq(Frames)
  PROVE  NameWithin(path, Len(path)) = DeclaredName
<1> DEFINE within == {i \in FunctionsIn(path) : i <= Len(path) /\ path[i].shape.name # NoName}
           named == {i \in FunctionsIn(path) : path[i].shape.name # NoName}
<1>1. \A i \in FunctionsIn(path) : i <= Len(path)
  BY DEF FunctionsIn
<1>2. within = named
  BY <1>1
<1>3. NameWithin(path, Len(path)) = IF within = {} THEN NoName
                                    ELSE path[CHOOSE i \in within : \A j \in within : j <= i].shape.name
  BY DEF NameWithin
<1>4. DeclaredName = IF named = {} THEN NoName
                     ELSE path[CHOOSE i \in named : \A j \in named : j <= i].shape.name
  BY DEF DeclaredName
<1> HIDE DEF within, named
<1> QED
  BY <1>2, <1>3, <1>4

(* A report has a context, so the call is in a component or hook. At home  *)
(* that context is the component's own, and the flag or the name that made *)
(* the message has its cause on the path.                                  *)
LEMMA InvImpliesJustified == IInv => EveryReportJustified
<1> SUFFICES ASSUME IInv, report # "none"
             PROVE  Misplaced \/ InTest(path)
  BY DEF EveryReportJustified
<1> DEFINE h == Innermost(path)
           c == contextStack[1]
<1>1. path \in Seq(Frames) /\ contextStack \in Seq(Contexts) /\ Len(contextStack) \in Nat
  BY DEF IInv, StackInv, Typed
<1>2. report = Answer(call) /\ contextStack # <<>> /\ ~IsInFinallyBlock
      /\ MessageFor(call, Top(contextStack)) # "none"
  BY DEF IInv, AnswerStands, Answer
<1>3. Len(contextStack) >= 1 /\ Nesting(path) >= 1 /\ Nesting(path) \in Nat
  BY <1>1, <1>2, PathsAreFinite DEF IInv, StackInv, StackFollows
<1>4. AtHome \/ NestedInHook
  BY <1>1, <1>3, NestingFacts, HomeFacts
<1>5. CASE NestedInHook
  BY <1>5 DEF Misplaced
<1>6. CASE AtHome
  <2>1. IsHome(path, h) /\ Nesting(path) = 1 /\ Len(contextStack) = 1
    <3>1. IsHome(path, h) /\ Nesting(path) = 1
      BY <1>1, <1>6, HomeFacts
    <3>2. Len(contextStack) <= Nesting(path)
      BY DEF IInv, StackInv, StackFollows
    <3>3. Len(contextStack) = 1
      <4> DEFINE k == Len(contextStack)
      <4>1. k \in Nat /\ k >= 1 /\ k <= 1
        BY <1>1, <1>3, <3>1, <3>2
      <4> HIDE DEF k
      <4>2. k = 1
        BY <4>1
      <4> QED
        BY <4>2 DEF k
    <3> QED
      BY <3>1, <3>3
  <2>2. Backed(path, h, c) /\ Top(contextStack) = c
    BY <2>1 DEF IInv, StackInv, StackFollows, Top
  <2>3. h \in FunctionsIn(path) /\ h # 0
    BY <1>1, <2>1, NestingFacts
  <2>4. Segment(path, h) = Own(path)
    BY <1>1, <2>3, OwnAreSegment
  <2>5. \/ call.object = NoName /\ call.hook = currentFunctionName
        \/ c.inConditional \/ c.inLoop \/ c.inTryBlock \/ c.afterEarlyReturn
    BY <1>2, <2>2 DEF MessageFor, Backed
  <2>6. CASE call.object = NoName /\ call.hook = currentFunctionName
    <3>1. currentFunctionName = DeclaredName
      BY <1>1, NameIsDeclared DEF IInv, NamesFollow
    <3> QED
      BY <1>6, <2>6, <3>1 DEF Misplaced, Recursive
  <2>7. CASE c.inConditional
    <3>1. PICK i \in Own(path) : path[i].kind = "conditional"
      BY <2>2, <2>4, <2>7 DEF Backed, Has, FieldOf, Kinds
    <3>2. path[i] \in Frames
      <4>1. i \in 1..Len(path)
        BY <3>1 DEF Own
      <4> QED
        BY <1>1, <4>1, ElementOfSeq
    <3>3. path[i].part \in {"test", "branch"}
      BY <3>1, <3>2 DEF Frames, Parts
    <3> QED
      BY <1>6, <3>1, <3>3 DEF Misplaced, Branched, InTest
  <2>8. CASE c.inLoop
    <3>1. Looped
      BY <2>2, <2>4, <2>8 DEF Backed, Has, FieldOf, Kinds, Looped
    <3> QED
      BY <1>6, <3>1 DEF Misplaced
  <2>9. CASE c.inTryBlock
    <3>1. PICK i \in Own(path) : path[i].kind = "try"
      BY <2>2, <2>4, <2>9 DEF Backed, Has, FieldOf, Kinds
    <3>2. Tried
      BY <1>1, <1>2, <2>3, <3>1, FinallyIsOwn
    <3> QED
      BY <1>6, <3>2 DEF Misplaced
  <2>10. CASE c.afterEarlyReturn
    <3>1. Returned
      BY <2>2, <2>3, <2>10 DEF Backed, Returned
    <3> QED
      BY <1>6, <3>1 DEF Misplaced
  <2> QED
    BY <2>5, <2>6, <2>7, <2>8, <2>9, <2>10
<1> QED
  BY <1>4, <1>5, <1>6

(* On a regular walk a misplaced call finds the context of the component,  *)
(* with a flag for each cause, or above it that of the nested function.    *)
LEMMA InvImpliesReported == IInv => EveryMisplacedReported
<1> SUFFICES ASSUME IInv, regular, Checked, Misplaced, ~InFinally(path)
             PROVE  report # "none"
  BY DEF EveryMisplacedReported
<1> DEFINE h == Innermost(path)
<1>1. path \in Seq(Frames) /\ contextStack \in Seq(Contexts)
  BY DEF IInv, StackInv, Typed
<1>2. report = Answer(call) /\ ~ShouldIgnore(call)
  BY DEF IInv, AnswerStands, Checked, Visited
<1>3. Len(contextStack) = Nesting(path) /\ Nesting(path) \in {0, 1, 2}
      /\ (Nesting(path) = 2 => contextStack[2].inNestedFunction)
      /\ \A g : IsHome(path, g) => Complete(path, g, contextStack[1])
  BY <1>1, PathsAreFinite DEF IInv, StackInv, StackIsExact
<1>4. h \in FunctionsIn(path)
  BY <1>1, InnermostType DEF Misplaced, NestedInHook, AtHome
<1>5. ~IsInFinallyBlock
  BY <1>1, <1>4, FinallyIsOwn
<1>6. SUFFICES contextStack # <<>> /\ MessageFor(call, Top(contextStack)) # "none"
  BY <1>2, <1>5 DEF Answer
<1>7. CASE NestedInHook
  <2>1. Nesting(path) = 2 /\ Len(contextStack) = 2
    BY <1>1, <1>3, <1>7, HomeFacts
  <2>2. Top(contextStack).inNestedFunction
    BY <1>3, <2>1 DEF Top
  <2> QED
    BY <2>1, <2>2 DEF MessageFor
<1>8. CASE AtHome /\ (Branched \/ Looped \/ Tried \/ Returned \/ Recursive)
  <2>1. IsHome(path, h) /\ Nesting(path) = 1 /\ Len(contextStack) = 1
    BY <1>1, <1>3, <1>8, HomeFacts
  <2>2. Complete(path, h, contextStack[1]) /\ Top(contextStack) = contextStack[1]
    BY <1>3, <2>1 DEF Top
  <2>3. Segment(path, h) = Own(path)
    BY <1>1, <1>4, OwnAreSegment
  <2>4. Branched => contextStack[1].inConditional
    BY <2>2, <2>3 DEF Complete, Has, FieldOf, Kinds, Branched
  <2>5. Looped => contextStack[1].inLoop
    BY <2>2, <2>3 DEF Complete, Has, FieldOf, Kinds, Looped
  <2>6. Tried => contextStack[1].inTryBlock
    BY <2>2, <2>3 DEF Complete, Has, FieldOf, Kinds, Tried
  <2>7. Returned => contextStack[1].afterEarlyReturn
    BY <2>2 DEF Complete, Returned
  <2>8. Recursive => call.object = NoName /\ call.hook = currentFunctionName
    BY <1>1, NameIsDeclared DEF IInv, NamesFollow, Recursive
  <2>9. contextStack # <<>>
    BY <2>1
  <2> QED
    BY <1>8, <2>2, <2>4, <2>5, <2>6, <2>7, <2>8, <2>9 DEF MessageFor
<1> QED
  BY <1>7, <1>8 DEF Misplaced

(* Whatever the nesting, the functions, the options and the imports, a     *)
(* hook call the rule reports is misplaced or stands in a test.            *)
THEOREM ReportsAreJustified == Spec => []EveryReportJustified
<1>1. IInv => EveryReportJustified
  BY InvImpliesJustified
<1> QED
  BY <1>1, IInvHolds, PTL

(* On a regular walk every misplaced hook call outside finally blocks is   *)
(* reported, unless the options exclude it.                                *)
THEOREM MisplacedAreReported == Spec => []EveryMisplacedReported
<1>1. IInv => EveryMisplacedReported
  BY InvImpliesReported
<1> QED
  BY <1>1, IInvHolds, PTL

-----------------------------------------------------------------------------
(* What TypeOK says beyond IInv: the bounds, and what calls and reports    *)
(* there are.                                                              *)
Bounded == Len(path) <= MaxDepth /\ call \in Calls \cup {NoCall}

(* A report is one of the messages.                                        *)
LEMMA AnswersAreMessages ==
  ASSUME NEW c
  PROVE  Answer(c) \in {"none", "recursiveHookCall", "nestedFunction", "conditionalHook", "loopHook",
                        "tryBlockHook", "afterEarlyReturn"}
BY DEF Answer, MessageFor

(* Only steps that find room open a node.                                  *)
LEMMA BoundedStep ==
  ASSUME MaxDepth \in Nat, Typed, Typed', Bounded, [Next]_vars
  PROVE  Bounded'
<1>0. path \in Seq(Frames) /\ path' \in Seq(Frames) /\ Len(path) \in Nat /\ Len(path') \in Nat
  BY DEF Typed
<1>1. CASE Quiet
  <2>1. call' \in Calls \cup {NoCall}'
    BY <1>1 DEF Quiet, NoCall
  <2>2. Len(path') <= Len(path) \/ (Opens /\ Len(path') = Len(path) + 1)
    <3>1. ASSUME NEW f, Opens, path' = Append(path, f)
          PROVE  Opens /\ Len(path') = Len(path) + 1
      BY <1>0, <3>1
    <3>2. ASSUME path # <<>>, path' = Pop(path)
          PROVE  Len(path') <= Len(path)
      BY <1>0, <3>2, Popped
    <3>3. CASE UNCHANGED path
      BY <1>0, <3>3
    <3>4. CASE \E i \in Imports : ImportDeclaration(i)
      BY <3>3, <3>4 DEF ImportDeclaration
    <3>5. CASE \E s \in Functions : EnterFunction(s)
      BY <3>1, <3>5 DEF EnterFunction
    <3>6. CASE ExitFunction
      BY <3>2, <3>6 DEF ExitFunction
    <3>7. CASE \E k \in Kinds : Enter(k)
      BY <3>1, <3>7 DEF Enter
    <3>8. CASE \E k \in Kinds : Exit(k)
      BY <3>2, <3>8 DEF Exit
    <3>9. CASE Advance
      BY <1>0, <3>9, Advancing
    <3>10. CASE Return
      BY <1>0, <3>10, Returning
    <3>11. CASE \E c \in Calls : CallExpression(c)
      BY <3>3, <3>11 DEF CallExpression
    <3>12. CASE UNCHANGED vars
      BY <3>3, <3>12 DEF vars
    <3> QED
      BY <3>4, <3>5, <3>6, <3>7, <3>8, <3>9, <3>10, <3>11, <3>12 DEF Next
  <2>3. Len(path') <= MaxDepth
    BY <1>0, <2>2 DEF Opens, Bounded
  <2> QED
    BY <2>1, <2>3 DEF Bounded, Calls
<1>2. CASE \E c \in Calls : CallExpression(c)
  BY <1>2 DEF CallExpression, Bounded, Calls, NoCall
<1>3. CASE UNCHANGED vars
  BY <1>3 DEF vars, Bounded, Calls, NoCall
<1>4. Quiet \/ (\E c \in Calls : CallExpression(c)) \/ UNCHANGED vars
  BY DEF Next, ImportDeclaration, EnterFunction, ExitFunction, Enter, Exit, Advance, Return
<1> QED
  BY <1>1, <1>2, <1>3, <1>4

(* The types hold: contexts keep their fields, and there is one outer name *)
(* for each open function.                                                 *)
THEOREM TypesHold ==
  ASSUME MaxDepth \in Nat
  PROVE  Spec => []TypeOK
<1>1. Init => Bounded
  BY DEF Init, Bounded
<1>2. Typed /\ Typed' /\ Bounded /\ [Next]_vars => Bounded'
  BY BoundedStep
<1>3. IInv => Typed
  BY DEF IInv, StackInv
<1>4. IInv /\ Bounded => TypeOK
  <2> SUFFICES ASSUME IInv, Bounded
               PROVE  TypeOK
    OBVIOUS
  <2>1. ASSUME NEW i \in 1..Len(contextStack)
        PROVE  DOMAIN contextStack[i] = DOMAIN CleanContext
    <3>1. contextStack[i] \in Contexts
      BY ElementOfSeq DEF IInv, StackInv, Typed
    <3> QED
      BY <3>1 DEF Contexts, CleanContext
  <2>2. report \in {"none", "recursiveHookCall", "nestedFunction", "conditionalHook", "loopHook",
                    "tryBlockHook", "afterEarlyReturn"}
    BY AnswersAreMessages DEF IInv, AnswerStands
  <2> QED
    BY <2>1, <2>2 DEF TypeOK, Bounded, IInv, StackInv, Typed, NamesFollow
<1> QED
  BY <1>1, <1>2, <1>3, <1>4, IInvHolds, PTL DEF Spec
=============================================================================
