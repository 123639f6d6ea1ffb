------------------------- MODULE RegenerationProofs -------------------------
(***************************************************************************)
(* Proofs about Regeneration.tla, RelationRules.tla and                    *)
(* RelationTables.tla, for any rules, pairs, verdicts, pins, denials and   *)
(* cap: what the cap keeps of any set of relations, that every property of *)
(* the files holds over any number of runs that may fail or be killed      *)
(* anywhere, and that no doubt publishes a pair.                           *)
(*                                                                         *)
(* The cap is a fold over a set. What a fold computes is proved by         *)
(* induction on finite sets, with families of sets in place of predicates. *)
(***************************************************************************)
EXTENDS Regeneration, PairDecisions, FiniteSetTheorems, TLAPS

(* A set of numbers that holds zero and with each number the next holds    *)
(* all of them: the least number outside it would have a predecessor.      *)
LEMMA NaturalsIn ==
  ASSUME NEW S, 0 \in S, \A n \in Nat : n \in S => n + 1 \in S
  PROVE  Nat \subseteq S
<1> SUFFICES ASSUME NEW T, T = Nat \ S, T # {} PROVE FALSE
  OBVIOUS
<1> DEFINE less == OpToRel(<, Nat)
<1>1. IsWellFoundedOn(less, Nat)
  BY NatLessThanWellFounded
<1>2. \A x, y \in Nat : y < x => <<y, x>> \in less
  BY DEF OpToRel
<1> HIDE DEF less
<1>3. PICK x \in T : \A y \in T : ~ (<<y, x>> \in less)
  BY <1>1, WFMin
<1>4. x \in Nat /\ x # 0 /\ x - 1 \in Nat
  OBVIOUS
<1>5. <<x - 1, x>> \in less
  BY <1>2, <1>4
<1>6. x - 1 \in S
  BY <1>3, <1>4, <1>5
<1>7. x - 1 + 1 = x
  BY <1>4
<1> QED
  BY <1>4, <1>6, <1>7

(* Hence a family of finite sets that holds the empty set, and every other *)
(* set if it holds that set without some element, holds all of them.       *)
LEMMA FiniteSetsIn ==
  ASSUME NEW S, IsFiniteSet(S), NEW F, {} \in F,
         \A T \in SUBSET S : T # {} => \E x \in T : T \ {x} \in F => T \in F
  PROVE  \A T \in SUBSET S : T \in F
<1> DEFINE N == {n \in Nat : \A T \in SUBSET S : Cardinality(T) = n => T \in F}
<1>1. \A T \in SUBSET S : IsFiniteSet(T) /\ Cardinality(T) \in Nat
  BY FS_Subset, FS_CardinalityType
<1>2. 0 \in N
  BY <1>1, FS_EmptySet
<1>3. ASSUME NEW n \in Nat, n \in N
      PROVE  n + 1 \in N
  <2> SUFFICES ASSUME NEW T \in SUBSET S, Cardinality(T) = n + 1
               PROVE  T \in F
    OBVIOUS
  <2>1. T # {}
    <3>1. Cardinality({}) = 0
      BY FS_EmptySet
    <3>2. n + 1 # 0
      OBVIOUS
    <3> HIDE DEF N
    <3> QED
      BY <3>1, <3>2
  <2>2. PICK x \in T : T \ {x} \in F => T \in F
    BY <2>1
  <2>3. Cardinality(T \ {x}) = n
    <3>1. IsFiniteSet(T)
      BY <1>1
    <3>2. Cardinality(T \ {x}) = Cardinality(T) - 1
      BY <3>1, FS_RemoveElement
    <3> QED
      BY <3>2
  <2> QED
    BY <1>3, <2>2, <2>3
<1> HIDE DEF N
<1>4. Nat \subseteq N
  BY <1>2, <1>3, NaturalsIn
<1> QED
  BY <1>1, <1>4 DEF N

-----------------------------------------------------------------------------
(* The cap. A scored relation is between two rules and has a strength.     *)
Scoreds == [from : Nat, kind : Kinds, to : Nat, strength : Nat]

(* Kinds have different ranks.                                             *)
LEMMA Ranks ==
  /\ KindRank \in [Kinds -> 1..4]
  /\ \A j, k \in Kinds : KindRank[j] = KindRank[k] => j = k
BY DEF KindRank, Kinds, DirectedKinds, UndirectedKinds

(* Of two scored relations exactly one outranks the other, and outranking  *)
(* is transitive. *)
LEMMA OutranksIsAnOrder ==
  /\ \A a, b \in Scoreds : a # b => Outranks(a, b) \/ Outranks(b, a)
  /\ \A a, b \in Scoreds : ~ (Outranks(a, b) /\ Outranks(b, a))
  /\ \A a, b, c \in Scoreds : Outranks(a, b) /\ Outranks(b, c) => Outranks(a, c)
<1>1. \A a, b \in Scoreds : a.from = b.from /\ a.kind = b.kind /\ a.to = b.to /\ a.strength = b.strength => a = b
  BY DEF Scoreds
<1>2. \A a \in Scoreds : a.from \in Nat /\ a.to \in Nat /\ a.strength \in Nat /\ KindRank[a.kind] \in Nat
  BY Ranks DEF Scoreds
<1>3. \A a, b \in Scoreds : KindRank[a.kind] = KindRank[b.kind] => a.kind = b.kind
  BY Ranks DEF Scoreds
<1>4. \A a, b \in Scoreds : a # b => Outranks(a, b) \/ Outranks(b, a)
  <2> TAKE a, b \in Scoreds
  <2> HAVE a # b
  <2> QED BY <1>1, <1>2, <1>3 DEF Outranks
<1>5. \A a, b \in Scoreds : ~ (Outranks(a, b) /\ Outranks(b, a))
  BY <1>2 DEF Outranks
<1>6. \A a, b, c \in Scoreds : Outranks(a, b) /\ Outranks(b, c) => Outranks(a, c)
  BY <1>2 DEF Outranks
<1> QED
  BY <1>4, <1>5, <1>6

(* Hence every finite set of them has a weakest element.                   *)
LEMMA WeakestExists ==
  ASSUME NEW S, S \subseteq Scoreds, IsFiniteSet(S)
  PROVE  \A ss \in SUBSET S : ss # {} =>
           /\ Weakest(ss) \in ss
           /\ \A t \in ss \ {Weakest(ss)} : Outranks(t, Weakest(ss))
<1> DEFINE F == {ss \in SUBSET S : ss # {} => \E s \in ss : \A t \in ss \ {s} : Outranks(t, s)}
<1>1. {} \in F
  OBVIOUS
<1>2. ASSUME NEW T \in SUBSET S, NEW x \in T, T \ {x} \in F
      PROVE  T \in F
  <2>1. CASE T \ {x} = {}
    BY <2>1
  <2>2. CASE T \ {x} # {}
    <3>1. PICK s \in T \ {x} : \A t \in (T \ {x}) \ {s} : Outranks(t, s)
      BY <1>2, <2>2
    <3>2. s \in Scoreds /\ x \in Scoreds /\ s # x /\ \A t \in T : t \in Scoreds
      OBVIOUS
    <3>3. CASE Outranks(x, s)
      BY <3>1, <3>3
    <3>4. CASE Outranks(s, x)
      <4>1. \A t \in T \ {x} : Outranks(t, x)
        BY <3>1, <3>2, <3>4, OutranksIsAnOrder
      <4> QED
        BY <4>1
    <3> QED
      BY <3>2, <3>3, <3>4, OutranksIsAnOrder
  <2> QED
    BY <2>1, <2>2
<1> HIDE DEF F
<1>3. \A T \in SUBSET S : T # {} => \E x \in T : T \ {x} \in F => T \in F
  BY <1>2
<1>4. \A ss \in SUBSET S : ss \in F
  BY Zenon, <1>1, <1>3, FiniteSetsIn
<1> QED
  BY <1>4 DEF F, Weakest

-----------------------------------------------------------------------------
(* One turn of the cap's loop: what is kept of ss, given what is kept of   *)
(* the smaller sets. *)
CapTurn(kept, ss, max) ==
  IF ss = {} THEN {}
  ELSE IF Room(kept[ss \ {Weakest(ss)}], Weakest(ss), max)
       THEN kept[ss \ {Weakest(ss)}] \cup {Weakest(ss)}
       ELSE kept[ss \ {Weakest(ss)}]

(* The cap's recursive function exists: a function that is right for the   *)
(* sets of up to n elements is extended to those of n + 1.                 *)
LEMMA CapUnfolds ==
  ASSUME NEW scored, scored \subseteq Scoreds, IsFiniteSet(scored), NEW max
  PROVE  \E kept : /\ ApplyCap(scored, max) = kept[scored]
                   /\ \A ss \in SUBSET scored : kept[ss] = CapTurn(kept, ss, max)
<1> DEFINE Right(g, n) == \A ss \in SUBSET scored : Cardinality(ss) <= n => g[ss] = CapTurn(g, ss, max)
           N == {n \in Nat : \E g : Right(g, n)}
<1>1. \A ss \in SUBSET scored : IsFiniteSet(ss) /\ Cardinality(ss) \in Nat
  BY FS_Subset, FS_CardinalityType
<1>2. ASSUME NEW ss \in SUBSET scored, ss # {}
      PROVE  /\ ss \ {Weakest(ss)} \in SUBSET scored
             /\ Cardinality(ss \ {Weakest(ss)}) = Cardinality(ss) - 1
  <2>1. Weakest(ss) \in ss
    BY <1>2, WeakestExists
  <2>2. IsFiniteSet(ss)
    BY <1>1
  <2> QED
    BY <2>1, <2>2, FS_RemoveElement
<1>3. 0 \in N
  <2> DEFINE g == [ss \in SUBSET scored |-> {}]
  <2>1. \A ss \in SUBSET scored : Cardinality(ss) <= 0 => ss = {}
    BY <1>1, FS_EmptySet
  <2>2. Right(g, 0)
    BY <2>1 DEF CapTurn
  <2> QED
    BY <2>2
<1>4. ASSUME NEW n \in Nat, n \in N
      PROVE  n + 1 \in N
  <2>1. PICK g : Right(g, n)
    BY <1>4
  <2> DEFINE h == [ss \in SUBSET scored |-> IF Cardinality(ss) <= n THEN g[ss] ELSE CapTurn(g, ss, max)]
  <2>2. ASSUME NEW ss \in SUBSET scored, Cardinality(ss) <= n + 1
        PROVE  h[ss] = CapTurn(h, ss, max)
    <3>1. CASE ss = {}
      <4>1. h[ss] = {}
        BY <2>1, <3>1, FS_EmptySet DEF CapTurn
      <4> QED
        BY <3>1, <4>1 DEF CapTurn
    <3>2. CASE ss # {}
      <4> DEFINE rest == ss \ {Weakest(ss)}
      <4>1. rest \in SUBSET scored /\ Cardinality(rest) <= n
        BY <1>1, <1>2, <2>2, <3>2
      <4>2. h[rest] = g[rest]
        BY <4>1
      <4>3. CapTurn(h, ss, max) = CapTurn(g, ss, max)
        BY <3>2, <4>2 DEF CapTurn
      <4>4. h[ss] = CapTurn(g, ss, max)
        BY <2>1
      <4> QED
        BY <4>3, <4>4
    <3> QED
      BY <3>1, <3>2
  <2> HIDE DEF h
  <2>3. Right(h, n + 1)
    BY <2>2
  <2> HIDE DEF Right
  <2> QED
    BY <2>3
<1>5. \E g : Right(g, Cardinality(scored))
  <2> HIDE DEF N
  <2>1. Nat \subseteq N
    BY <1>3, <1>4, NaturalsIn
  <2>2. Cardinality(scored) \in N
    BY <1>1, <2>1
  <2> QED
    BY <2>2 DEF N
<1>6. PICK g : Right(g, Cardinality(scored))
  BY <1>5
<1> DEFINE Is(f) == f = [ss \in SUBSET scored |-> CapTurn(f, ss, max)]
           kept == [ss \in SUBSET scored |-> g[ss]]
<1>7. Is(kept)
  <2>1. ASSUME NEW ss \in SUBSET scored
        PROVE  g[ss] = CapTurn(kept, ss, max)
    <3>1. Cardinality(ss) <= Cardinality(scored)
      BY FS_Subset
    <3>2. g[ss] = CapTurn(g, ss, max)
      BY <1>6, <3>1
    <3>3. CapTurn(g, ss, max) = CapTurn(kept, ss, max)
      <4>1. CASE ss = {}
        BY <4>1 DEF CapTurn
      <4>2. CASE ss # {}
        <5>1. kept[ss \ {Weakest(ss)}] = g[ss \ {Weakest(ss)}]
          BY <1>2, <4>2
        <5> QED
          BY <5>1 DEF CapTurn
      <4> QED
        BY <4>1, <4>2
    <3> QED
      BY <3>2, <3>3
  <2> QED
    BY <2>1
<1> DEFINE iter == CHOOSE f : Is(f)
<1>8. Is(iter)
  <2> HIDE DEF Is, kept
  <2> QED
    BY <1>7
<1>9. ApplyCap(scored, max) = iter[scored]
  BY DEF ApplyCap, MapThenFoldSet, CapTurn
<1>10. \A ss \in SUBSET scored : iter[ss] = CapTurn(iter, ss, max)
  <2> HIDE DEF iter
  <2> QED
    BY <1>8
<1> HIDE DEF iter
<1> QED
  BY <1>9, <1>10

(* Turn by turn: the cap keeps some of what it is given, at most max of    *)
(* each rule, and is greedy.                                               *)
LEMMA CapKeeps ==
  ASSUME NEW scored, scored \subseteq Scoreds, IsFiniteSet(scored), NEW max \in Nat
  PROVE  /\ ApplyCap(scored, max) \subseteq scored
         /\ \A r : Degree(ApplyCap(scored, max), r) <= max
         /\ CapIsGreedy(scored, max)
<1>1. PICK kept : /\ ApplyCap(scored, max) = kept[scored]
                  /\ \A ss \in SUBSET scored : kept[ss] = CapTurn(kept, ss, max)
  BY CapUnfolds
<1> DEFINE Greedy(ss) == \A s \in ss : s \in kept[ss] <=>
                           \A r \in PairKey(s) : Degree({t \in kept[ss] : Outranks(t, s)}, r) < max
           F == {ss \in SUBSET scored : /\ kept[ss] \subseteq ss
                                        /\ \A r : Degree(kept[ss], r) <= max
                                        /\ Greedy(ss)}
<1>2. {} \in F
  <2>1. kept[{}] = {}
    BY <1>1 DEF CapTurn
  <2>2. \A r : Degree({}, r) = 0
    BY FS_EmptySet DEF Degree
  <2> QED
    BY <2>1, <2>2
<1>3. ASSUME NEW ss \in SUBSET scored, ss # {}, ss \ {Weakest(ss)} \in F
      PROVE  ss \in F
  <2> DEFINE w == Weakest(ss)
             rest == ss \ {w}
  <2>1. w \in ss /\ \A t \in rest : Outranks(t, w)
    BY <1>3, WeakestExists
  <2>2. kept[ss] = IF Room(kept[rest], w, max) THEN kept[rest] \cup {w} ELSE kept[rest]
    BY <1>1, <1>3 DEF CapTurn
  <2>3. kept[rest] \subseteq rest /\ (\A r : Degree(kept[rest], r) <= max) /\ Greedy(rest)
    BY <1>3
  <2> HIDE DEF w
  <2>4. kept[ss] \subseteq ss
    BY <2>1, <2>2, <2>3
  <2>5. \A r : Degree(kept[ss], r) <= max
    <3>1. CASE ~ Room(kept[rest], w, max)
      BY <2>2, <2>3, <3>1
    <3>2. CASE Room(kept[rest], w, max)
      <4> SUFFICES ASSUME NEW r PROVE Degree(kept[ss], r) <= max
        OBVIOUS
      <4> DEFINE old == {e \in kept[rest] : r \in PairKey(e)}
      <4>1. IsFiniteSet(old)
        <5>1. old \in SUBSET scored
          BY <2>3
        <5> QED
          BY <5>1, FS_Subset
      <4>2. CASE r \notin PairKey(w)
        <5>1. {e \in kept[ss] : r \in PairKey(e)} = old
          BY <2>2, <3>2, <4>2
        <5> QED
          BY <2>3, <5>1 DEF Degree
      <4>3. CASE r \in PairKey(w)
        <5>1. {e \in kept[ss] : r \in PairKey(e)} = old \cup {w}
          BY <2>2, <3>2, <4>3
        <5>2. w \notin old
          BY <2>3
        <5>3. Cardinality(old \cup {w}) = Cardinality(old) + 1
          BY <4>1, <5>2, FS_AddElement
        <5>4. Cardinality(old) < max /\ Cardinality(old) \in Nat
          BY <3>2, <4>1, <4>3, FS_CardinalityType DEF Room, Degree, PairKey
        <5>5. Degree(kept[ss], r) = Cardinality(old) + 1
          BY <5>1, <5>3 DEF Degree
        <5> HIDE DEF old
        <5> QED
          BY <5>4, <5>5
      <4> QED
        BY <4>2, <4>3
    <3> QED
      BY <3>1, <3>2
  <2>6. Greedy(ss)
    <3> SUFFICES ASSUME NEW s \in ss
                 PROVE  s \in kept[ss] <=>
                          \A r \in PairKey(s) : Degree({t \in kept[ss] : Outranks(t, s)}, r) < max
      OBVIOUS
    <3>1. w \in Scoreds /\ s \in Scoreds /\ rest \subseteq Scoreds
      BY <2>1
    <3>2. CASE s = w
      <4>1. {t \in kept[ss] : Outranks(t, w)} = kept[rest]
        BY <2>1, <2>2, <2>3, <3>1, OutranksIsAnOrder
      <4>2. Room(kept[rest], w, max) <=> \A r \in PairKey(w) : Degree(kept[rest], r) < max
        BY DEF Room, PairKey
      <4>3. w \in kept[ss] <=> Room(kept[rest], w, max)
        BY <2>2, <2>3
      <4> QED
        BY <3>2, <4>1, <4>2, <4>3
    <3>3. CASE s # w
      <4>1. s \in rest /\ ~ Outranks(w, s)
        BY <2>1, <3>1, <3>3, OutranksIsAnOrder
      <4>2. {t \in kept[ss] : Outranks(t, s)} = {t \in kept[rest] : Outranks(t, s)}
        BY <2>2, <4>1
      <4>3. s \in kept[ss] <=> s \in kept[rest]
        BY <2>2, <3>3
      <4> QED
        BY <2>3, <4>1, <4>2, <4>3
    <3> QED
      BY <3>2, <3>3
  <2> HIDE DEF Greedy
  <2> QED
    BY <2>4, <2>5, <2>6
<1>4. \A T \in SUBSET scored : T # {} => \E x \in T : T \ {x} \in F => T \in F
  <2> HIDE DEF F
  <2> SUFFICES ASSUME NEW T \in SUBSET scored, T # {}
               PROVE  \E x \in T : T \ {x} \in F => T \in F
    OBVIOUS
  <2>1. Weakest(T) \in T
    BY WeakestExists
  <2> QED
    BY <1>3, <2>1
<1>5. scored \in F
  <2> HIDE DEF F
  <2>1. \A T \in SUBSET scored : T \in F
    BY <1>2, <1>4, FiniteSetsIn
  <2> QED
    BY <2>1
<1> QED
  BY <1>1, <1>5 DEF CapIsGreedy

(* Whatever relations it is given, the cap keeps those, and only those,    *)
(* that fewer than max stronger kept ones touch at each of their rules: it *)
(* never drops a relation for a weaker one, and drops none without need.   *)
THEOREM CapIsTheGreedyChoice ==
  ASSUME NEW scored, scored \subseteq Scoreds, IsFiniteSet(scored), NEW max \in Nat
  PROVE  CapIsGreedy(scored, max)
BY CapKeeps

-----------------------------------------------------------------------------
(* The values of a function on a finite set are finitely many.             *)
LEMMA FiniteImage ==
  ASSUME NEW S, IsFiniteSet(S), NEW f
  PROVE  IsFiniteSet({f[x] : x \in S})
<1> DEFINE T == {f[x] : x \in S}
           g == [x \in S |-> f[x]]
<1>1. g \in Surjection(S, T)
  BY DEF Surjection
<1> HIDE DEF g, T
<1>2. IsFiniteSet(T)
  BY <1>1, FS_Surjection
<1> QED
  BY <1>2 DEF T

(* Relations of different pairs, all of them pairs of ys, are no more than *)
(* the relations of ys: for each rule, and each to be counted once.        *)
LEMMA DegreeByPairs ==
  ASSUME NEW xs, NEW ys, IsFiniteSet(ys), NEW r,
         \A d, e \in xs : PairKey(d) = PairKey(e) => d = e,
         PairKeys(xs) \subseteq PairKeys(ys)
  PROVE  /\ Degree(xs, r) \in Nat
         /\ Degree(xs, r) <= Degree(ys, r)
<1> DEFINE X == {e \in xs : r \in PairKey(e)}
           Y == {e \in ys : r \in PairKey(e)}
           f == [e \in X |-> CHOOSE y \in ys : PairKey(y) = PairKey(e)]
<1>1. \A e \in X : f[e] \in Y /\ PairKey(f[e]) = PairKey(e)
  BY DEF PairKeys
<1>2. f \in Injection(X, Y)
  <2>1. f \in [X -> Y]
    BY <1>1
  <2>2. \A d, e \in X : f[d] = f[e] => d = e
    BY <1>1
  <2> HIDE DEF f, X, Y
  <2> QED
    BY <2>1, <2>2 DEF Injection, IsInjective
<1>3. IsFiniteSet(Y)
  BY FS_Subset
<1> HIDE DEF f, X, Y
<1>4. IsFiniteSet(X) /\ Cardinality(X) <= Cardinality(Y)
  BY <1>2, <1>3, FS_Injection
<1>5. Cardinality(X) \in Nat
  BY <1>4, FS_CardinalityType
<1> QED
  BY <1>4, <1>5 DEF Degree, X, Y

-----------------------------------------------------------------------------
(* What the variables hold *)
Edges == [from : Rules, kind : Kinds, to : Rules, strength : Nat, reason : Reasons]
IsEdges(es) == IsFiniteSet(es) /\ es \subseteq Edges /\ Parses(es)
Typed ==
  /\ verdict \in [PairSet -> Answers]
  /\ judged \in JudgedSets \cup {{}}
  /\ IsEdges(existing)
  /\ document # Torn => IsEdges(document.edges)

(* A judged pair is two rules, the lower and the upper.                    *)
LEMMA TwoRules ==
  ASSUME NEW k \in PairSet
  PROVE  \E a, b \in Rules : /\ a < b /\ k = {a, b}
                             /\ Lower(k) = a /\ Upper(k) = b
<1>1. k \subseteq Rules /\ Cardinality(k) = 2 /\ Rules \subseteq Nat /\ IsFiniteSet(Rules)
  BY RegenerationAssumption DEF PairSet
<1>2. IsFiniteSet(k)
  BY <1>1, FS_Subset
<1>3. k # {}
  <2>1. Cardinality({}) = 0
    BY FS_EmptySet
  <2> QED
    BY <1>1, <2>1
<1>4. PICK a \in k : TRUE
  BY <1>3
<1>5. IsFiniteSet(k \ {a}) /\ Cardinality(k \ {a}) = 1
  <2>1. Cardinality(k \ {a}) = Cardinality(k) - 1
    BY <1>2, FS_RemoveElement
  <2>2. IsFiniteSet(k \ {a})
    BY <1>2, FS_RemoveElement
  <2> QED
    BY <1>1, <2>1, <2>2
<1>6. PICK b : k \ {a} = {b}
  BY <1>5, FS_Singleton
<1>7. k = {a, b} /\ a # b /\ a \in Nat /\ b \in Nat
  BY <1>1, <1>4, <1>6
<1>8. CASE a < b
  <2>1. Lower(k) = a /\ Upper(k) = b
    BY <1>7, <1>8 DEF Lower, Upper
  <2> QED
    BY <1>1, <1>7, <1>8, <2>1
<1>9. CASE b < a
  <2>1. Lower(k) = b /\ Upper(k) = a
    BY <1>7, <1>9 DEF Lower, Upper
  <2> QED
    BY <1>1, <1>7, <1>9, <2>1
<1> QED
  BY <1>7, <1>8, <1>9

(* A judgment of two rules resolves to nothing, to a review, or to a       *)
(* relation between the two.                                               *)
LEMMA ResolvePairType ==
  ASSUME NEW j, NEW left, NEW right, NEW thresholds
  PROVE  LET R == ResolvePair(j, left, right, thresholds)
         IN  /\ R.type \in {"none", "review", "relation"}
             /\ R.type = "relation" =>
                  /\ R.strength = j.publish
                  /\ R.relation.kind \in Kinds
                  /\ Identity(R.relation) = R.relation
                  /\ \/ R.relation.from = left /\ R.relation.to = right
                     \/ R.relation.from = right /\ R.relation.to = left
<1> DEFINE R == ResolvePair(j, left, right, thresholds)
           Good(e) == /\ e.kind \in Kinds /\ Identity(e) = e
                      /\ \/ e.from = left /\ e.to = right
                         \/ e.from = right /\ e.to = left
           accepted == {c \in DirectedCandidates(j, left, right) : c[2] >= thresholds.accept}
<1>1. \A kind \in Kinds : Good(Relation(left, kind, right)) /\ Good(Relation(right, kind, left))
  BY DEF Relation, Identity
<1>2. \A c \in DirectedCandidates(j, left, right) : Good(c[1])
  BY <1>1 DEF DirectedCandidates, Kinds, DirectedKinds
<1>3. Good(Relation(left, "overlaps", right)) /\ Good(Relation(left, "related", right))
  BY <1>1 DEF Kinds, UndirectedKinds
<1>4. accepted # {} => Good((CHOOSE c \in accepted : TRUE)[1])
  BY <1>2
<1>5. None.type = "none" /\ Review(j).type = "review"
  BY DEF None, Review
<1>6. \A e : Accepts(j, e).type = "relation" /\ Accepts(j, e).strength = j.publish /\ Accepts(j, e).relation = e
  BY DEF Accepts
<1>7. \/ R = None \/ R = Review(j)
      \/ \E e : R = Accepts(j, e) /\ Good(e)
  <2> HIDE DEF Good
  <2>1. CASE accepted # {}
    BY <1>4, <2>1 DEF ResolvePair
  <2>2. CASE accepted = {}
    BY <1>3, <2>2 DEF ResolvePair
  <2> QED
    BY <2>1, <2>2
<1> HIDE DEF R, Good
<1>8. R.type \in {"none", "review", "relation"}
  BY <1>5, <1>6, <1>7
<1>9. R.type = "relation" => R.strength = j.publish /\ Good(R.relation)
  BY <1>5, <1>6, <1>7
<1> QED
  BY <1>8, <1>9 DEF R, Good

-----------------------------------------------------------------------------
(* What the cap is given in a run: the accepted relations of the judged    *)
(* pairs, and the retained edges.                                          *)
FreshScored(k) == Scored(Resolutions[k].relation, Resolutions[k].strength)
FreshInput == {FreshScored(k) : k \in {j \in judged : Resolutions[j].type = "relation"}}
RetainedInput == {Scored(e, e.strength) : e \in Retained}
FreshKept == {s \in Kept : PairKey(s) \in judged}

(* Judged pairs are known pairs, and finitely many.                        *)
LEMMA JudgedPairs ==
  ASSUME Typed
  PROVE  judged \subseteq PairSet /\ IsFiniteSet(judged)
<1>1. judged \subseteq PairSet
  BY DEF Typed, PairSet
<1>2. judged \subseteq SUBSET Rules
  BY <1>1, RegenerationAssumption DEF PairSet
<1>3. IsFiniteSet(Rules)
  BY RegenerationAssumption
<1>4. IsFiniteSet(SUBSET Rules)
  BY <1>3, FS_SUBSET
<1> QED
  BY <1>1, <1>2, <1>4, FS_Subset

(* Each resolves to a relation between its two rules, if to any.           *)
LEMMA ResolutionsType ==
  ASSUME Typed, NEW k \in judged
  PROVE  /\ Resolutions[k].type \in {"none", "review", "relation"}
         /\ Resolutions[k].type = "relation" =>
              /\ PairKey(Resolutions[k].relation) = k
              /\ Identity(Resolutions[k].relation) = Resolutions[k].relation
              /\ PairKey(FreshScored(k)) = k
              /\ Identity(FreshScored(k)) = Resolutions[k].relation
              /\ FreshScored(k) \in [from : Rules, kind : Kinds, to : Rules, strength : Nat]
<1> DEFINE R == Resolutions[k]
<1>1. k \in PairSet
  BY JudgedPairs
<1>2. Lower(k) \in Rules /\ Upper(k) \in Rules /\ k = {Lower(k), Upper(k)}
  BY <1>1, TwoRules
<1>3. R = ResolvePair(verdict[k], Lower(k), Upper(k), Thresholds)
  BY DEF Resolutions
<1>4. verdict[k].publish \in Nat
  BY <1>1, RegenerationAssumption DEF Typed
<1>5. R.type \in {"none", "review", "relation"}
  BY <1>3, ResolvePairType
<1>6. R.type = "relation" =>
        /\ R.strength \in Nat
        /\ R.relation.kind \in Kinds
        /\ Identity(R.relation) = R.relation
        /\ R.relation.from \in Rules /\ R.relation.to \in Rules
        /\ PairKey(R.relation) = k
  <2>1. R.type = "relation" =>
          /\ R.strength = verdict[k].publish
          /\ R.relation.kind \in Kinds
          /\ Identity(R.relation) = R.relation
          /\ \/ R.relation.from = Lower(k) /\ R.relation.to = Upper(k)
             \/ R.relation.from = Upper(k) /\ R.relation.to = Lower(k)
    BY <1>3, ResolvePairType
  <2> HIDE DEF R
  <2> QED
    BY <1>2, <1>4, <2>1 DEF PairKey
<1> HIDE DEF R
<1>7. FreshScored(k) = [from |-> R.relation.from, kind |-> R.relation.kind, to |-> R.relation.to, strength |-> R.strength]
  BY DEF FreshScored, Scored, R
<1>8. PairKey(FreshScored(k)) = PairKey(R.relation) /\ Identity(FreshScored(k)) = Identity(R.relation)
  BY <1>7 DEF PairKey, Identity
<1> QED
  BY <1>5, <1>6, <1>7, <1>8 DEF R

(* Kept are finitely many of these, none of their rules above the cap.     *)
LEMMA KeptIsCapped ==
  ASSUME Typed
  PROVE  /\ IsFiniteSet(Kept)
         /\ Kept \subseteq FreshInput \cup RetainedInput
         /\ \A r : Degree(Kept, r) <= MaxPerRule
<1> DEFINE input == FreshInput \cup RetainedInput
<1>1. Kept = ApplyCap(input, MaxPerRule)
  BY DEF Kept, FreshInput, RetainedInput, FreshScored
<1>2. IsFiniteSet(FreshInput)
  <2> DEFINE J == {j \in judged : Resolutions[j].type = "relation"}
             f == [k \in J |-> FreshScored(k)]
  <2>1. IsFiniteSet(J)
    BY JudgedPairs, FS_Subset
  <2>2. FreshInput = {f[k] : k \in J}
    BY DEF FreshInput
  <2> HIDE DEF J, f
  <2> QED
    BY <2>1, <2>2, FiniteImage
<1>3. IsFiniteSet(RetainedInput)
  <2> DEFINE f == [e \in Retained |-> Scored(e, e.strength)]
  <2>1. IsFiniteSet(existing) /\ Retained \in SUBSET existing
    BY DEF Typed, IsEdges, Retained
  <2>2. IsFiniteSet(Retained)
    BY <2>1, FS_Subset
  <2>3. RetainedInput = {f[e] : e \in Retained}
    BY DEF RetainedInput
  <2> HIDE DEF f
  <2> QED
    BY <2>2, <2>3, FiniteImage
<1>4. FreshInput \subseteq Scoreds
  <2> SUFFICES ASSUME NEW k \in judged, Resolutions[k].type = "relation"
               PROVE  FreshScored(k) \in Scoreds
    BY DEF FreshInput
  <2>1. FreshScored(k) \in [from : Rules, kind : Kinds, to : Rules, strength : Nat]
    BY ResolutionsType
  <2>2. Rules \subseteq Nat
    BY RegenerationAssumption
  <2> QED
    BY <2>1, <2>2 DEF Scoreds
<1>5. RetainedInput \subseteq Scoreds
  <2> SUFFICES ASSUME NEW e \in existing
               PROVE  Scored(e, e.strength) \in Scoreds
    BY DEF RetainedInput, Retained
  <2>1. e \in Edges
    BY DEF Typed, IsEdges
  <2>2. Rules \subseteq Nat
    BY RegenerationAssumption
  <2> QED
    BY <2>1, <2>2 DEF Edges, Scored, Scoreds
<1>6. IsFiniteSet(input)
  BY <1>2, <1>3, FS_Union
<1>7. MaxPerRule \in Nat
  BY RegenerationAssumption
<1> HIDE DEF input
<1>8. input \subseteq Scoreds
  BY <1>4, <1>5 DEF input
<1>9. Kept \subseteq input /\ \A r : Degree(Kept, r) <= MaxPerRule
  BY <1>1, <1>6, <1>7, <1>8, CapKeeps
<1>10. IsFiniteSet(Kept)
  BY <1>6, <1>9, FS_Subset
<1> QED
  BY <1>9, <1>10 DEF input

(* A kept relation of a judged pair is what the pair was resolved to.      *)
LEMMA FreshKeptType ==
  ASSUME Typed, NEW s \in FreshKept
  PROVE  /\ PairKey(s) \in judged
         /\ Resolutions[PairKey(s)].type = "relation"
         /\ s = FreshScored(PairKey(s))
         /\ Identity(s) = Resolutions[PairKey(s)].relation
<1>1. PairKey(s) \in judged /\ s \in FreshInput \cup RetainedInput
  BY KeptIsCapped DEF FreshKept
<1>2. s \notin RetainedInput
  <2>1. \A e : PairKey(Scored(e, e.strength)) = PairKey(e)
    BY DEF Scored, PairKey
  <2> QED
    BY <1>1, <2>1 DEF RetainedInput, Retained
<1>3. PICK k \in judged : Resolutions[k].type = "relation" /\ s = FreshScored(k)
  BY <1>1, <1>2 DEF FreshInput
<1> QED
  BY <1>1, <1>3, ResolutionsType

(* Hence a judged pair has one of them at most.                            *)
LEMMA FreshKeptOnce ==
  ASSUME Typed, NEW s \in FreshKept, NEW t \in FreshKept, PairKey(s) = PairKey(t)
  PROVE  s = t
BY FreshKeptType

-----------------------------------------------------------------------------
(* All the reasons of a run are in.                                        *)
ReasonsIn == fresh = FreshKept /\ DOMAIN written = fresh

(* What is assembled is a document: edges between different rules, one to a *)
(* pair, each of a relation that the cap has kept.                         *)
LEMMA AssembledEdges ==
  ASSUME Typed, ReasonsIn
  PROVE  /\ IsEdges(Assembled.edges)
         /\ PairKeys(Assembled.edges) \subseteq PairKeys(Kept)
         /\ \A e \in Assembled.edges : PairKey(e) \in judged =>
              \E s \in Grounded : PairKey(s) = PairKey(e) /\ Identity(s) = Identity(e)
         /\ \A s \in Grounded : \E e \in Assembled.edges : PairKey(e) = PairKey(s)
<1> DEFINE edge(s) == [from |-> s.from, kind |-> s.kind, to |-> s.to, strength |-> s.strength, reason |-> written[s]]
<1>1. Assembled.edges = RetainedInCap \cup EdgesWithReasons
  BY DEF Assembled
<1>2. EdgesWithReasons = {edge(s) : s \in Grounded}
  BY DEF EdgesWithReasons
<1>3. \A s : PairKey(edge(s)) = PairKey(s) /\ Identity(edge(s)) = Identity(s)
  BY DEF PairKey, Identity
<1>4. Grounded \subseteq FreshKept
  BY DEF Grounded, ReasonsIn
<1>5. \A e \in RetainedInCap : e \in existing /\ PairKey(e) \notin judged /\ Scored(e, e.strength) \in Kept
  BY DEF RetainedInCap, Retained
<1>6. IsFiniteSet(Assembled.edges)
  <2> DEFINE f == [s \in Grounded |-> edge(s)]
  <2>1. IsFiniteSet(existing) /\ RetainedInCap \in SUBSET existing
    BY <1>5 DEF Typed, IsEdges
  <2>2. IsFiniteSet(RetainedInCap)
    BY <2>1, FS_Subset
  <2>3. Grounded \in SUBSET Kept
    BY <1>4 DEF FreshKept
  <2>4. IsFiniteSet(Grounded)
    BY <2>3, KeptIsCapped, FS_Subset
  <2>5. EdgesWithReasons = {f[s] : s \in Grounded}
    BY <1>2
  <2> HIDE DEF f
  <2>6. IsFiniteSet(EdgesWithReasons)
    BY <2>4, <2>5, FiniteImage
  <2> QED
    BY <1>1, <2>2, <2>6, FS_Union
<1>7. RetainedInCap \subseteq Edges /\ EdgesWithReasons \subseteq Edges
  <2>1. RetainedInCap \subseteq Edges
    BY <1>5 DEF Typed, IsEdges
  <2>2. ASSUME NEW s \in Grounded
        PROVE  edge(s) \in Edges
    <3>1. s \in [from : Rules, kind : Kinds, to : Rules, strength : Nat]
      BY <1>4, FreshKeptType, ResolutionsType
    <3>2. written[s] \in Reasons
      BY DEF Grounded, Reasons
    <3> QED
      BY <3>1, <3>2 DEF Edges
  <2> QED
    BY <1>2, <2>1, <2>2
<1>8. \A e \in Assembled.edges : PairKey(e) \in judged =>
              \E s \in Grounded : e = edge(s) /\ PairKey(s) = PairKey(e) /\ Identity(s) = Identity(e)
  BY <1>1, <1>2, <1>3, <1>5
<1>9. \A e \in Assembled.edges : PairKey(e) \notin judged => e \in RetainedInCap
  <2>1. \A s \in Grounded : PairKey(s) \in judged
    BY <1>4, FreshKeptType
  <2> QED
    BY <1>1, <1>2, <1>3, <2>1
<1>10. \A s \in Grounded : edge(s) \in Assembled.edges /\ PairKey(edge(s)) = PairKey(s)
  BY <1>1, <1>2, <1>3
<1> HIDE DEF edge
<1>11. Parses(Assembled.edges)
  <2>1. \A e \in Assembled.edges : e.from # e.to
    <3> SUFFICES ASSUME NEW e \in Assembled.edges
                 PROVE  e.from # e.to
      OBVIOUS
    <3>1. CASE PairKey(e) \in judged
      <4>1. PairKey(e) \in PairSet
        BY <3>1, JudgedPairs
      <4>2. PICK a, b \in Rules : a < b /\ PairKey(e) = {a, b}
        BY <4>1, TwoRules
      <4>3. a # b
        BY <4>2, RegenerationAssumption
      <4> QED
        BY <4>2, <4>3 DEF PairKey
    <3>2. CASE PairKey(e) \notin judged
      BY <1>5, <1>9, <3>2 DEF Typed, IsEdges, Parses
    <3> QED
      BY <3>1, <3>2
  <2>2. ASSUME NEW d \in Assembled.edges, NEW e \in Assembled.edges, PairKey(d) = PairKey(e)
        PROVE  d = e
    <3>1. CASE PairKey(d) \in judged
      <4>1. PICK s \in Grounded : d = edge(s) /\ PairKey(s) = PairKey(d)
        BY <1>8, <3>1
      <4>2. PICK t \in Grounded : e = edge(t) /\ PairKey(t) = PairKey(e)
        BY <1>8, <2>2, <3>1
      <4>3. s = t
        BY <1>4, <2>2, <4>1, <4>2, FreshKeptOnce
      <4> QED
        BY <4>1, <4>2, <4>3
    <3>2. CASE PairKey(d) \notin judged
      BY <1>5, <1>9, <2>2, <3>2 DEF Typed, IsEdges, Parses
    <3> QED
      BY <3>1, <3>2
  <2> QED
    BY <2>1, <2>2 DEF Parses
<1>12. PairKeys(Assembled.edges) \subseteq PairKeys(Kept)
  <2> SUFFICES ASSUME NEW e \in Assembled.edges
               PROVE  \E s \in Kept : PairKey(s) = PairKey(e)
    BY DEF PairKeys
  <2>1. CASE PairKey(e) \in judged
    BY <1>4, <1>8, <2>1 DEF FreshKept
  <2>2. CASE PairKey(e) \notin judged
    <3>1. Scored(e, e.strength) \in Kept
      BY <1>5, <1>9, <2>2
    <3>2. PairKey(Scored(e, e.strength)) = PairKey(e)
      BY DEF Scored, PairKey
    <3> QED
      BY <3>1, <3>2
  <2> QED
    BY <2>1, <2>2
<1>13. IsEdges(Assembled.edges)
  BY <1>1, <1>6, <1>7, <1>11 DEF IsEdges
<1> QED
  BY <1>8, <1>10, <1>12, <1>13

-----------------------------------------------------------------------------
(* The check and the site                                                  *)
Relations == [from : Rules, kind : Kinds, to : Rules]
Shown(es) == Merge({Normalize(e) : e \in es}, Pins, Denied)
Accepted(es) == Problems(Rules, es, Pins, Denied, MaxPerRule) = {}

(* Pins are relations between rules.                                       *)
LEMMA PinsType ==
  /\ Len(Pins) \in Nat /\ IsFiniteSet(1 .. Len(Pins))
  /\ \A i \in 1 .. Len(Pins) : Pins[i] \in Relations
<1>1. Len(Pins) \in Nat /\ \A i \in 1 .. Len(Pins) : Pins[i] \in Relations
  <2>1. Pins \in Seq(Relations)
    BY RegenerationAssumption DEF Relations
  <2> QED
    BY ONLY <2>1
<1>2. IsFiniteSet(1 .. Len(Pins))
  BY <1>1, FS_Interval
<1> QED
  BY <1>1, <1>2

(* Putting an undirected relation in name order leaves its pair and kind.  *)
LEMMA NormalizeKeepsPair ==
  ASSUME NEW e \in Edges \cup Relations
  PROVE  /\ Normalize(e).kind = e.kind
         /\ PairKey(Normalize(e)) = PairKey(e)
         /\ e.kind \in DirectedKinds => Normalize(e) = e
         /\ e.kind \in UndirectedKinds => Normalize(e).from <= Normalize(e).to
<1>1. e.from \in Nat /\ e.to \in Nat /\ e.kind \in Kinds
  BY RegenerationAssumption DEF Edges, Relations
<1>2. CASE e.kind \in UndirectedKinds /\ e.to < e.from
  <2>1. /\ Normalize(e).from = e.to /\ Normalize(e).to = e.from
        /\ Normalize(e).kind = e.kind
    BY <1>2 DEF Normalize, Edges, Relations
  <2>2. e.kind \notin DirectedKinds
    BY <1>2 DEF DirectedKinds, UndirectedKinds
  <2> QED
    BY <1>1, <1>2, <2>1, <2>2 DEF PairKey
<1>3. CASE ~ (e.kind \in UndirectedKinds /\ e.to < e.from)
  <2>1. Normalize(e) = e
    BY <1>3 DEF Normalize
  <2> QED
    BY <1>1, <1>3, <2>1
<1> QED
  BY <1>2, <1>3

(* Two relations of the same kind and the same two rules are the same once *)
(* undirected ones are in name order.                                      *)
LEMMA SameOnceNormalized ==
  ASSUME NEW d \in Edges \cup Relations, NEW e \in Edges \cup Relations,
         d.kind = e.kind,
         Identity(d) = Identity(e) \/ (d.kind \in UndirectedKinds /\ PairKey(d) = PairKey(e))
  PROVE  Identity(Normalize(d)) = Identity(Normalize(e))
<1>1. /\ d.from \in Nat /\ d.to \in Nat /\ d.kind \in Kinds
      /\ e.from \in Nat /\ e.to \in Nat /\ e.kind \in Kinds
  BY RegenerationAssumption DEF Edges, Relations
<1>2. CASE d.kind \in UndirectedKinds /\ PairKey(d) = PairKey(e)
  <2>1. {Normalize(d).from, Normalize(d).to} = {Normalize(e).from, Normalize(e).to}
    BY <1>2, NormalizeKeepsPair DEF PairKey
  <2>2. Normalize(d).from <= Normalize(d).to /\ Normalize(e).from <= Normalize(e).to
    BY <1>2, NormalizeKeepsPair
  <2>3. {Normalize(d).from, Normalize(d).to} \subseteq Nat /\ {Normalize(e).from, Normalize(e).to} \subseteq Nat
    BY <1>1, NormalizeKeepsPair DEF PairKey
  <2>4. Normalize(d).from = Normalize(e).from /\ Normalize(d).to = Normalize(e).to
    BY <2>1, <2>2, <2>3
  <2> QED
    BY <2>4, NormalizeKeepsPair DEF Identity
<1>3. CASE Identity(d) = Identity(e)
  <2>1. d.from = e.from /\ d.to = e.to /\ PairKey(d) = PairKey(e)
    BY <1>3 DEF Identity, Relation, PairKey
  <2>2. CASE d.kind \in DirectedKinds
    BY <1>3, <2>2, NormalizeKeepsPair
  <2> QED
    BY <1>1, <1>2, <2>1, <2>2 DEF Kinds
<1> QED
  BY <1>2, <1>3

(* In name order edges are still one to a pair.                            *)
LEMMA NormalizedEdges ==
  ASSUME NEW es, IsEdges(es)
  PROVE  LET N == {Normalize(e) : e \in es}
         IN  /\ IsFiniteSet(N)
             /\ PairKeys(N) = PairKeys(es)
             /\ \A d, e \in N : PairKey(d) = PairKey(e) => d = e
<1> DEFINE f == [e \in es |-> Normalize(e)]
           N == {Normalize(e) : e \in es}
<1>1. es \subseteq Edges /\ IsFiniteSet(es)
  BY DEF IsEdges
<1>2. N = {f[e] : e \in es}
  OBVIOUS
<1>3. IsFiniteSet({f[e] : e \in es})
  <2> HIDE DEF f
  <2> QED
    BY <1>1, FiniteImage
<1>4. \A e \in es : PairKey(Normalize(e)) = PairKey(e)
  BY <1>1, NormalizeKeepsPair
<1>5. PairKeys(N) = PairKeys(es)
  BY <1>4 DEF PairKeys
<1>6. \A d, e \in N : PairKey(d) = PairKey(e) => d = e
  BY <1>4 DEF IsEdges, Parses
<1> QED
  BY <1>2, <1>3, <1>5, <1>6

(* The site shows finitely many.                                           *)
LEMMA ShownIsFinite ==
  ASSUME NEW es, IsEdges(es)
  PROVE  IsFiniteSet(Shown(es))
<1> DEFINE N == {Normalize(e) : e \in es}
           left == {e \in N : PinsOf(Pins, PairKey(e)) = {} /\ PairKey(e) \notin Denied}
           I == {n \in 1..Len(Pins) : Placed(Pins, n, N)}
<1>1. Shown(es) = left \cup {Pins[i] : i \in I}
  BY DEF Shown, Merge
<1>2. IsFiniteSet(left)
  <2>1. IsFiniteSet(N)
    BY NormalizedEdges
  <2> HIDE DEF N
  <2> QED
    BY <2>1, FS_Subset
<1>3. IsFiniteSet({Pins[i] : i \in I})
  <2>1. I \in SUBSET (1 .. Len(Pins)) /\ IsFiniteSet(1 .. Len(Pins))
    BY PinsType
  <2> HIDE DEF I
  <2>2. IsFiniteSet(I)
    BY <2>1, FS_Subset
  <2> QED
    BY <2>2, FiniteImage
<1> HIDE DEF left, I
<1> QED
  BY <1>1, <1>2, <1>3, FS_Union

(* What a passed check says.                                               *)
LEMMA AcceptedMeans ==
  ASSUME NEW es, IsEdges(es), Accepted(es)
  PROVE  /\ \A r \in Rules : Degree(Shown(es), r) <= MaxPerRule
         /\ DuplicatePins(Pins) = {}
         /\ DeniedPins(Pins, Denied) = {}
<1>1. Parses(es)
  BY DEF IsEdges
<1>2. {"duplicate pin" : k \in DuplicatePins(Pins)} = {}
  BY <1>1 DEF Accepted, Problems
<1>3. {"denied pin" : k \in DeniedPins(Pins, Denied)} = {}
  BY <1>1 DEF Accepted, Problems
<1>4. {"crowded" : r \in Crowded(Rules, es, Pins, Denied, MaxPerRule)} = {}
  BY <1>1 DEF Accepted, Problems
<1>5. \A r \in Rules : ~ (Degree(Shown(es), r) > MaxPerRule)
  BY <1>4 DEF Crowded, Shown
<1>6. \A r : Degree(Shown(es), r) \in Nat
  <2> TAKE r
  <2>1. IsFiniteSet({e \in Shown(es) : r \in PairKey(e)})
    BY ShownIsFinite, FS_Subset
  <2> QED
    BY <2>1, FS_CardinalityType DEF Degree
<1>7. MaxPerRule \in Nat
  BY RegenerationAssumption
<1>8. \A r \in Rules : Degree(Shown(es), r) <= MaxPerRule
  BY <1>5, <1>6, <1>7
<1> QED
  BY <1>2, <1>3, <1>8

(* Where no pair is pinned twice, the pins of a pair are one or none.      *)
LEMMA OnePin ==
  ASSUME DuplicatePins(Pins) = {}, NEW k, NEW i \in PinsOf(Pins, k)
  PROVE  PinsOf(Pins, k) = {i}
<1>1. i \in 1 .. Len(Pins) /\ PairKey(Pins[i]) = k
  BY DEF PinsOf
<1>2. ~ (Cardinality(PinsOf(Pins, k)) > 1)
  BY <1>1 DEF DuplicatePins
<1>3. IsFiniteSet(PinsOf(Pins, k))
  BY PinsType, FS_Subset DEF PinsOf
<1>4. ASSUME NEW j \in PinsOf(Pins, k), j # i
      PROVE  FALSE
  <2>1. {i, j} \in SUBSET PinsOf(Pins, k)
    OBVIOUS
  <2>2. Cardinality({i, j}) = 2
    <3>1. IsFiniteSet({i}) /\ Cardinality({i}) = 1
      BY FS_Singleton
    <3>2. {i, j} = {i} \cup {j}
      OBVIOUS
    <3>3. Cardinality({i} \cup {j}) = Cardinality({i}) + 1
      BY <1>4, <3>1, FS_AddElement
    <3> QED
      BY <3>1, <3>2, <3>3
  <2>3. Cardinality({i, j}) <= Cardinality(PinsOf(Pins, k))
    BY <1>3, <2>1, FS_Subset
  <2>4. Cardinality(PinsOf(Pins, k)) \in Nat
    BY <1>3, FS_CardinalityType
  <2> QED
    BY <1>2, <2>2, <2>3, <2>4
<1> QED
  BY <1>4

(* The generator's own output passes the check when no pair is pinned      *)
(* twice, none pinned and denied, and every pin replaces an edge: what the *)
(* site shows are then relations of different pairs that the cap has kept. *)
LEMMA OwnOutputAccepted ==
  ASSUME Typed, ReasonsIn,
         DuplicatePins(Pins) = {}, DeniedPins(Pins, Denied) = {},
         \A i \in 1..Len(Pins) : PairKey(Pins[i]) \in PairKeys(Assembled.edges)
  PROVE  Accepted(Assembled.edges)
<1> DEFINE es == Assembled.edges
           N == {Normalize(e) : e \in es}
           left == {e \in N : PinsOf(Pins, PairKey(e)) = {} /\ PairKey(e) \notin Denied}
           I == {n \in 1..Len(Pins) : Placed(Pins, n, N)}
<1>1. IsEdges(es) /\ PairKeys(es) \subseteq PairKeys(Kept)
  BY AssembledEdges
<1>2. PairKeys(N) = PairKeys(es) /\ \A d, e \in N : PairKey(d) = PairKey(e) => d = e
  BY <1>1, NormalizedEdges
<1>3. Shown(es) = left \cup {Pins[i] : i \in I}
  BY DEF Shown, Merge
<1>4. \A k : \A i, j \in PinsOf(Pins, k) : i = j
  BY OnePin
<1>5. PairKeys(Shown(es)) \subseteq PairKeys(Kept)
  <2>1. \A e \in left : PairKey(e) \in PairKeys(N)
    BY DEF PairKeys
  <2>2. \A i \in I : PairKey(Pins[i]) \in PairKeys(es)
    OBVIOUS
  <2> HIDE DEF left, I, es, N
  <2>3. \A e \in Shown(es) : PairKey(e) \in PairKeys(Kept)
    BY <1>1, <1>2, <1>3, <2>1, <2>2
  <2> QED
    BY <2>3 DEF PairKeys
<1>6. \A d, e \in Shown(es) : PairKey(d) = PairKey(e) => d = e
  <2>1. \A d, e \in left : PairKey(d) = PairKey(e) => d = e
    BY <1>2
  <2>2. \A d \in left : \A i \in I : PairKey(d) # PairKey(Pins[i])
    BY DEF PinsOf
  <2>3. \A i, j \in I : PairKey(Pins[i]) = PairKey(Pins[j]) => i = j
    BY <1>4 DEF PinsOf
  <2> HIDE DEF left, I, es
  <2> QED
    BY <1>3, <2>1, <2>2, <2>3
<1> HIDE DEF es
<1>7. \A r \in Rules : Degree(Shown(es), r) <= MaxPerRule
  <2> TAKE r \in Rules
  <2>1. IsFiniteSet(Kept) /\ Degree(Kept, r) <= MaxPerRule
    BY KeptIsCapped
  <2>2. Degree(Shown(es), r) \in Nat /\ Degree(Shown(es), r) <= Degree(Kept, r)
    BY <1>5, <1>6, <2>1, DegreeByPairs
  <2>3. Degree(Kept, r) \in Nat /\ MaxPerRule \in Nat
    <3>1. IsFiniteSet({e \in Kept : r \in PairKey(e)})
      BY <2>1, FS_Subset
    <3> QED
      BY <3>1, FS_CardinalityType, RegenerationAssumption DEF Degree
  <2> HIDE DEF es
  <2> QED
    BY <2>1, <2>2, <2>3
<1>8. Crowded(Rules, es, Pins, Denied, MaxPerRule) = {}
  <2>1. \A r \in Rules : Degree(Shown(es), r) \in Nat
    BY <1>1, <1>5, <1>6, KeptIsCapped, DegreeByPairs
  <2>2. \A r \in Rules : ~ (Degree(Shown(es), r) > MaxPerRule)
    <3>1. MaxPerRule \in Nat
      BY RegenerationAssumption
    <3>2. \A m, n \in Nat : m <= n => ~ (m > n)
      OBVIOUS
    <3> QED
      BY <1>7, <2>1, <3>1, <3>2
  <2> QED
    BY <2>2 DEF Crowded, Shown
<1>9. Parses(es)
  BY <1>1 DEF IsEdges
<1>10. Accepted(es)
  BY <1>8, <1>9 DEF Accepted, Problems
<1> QED
  BY <1>10 DEF es

-----------------------------------------------------------------------------
(* The report of a run                                                     *)
Body == Report(Resolutions, Assembled.edges, Assembled.reviews, existing, Pins, Denied)

(* A judged pair without a relation is rejected or under review; one with  *)
(* a relation was kept and has an edge, was kept and has no grounded       *)
(* reason, or was not kept.                                                *)
LEMMA ReportedOnce ==
  ASSUME Typed, ReasonsIn, NEW k \in judged
  PROVE  Cardinality({list \in {"rejected", "needsReview", "published", "capped"} : k \in Body[list]}) = 1
<1> DEFINE type == Resolutions[k].type
           edged == \E s \in Grounded : PairKey(s) = k
           ungrounded == \E s \in FreshKept \ Grounded : PairKey(s) = k
           lists == {list \in {"rejected", "needsReview", "published", "capped"} : k \in Body[list]}
<1>1. type \in {"none", "review", "relation"}
  BY ResolutionsType
<1>2. DOMAIN Resolutions = judged
  BY DEF Resolutions
<1>3. Grounded \subseteq FreshKept /\ fresh = FreshKept
  BY DEF Grounded, ReasonsIn
<1>4. (edged \/ ungrounded => type = "relation") /\ ~ (edged /\ ungrounded)
  BY <1>3, FreshKeptType, FreshKeptOnce
<1>5. k \in PairKeys(Assembled.edges) <=> edged
  <2>1. k \in PairKeys(Assembled.edges) => edged
    BY AssembledEdges DEF PairKeys
  <2>2. edged => k \in PairKeys(Assembled.edges)
    BY AssembledEdges DEF PairKeys
  <2> QED
    BY <2>1, <2>2
<1>6. k \in Assembled.reviews <=> type = "review" \/ ungrounded
  <2>1. Assembled.reviews = {j \in judged : Resolutions[j].type = "review"} \cup PairKeys(fresh \ Grounded)
    BY DEF Assembled
  <2>2. k \in PairKeys(fresh \ Grounded) <=> ungrounded
    BY <1>3 DEF PairKeys
  <2> QED
    BY <2>1, <2>2
<1> HIDE DEF edged, ungrounded
<1>7. /\ k \in Body.rejected <=> type = "none"
      /\ k \in Body.needsReview <=> type = "review" \/ ungrounded
      /\ k \in Body.published <=> edged
      /\ k \in Body.capped <=> type = "relation" /\ ~ edged /\ ~ (type = "review" \/ ungrounded)
  <2>1. Body.rejected = {j \in judged : Resolutions[j].type = "none"}
    BY <1>2 DEF Body, Report
  <2>2. Body.needsReview = Assembled.reviews
    BY DEF Body, Report
  <2>3. Body.published = PairKeys(Assembled.edges) \cap judged
    BY <1>2 DEF Body, Report
  <2>4. Body.capped = ({j \in judged : Resolutions[j].type = "relation"} \ (PairKeys(Assembled.edges) \cap judged)) \ Assembled.reviews
    BY <1>2 DEF Body, Report, Omitted
  <2> QED
    BY <1>5, <1>6, <2>1, <2>2, <2>3, <2>4
<1> HIDE DEF type
<1>8. CASE type = "none"
  <2>1. lists = {"rejected"}
    BY <1>4, <1>7, <1>8
  <2> QED
    BY <2>1, FS_Singleton
<1>9. CASE type = "review"
  <2>1. lists = {"needsReview"}
    BY <1>4, <1>7, <1>9
  <2> QED
    BY <2>1, FS_Singleton
<1>10. CASE type = "relation" /\ edged
  <2>1. lists = {"published"}
    BY <1>4, <1>7, <1>10
  <2> QED
    BY <2>1, FS_Singleton
<1>11. CASE type = "relation" /\ ungrounded
  <2>1. lists = {"needsReview"}
    BY <1>4, <1>7, <1>11
  <2> QED
    BY <2>1, FS_Singleton
<1>12. CASE type = "relation" /\ ~ edged /\ ~ ungrounded
  <2>1. lists = {"capped"}
    BY <1>7, <1>12
  <2> QED
    BY <2>1, FS_Singleton
<1> QED
  BY <1>1, <1>8, <1>9, <1>10, <1>11, <1>12

(* An edge of a judged pair is the model's relation. If the pair's override *)
(* agrees with it, the override is its only pin, of the same kind and, when *)
(* directed, the same direction: a denial would have wanted no relation.   *)
LEMMA AgreedOverrides ==
  ASSUME Typed, ReasonsIn, Accepted(Assembled.edges),
         NEW e \in Assembled.edges,
         PairKey(e) \in judged \ Body.quality.disagreements
  PROVE  /\ \A i \in PinsOf(Pins, PairKey(e)) : Identity(Normalize(Pins[i])) = Identity(Normalize(e))
         /\ PairKey(e) \notin Denied
<1> DEFINE k == PairKey(e)
           pinned == {PairKey(Pins[i]) : i \in 1..Len(Pins)}
           LastPin(q) == Pins[CHOOSE i \in PinsOf(Pins, q) : \A j \in PinsOf(Pins, q) : j <= i]
           Matches(q) == IF q \in pinned THEN MatchesPin(Resolutions[q], LastPin(q))
                         ELSE Resolutions[q].type = "none"
<1>1. IsEdges(Assembled.edges) /\ e \in Edges
  BY AssembledEdges DEF IsEdges
<1>2. DuplicatePins(Pins) = {} /\ DeniedPins(Pins, Denied) = {}
  BY <1>1, AcceptedMeans
<1>3. Resolutions[k].type = "relation" /\ Identity(e) = Resolutions[k].relation
  <2>1. PICK s \in Grounded : PairKey(s) = k /\ Identity(s) = Identity(e)
    BY AssembledEdges
  <2>2. s \in FreshKept
    BY DEF Grounded, ReasonsIn
  <2> QED
    BY <2>1, <2>2, FreshKeptType
<1>4. k \in pinned \cup Denied => Matches(k)
  <2>1. DOMAIN Resolutions = judged
    BY DEF Resolutions
  <2>2. Body.quality.disagreements = {q \in (pinned \cup Denied) \cap judged : ~ Matches(q)}
    BY <2>1 DEF Body, Report, Evaluation
  <2> HIDE DEF Matches, pinned
  <2> QED
    BY <2>2
<1>5. CASE k \in pinned
  <2>1. PICK i \in PinsOf(Pins, k) : TRUE
    BY <1>5 DEF PinsOf
  <2>2. PinsOf(Pins, k) = {i}
    BY <1>2, <2>1, OnePin
  <2>3. LastPin(k) = Pins[i]
    <3>1. i \in Nat
      BY <2>1 DEF PinsOf
    <3>2. \A n \in Nat : (CHOOSE m \in {n} : \A j \in {n} : j <= m) = n
      OBVIOUS
    <3> QED
      BY <2>2, <3>1, <3>2
  <2>4. MatchesPin(Resolutions[k], Pins[i])
    BY <1>4, <1>5, <2>3
  <2>5. Pins[i] \in Relations /\ PairKey(Pins[i]) = k
    BY <2>1, PinsType DEF PinsOf
  <2>6. e.kind = Pins[i].kind
    BY <1>3, <2>4 DEF MatchesPin, Identity, Relation
  <2>7. Identity(e) = Identity(Pins[i]) \/ (e.kind \in UndirectedKinds /\ PairKey(e) = PairKey(Pins[i]))
    BY <1>3, <2>4, <2>5, <2>6 DEF MatchesPin
  <2>8. Identity(Normalize(Pins[i])) = Identity(Normalize(e))
    BY <1>1, <2>5, <2>6, <2>7, SameOnceNormalized
  <2>9. k \notin Denied
    BY <1>2, <1>5 DEF DeniedPins
  <2> QED
    BY <2>2, <2>8, <2>9
<1>6. CASE k \notin pinned
  <2>1. PinsOf(Pins, k) = {}
    BY <1>6 DEF PinsOf
  <2>2. k \notin Denied
    BY <1>3, <1>4, <1>6
  <2> QED
    BY <2>1, <2>2
<1> QED
  BY <1>5, <1>6

-----------------------------------------------------------------------------
(* In a document that parses a pair has one edge, and an edge's identity   *)
(* tells its pair.                                                         *)
LEMMA OneEdge ==
  ASSUME NEW es, Parses(es), NEW k \in PairKeys(es)
  PROVE  /\ EdgeOf(es, k) \in es /\ PairKey(EdgeOf(es, k)) = k
         /\ \A e \in es : PairKey(e) = k => e = EdgeOf(es, k)
BY DEF Parses, PairKeys, EdgeOf

(* The same identity is of the same pair.                                  *)
LEMMA IdentityHasPair ==
  ASSUME NEW d, NEW e, Identity(d) = Identity(e)
  PROVE  PairKey(d) = PairKey(e)
BY DEF Identity, Relation, PairKey

(* Taking away what was removed and what was changed, and putting in what  *)
(* was added and what it was changed to, leads from one document to the    *)
(* other.                                                                  *)
LEMMA ChangesReplay ==
  ASSUME NEW previous, NEW current, Parses(previous), Parses(current)
  PROVE  Replay(previous, Changes(current, previous)) = {Identity(e) : e \in current}
<1> DEFINE now == PairKeys(current)
           before == PairKeys(previous)
           same == {k \in now \cap before : Identity(EdgeOf(current, k)) = Identity(EdgeOf(previous, k))}
           added == {Identity(EdgeOf(current, k)) : k \in now \ before}
           removed == {Identity(EdgeOf(previous, k)) : k \in before \ now}
           changed == {<<Identity(EdgeOf(previous, k)), Identity(EdgeOf(current, k))>>
                         : k \in (now \cap before) \ same}
           gone == removed \cup {c[1] : c \in changed}
           come == added \cup {c[2] : c \in changed}
<1>1. /\ {c[1] : c \in changed} = {Identity(EdgeOf(previous, k)) : k \in (now \cap before) \ same}
      /\ {c[2] : c \in changed} = {Identity(EdgeOf(current, k)) : k \in (now \cap before) \ same}
  <2>1. \A c \in changed : \E k \in (now \cap before) \ same :
          c[1] = Identity(EdgeOf(previous, k)) /\ c[2] = Identity(EdgeOf(current, k))
    OBVIOUS
  <2>2. ASSUME NEW k \in (now \cap before) \ same
        PROVE  \E c \in changed : c[1] = Identity(EdgeOf(previous, k)) /\ c[2] = Identity(EdgeOf(current, k))
    <3> DEFINE c == <<Identity(EdgeOf(previous, k)), Identity(EdgeOf(current, k))>>
    <3>1. c \in changed /\ c[1] = Identity(EdgeOf(previous, k)) /\ c[2] = Identity(EdgeOf(current, k))
      OBVIOUS
    <3> HIDE DEF c, changed
    <3> QED
      BY ONLY <3>1
  <2> HIDE DEF changed, same
  <2> QED
    BY ONLY <2>1, <2>2
<1>2. Replay(previous, Changes(current, previous)) = ({Identity(e) : e \in previous} \ gone) \cup come
  BY DEF Replay, Changes
<1>3. come = {Identity(EdgeOf(current, k)) : k \in now \ same}
  <2>1. now \ same = (now \ before) \cup ((now \cap before) \ same)
    OBVIOUS
  <2> QED
    BY <1>1, <2>1
<1>4. gone = {Identity(EdgeOf(previous, k)) : k \in before \ same}
  <2>1. before \ same = (before \ now) \cup ((now \cap before) \ same)
    OBVIOUS
  <2> QED
    BY <1>1, <2>1
<1> HIDE DEF gone, come
<1>5. {Identity(e) : e \in current} = {Identity(EdgeOf(current, k)) : k \in now}
  BY OneEdge DEF PairKeys
<1>6. {Identity(e) : e \in previous} \ gone = {Identity(EdgeOf(previous, k)) : k \in same}
  <2>1. {Identity(e) : e \in previous} = {Identity(EdgeOf(previous, k)) : k \in before}
    BY OneEdge DEF PairKeys
  <2>2. \A k, l \in before : Identity(EdgeOf(previous, k)) = Identity(EdgeOf(previous, l)) => k = l
    BY OneEdge, IdentityHasPair
  <2> QED
    BY <1>4, <2>1, <2>2
<1>7. {Identity(EdgeOf(previous, k)) : k \in same} = {Identity(EdgeOf(current, k)) : k \in same}
  OBVIOUS
<1> QED
  BY <1>2, <1>3, <1>5, <1>6, <1>7


-----------------------------------------------------------------------------
(* A run's cap, its reasons and its verdict of the check                   *)
RunsAssemble ==
  /\ phase \in {"reasons", "refused", "document", "report"} => fresh = FreshKept
  /\ phase \in {"refused", "document", "report"} => DOMAIN written = fresh /\ result = Assembled
  /\ phase \in {"document", "report"} => Accepted(result.edges)
  /\ phase = "refused" => ~ Accepted(result.edges)

(* Files carry the number of a run that has started; a run at work has not *)
(* written its report, and when it does its document is in place.          *)
FilesOfRuns ==
  /\ runs \in Nat
  /\ document # Torn => document.run \in 0 .. runs
  /\ report \notin {Absent, Torn} => report.run \in 0 .. runs
  /\ phase \notin {"idle", "written"} /\ report \notin {Absent, Torn} => report.run < runs
  /\ phase = "report" /\ document # Torn => document = [run |-> runs, edges |-> result.edges]

FilesAreRight ==
  /\ SiteWithinCap
  /\ EveryPairReportedOnce
  /\ ReportDescribesDocument
  /\ AgreedOverridesChangeNothing

IInv == Typed /\ RunsAssemble /\ FilesOfRuns /\ FilesAreRight

(* The first state *)
LEMMA InitIInv == Init => IInv
<1> SUFFICES ASSUME Init PROVE IInv
  OBVIOUS
<1> USE DEF Init
<1>1. IsEdges({})
  BY FS_EmptySet DEF IsEdges, Parses
<1>2. Typed
  BY <1>1 DEF Typed
<1>3. RunsAssemble /\ FilesOfRuns
  BY DEF RunsAssemble, FilesOfRuns
<1>4. SiteWithinCap
  BY DEF SiteWithinCap
<1> QED
  BY <1>2, <1>3, <1>4 DEF IInv, FilesAreRight, EveryPairReportedOnce, ReportDescribesDocument, AgreedOverridesChangeNothing

(* A run reads the same verdicts and the same document from its start to   *)
(* its end, so that what it has kept and assembled stays what it was.      *)
LEMMA RunKeeps ==
  ASSUME UNCHANGED <<verdict, existing, judged>>
  PROVE  /\ FreshKept' = FreshKept
         /\ UNCHANGED <<fresh, written>> => Assembled' = Assembled
<1>1. Resolutions' = Resolutions /\ Retained' = Retained
  BY DEF Resolutions, Retained
<1>2. Kept' = Kept
  BY <1>1 DEF Kept
<1>3. FreshKept' = FreshKept
  BY <1>2 DEF FreshKept
<1>4. ASSUME UNCHANGED <<fresh, written>>
      PROVE  Assembled' = Assembled
  BY <1>1, <1>2, <1>4 DEF Assembled, RetainedInCap, EdgesWithReasons, Grounded
<1> QED
  BY <1>3, <1>4

(* The properties of the files depend on nothing but the files.            *)
LEMMA FilesKeep ==
  ASSUME FilesAreRight, UNCHANGED <<document, report>>
  PROVE  FilesAreRight'
BY DEF FilesAreRight, SiteWithinCap, EveryPairReportedOnce, ReportDescribesDocument, AgreedOverridesChangeNothing

(* A run that ends, however it ends, leaves nothing but the files.         *)
LEMMA ForgetIInv ==
  ASSUME IInv, Forget, UNCHANGED <<verdict, runs>>,
         document' \in {document, Torn}, report' \in {report, Torn}
  PROVE  IInv'
<1> USE DEF Forget
<1>1. Typed'
  <2>1. IsEdges({})
    BY FS_EmptySet DEF IsEdges, Parses
  <2> QED
    BY <2>1 DEF IInv, Typed
<1>2. RunsAssemble' /\ FilesOfRuns'
  BY DEF IInv, RunsAssemble, FilesOfRuns
<1>3. FilesAreRight'
  BY DEF IInv, FilesAreRight, SiteWithinCap, EveryPairReportedOnce, ReportDescribesDocument, AgreedOverridesChangeNothing
<1> QED
  BY <1>1, <1>2, <1>3 DEF IInv

(* A run starts, or cannot read the document.                              *)
LEMMA StartIInv ==
  ASSUME IInv, \/ \E J \in JudgedSets : Start(J)
               \/ StartUnreadable
  PROVE  IInv'
<1> USE DEF disk
<1>1. CASE \E J \in JudgedSets : Start(J)
  <2>1. Typed'
    BY <1>1 DEF Start, IInv, Typed
  <2>2. RunsAssemble' /\ FilesOfRuns'
    BY <1>1 DEF Start, IInv, RunsAssemble, FilesOfRuns
  <2>3. FilesAreRight'
    BY <1>1, FilesKeep DEF Start, IInv
  <2> QED
    BY <2>1, <2>2, <2>3 DEF IInv
<1>2. CASE StartUnreadable
  <2>1. Typed'
    BY <1>2 DEF StartUnreadable, IInv, Typed
  <2>2. RunsAssemble' /\ FilesOfRuns'
    BY <1>2 DEF StartUnreadable, IInv, RunsAssemble, FilesOfRuns
  <2>3. FilesAreRight'
    BY <1>2, FilesKeep DEF StartUnreadable, IInv
  <2> QED
    BY <2>1, <2>2, <2>3 DEF IInv
<1> QED
  BY <1>1, <1>2

(* The verdicts are resolved and capped.                                   *)
LEMMA JudgeIInv ==
  ASSUME IInv, Judge
  PROVE  IInv'
<1> USE DEF Judge, disk, bounds
<1>1. FreshKept' = FreshKept
  BY RunKeeps
<1>2. fresh' = FreshKept /\ phase' = "reasons"
  BY DEF FreshKept
<1>3. Typed'
  BY DEF IInv, Typed
<1>4. RunsAssemble'
  BY <1>1, <1>2 DEF RunsAssemble
<1>5. FilesOfRuns'
  BY DEF IInv, FilesOfRuns
<1>6. FilesAreRight'
  BY FilesKeep DEF IInv
<1> QED
  BY <1>3, <1>4, <1>5, <1>6 DEF IInv

(* A writer ends: the run waits on for the others, or is failing.          *)
LEMMA ReasonIInv ==
  ASSUME IInv, NEW s \in fresh, WriteReason(s) \/ ReasonFails(s)
  PROVE  IInv'
<1>1. UNCHANGED <<verdict, document, report, existing, judged, result, runs>>
  BY DEF WriteReason, ReasonFails, bounds
<1>2. \/ phase' = phase /\ fresh' = fresh /\ phase \in {"reasons", "failing"}
      \/ phase' = "failing" /\ phase \in {"reasons", "failing"}
  BY DEF WriteReason, ReasonFails
<1>3. Typed'
  BY <1>1 DEF IInv, Typed
<1>4. RunsAssemble'
  BY <1>1, <1>2, RunKeeps DEF IInv, RunsAssemble
<1>5. FilesOfRuns'
  BY <1>1, <1>2 DEF IInv, FilesOfRuns
<1>6. FilesAreRight'
  BY <1>1, FilesKeep DEF IInv
<1> QED
  BY <1>3, <1>4, <1>5, <1>6 DEF IInv

(* The reasons are in and the check gives its verdict.                     *)
LEMMA AssembleIInv ==
  ASSUME IInv, Assemble
  PROVE  IInv'
<1>1. UNCHANGED <<verdict, document, report, existing, judged, fresh, written, runs>>
  BY DEF Assemble, disk, bounds
<1>2. phase = "reasons" /\ DOMAIN written = fresh /\ result' = Assembled
  BY DEF Assemble
<1>3. \/ phase' = "document" /\ Accepted(Assembled.edges)
      \/ phase' = "refused" /\ ~ Accepted(Assembled.edges)
  BY DEF Assemble, Accepted
<1>4. Assembled' = Assembled /\ FreshKept' = FreshKept
  BY <1>1, RunKeeps
<1>5. Typed'
  BY <1>1 DEF IInv, Typed
<1>6. RunsAssemble'
  BY <1>1, <1>2, <1>3, <1>4 DEF IInv, RunsAssemble, Accepted
<1>7. FilesOfRuns'
  BY <1>1, <1>2, <1>3 DEF IInv, FilesOfRuns
<1>8. FilesAreRight'
  BY <1>1, FilesKeep DEF IInv
<1> QED
  BY <1>5, <1>6, <1>7, <1>8 DEF IInv

(* A document is written that the check has let through.                   *)
LEMMA WriteDocumentIInv ==
  ASSUME IInv, WriteDocument
  PROVE  IInv'
<1>1. UNCHANGED <<verdict, report, existing, judged, fresh, written, result, runs>>
  BY DEF WriteDocument, bounds
<1>2. phase = "document" /\ phase' = "report" /\ document' = [run |-> runs, edges |-> result.edges]
  BY DEF WriteDocument
<1>3. ReasonsIn /\ result = Assembled /\ Accepted(result.edges)
  BY <1>2 DEF IInv, RunsAssemble, ReasonsIn
<1>4. IsEdges(result.edges)
  BY <1>3, AssembledEdges DEF IInv
<1>5. Typed'
  BY <1>1, <1>2, <1>4 DEF IInv, Typed
<1>6. RunsAssemble'
  BY <1>1, <1>2, RunKeeps DEF IInv, RunsAssemble, Accepted
<1>7. FilesOfRuns'
  BY <1>1, <1>2 DEF IInv, FilesOfRuns
<1>8. SiteWithinCap'
  BY <1>2, <1>3, <1>4, AcceptedMeans DEF SiteWithinCap, Shown, IsEdges
<1>9. EveryPairReportedOnce'
  BY <1>1 DEF IInv, FilesAreRight, EveryPairReportedOnce
<1>10. report' \notin {Absent, Torn} => report'.run # document'.run
  BY <1>1, <1>2 DEF IInv, FilesOfRuns
<1>11. ReportDescribesDocument' /\ AgreedOverridesChangeNothing'
  BY <1>10 DEF ReportDescribesDocument, AgreedOverridesChangeNothing
<1> QED
  BY <1>5, <1>6, <1>7, <1>8, <1>9, <1>11 DEF IInv, FilesAreRight

(* A report is written: it describes the document just written.            *)
LEMMA WriteReportIInv ==
  ASSUME IInv, WriteReport
  PROVE  IInv'
<1>1. UNCHANGED <<verdict, document, existing, judged, fresh, written, result, runs>>
  BY DEF WriteReport, bounds
<1>2. /\ phase = "report" /\ phase' = "written"
      /\ report' = [run |-> runs, previous |-> existing,
                    body |-> Report(Resolutions, result.edges, result.reviews, existing, Pins, Denied)]
  BY DEF WriteReport
<1>3. ReasonsIn /\ result = Assembled /\ Accepted(result.edges) /\ Typed
  BY <1>2 DEF IInv, RunsAssemble, ReasonsIn
<1>4. report'.body = Body /\ report'.previous = existing /\ report'.run = runs
  BY <1>2, <1>3 DEF Body
<1>5. Body.judged = judged
  BY DEF Body, Report, Resolutions
<1>6. document # Torn => document.edges = Assembled.edges
  BY <1>2, <1>3 DEF IInv, FilesOfRuns
<1>7. Typed'
  BY <1>1 DEF IInv, Typed
<1>8. RunsAssemble'
  BY <1>2 DEF RunsAssemble
<1>9. FilesOfRuns'
  BY <1>1, <1>2 DEF IInv, FilesOfRuns
<1>10. SiteWithinCap'
  BY <1>1 DEF IInv, FilesAreRight, SiteWithinCap
<1>11. EveryPairReportedOnce'
  BY <1>3, <1>4, <1>5, ReportedOnce DEF EveryPairReportedOnce
<1>12. ReportDescribesDocument'
  <2> SUFFICES ASSUME document # Torn
               PROVE  /\ Replay(existing, Body.changes) = {Identity(e) : e \in document.edges}
                      /\ Body.published = PairKeys(document.edges) \cap Body.judged
    BY <1>1, <1>4 DEF ReportDescribesDocument
  <2>1. Parses(existing) /\ Parses(Assembled.edges)
    BY <1>3, AssembledEdges DEF Typed, IsEdges
  <2>2. Body.changes = Changes(Assembled.edges, existing)
    BY DEF Body, Report
  <2>3. Body.published = PairKeys(Assembled.edges) \cap Body.judged
    BY DEF Body, Report
  <2> QED
    BY <1>6, <2>1, <2>2, <2>3, ChangesReplay
<1>13. AgreedOverridesChangeNothing'
  <2> SUFFICES ASSUME document # Torn, NEW e \in document.edges,
                      PairKey(e) \in Body.judged \ Body.quality.disagreements
               PROVE  /\ \A i \in PinsOf(Pins, PairKey(e)) : Identity(Normalize(Pins[i])) = Identity(Normalize(e))
                      /\ PairKey(e) \notin Denied
    BY <1>1, <1>4 DEF AgreedOverridesChangeNothing
  <2> QED
    BY <1>3, <1>5, <1>6, AgreedOverrides
<1> QED
  BY <1>7, <1>8, <1>9, <1>10, <1>11, <1>12, <1>13 DEF IInv, FilesAreRight

(* The cards change, or nothing does.                                      *)
LEMMA RestIInv ==
  ASSUME IInv, EditCards \/ Rest \/ UNCHANGED vars
  PROVE  IInv'
<1>1. CASE EditCards
  <2>1. UNCHANGED <<document, report, phase, existing, judged, fresh, written, result, runs>>
    BY <1>1 DEF EditCards
  <2>2. verdict' \in [PairSet -> Answers] /\ phase = "idle"
    BY <1>1 DEF EditCards
  <2>3. Typed' /\ RunsAssemble' /\ FilesOfRuns'
    BY <2>1, <2>2 DEF IInv, Typed, RunsAssemble, FilesOfRuns
  <2> QED
    BY <2>1, <2>3, FilesKeep DEF IInv
<1>2. CASE Rest \/ UNCHANGED vars
  <2>1. UNCHANGED vars
    BY <1>2 DEF Rest
  <2>2. Typed' /\ FilesOfRuns'
    BY <2>1 DEF vars, IInv, Typed, FilesOfRuns
  <2>3. RunsAssemble'
    BY <2>1, RunKeeps DEF vars, IInv, RunsAssemble, Accepted
  <2>4. FilesAreRight'
    BY <2>1, FilesKeep DEF vars, IInv
  <2> QED
    BY <2>2, <2>3, <2>4 DEF IInv
<1> QED
  BY <1>1, <1>2

(* Every step keeps the invariant.                                         *)
LEMMA NextIInv == IInv /\ [Next]_vars => IInv'
<1> SUFFICES ASSUME IInv, [Next]_vars
             PROVE  IInv'
  OBVIOUS
<1>1. CASE Exit
  BY <1>1, ForgetIInv DEF Exit, disk, bounds
<1>2. CASE Kill
  BY <1>2, ForgetIInv DEF Kill
<1> QED
  BY <1>1, <1>2, StartIInv, JudgeIInv, ReasonIInv, AssembleIInv, WriteDocumentIInv, WriteReportIInv, RestIInv
     DEF Next

(* It holds throughout.                                                    *)
LEMMA Invariance == Spec => []IInv
BY InitIInv, NextIInv, PTL DEF Spec

(* No document that a run has written links a pair twice or, with pins and *)
(* denials merged in, gives a rule more relations than the cap.            *)
THEOREM SiteStaysWithinCap == Spec => []SiteWithinCap
<1>1. IInv => SiteWithinCap
  BY DEF IInv, FilesAreRight
<1> QED
  BY <1>1, Invariance, PTL

(* Every report on disk has each judged pair in exactly one of its lists.  *)
THEOREM PairsReportedOnce == Spec => []EveryPairReportedOnce
<1>1. IInv => EveryPairReportedOnce
  BY DEF IInv, FilesAreRight
<1> QED
  BY <1>1, Invariance, PTL

(* When the document and the report on disk are of one run, the changes    *)
(* the report lists lead from the document that run found to the one it    *)
(* wrote.                                                                  *)
THEOREM ReportsReplay == Spec => []ReportDescribesDocument
<1>1. IInv => ReportDescribesDocument
  BY DEF IInv, FilesAreRight
<1> QED
  BY <1>1, Invariance, PTL

(* An override that such a report lists as agreeing with the model changes *)
(* nothing on the site but a reason.                                       *)
THEOREM AgreedOverridesAreIdle == Spec => []AgreedOverridesChangeNothing
<1>1. IInv => AgreedOverridesChangeNothing
  BY DEF IInv, FilesAreRight
<1> QED
  BY <1>1, Invariance, PTL

(* The check refuses a run only for overrides that contradict themselves   *)
(* or a pin of a pair that has no edge: never for the generator's output.  *)
THEOREM OnlyOverridesRefuse == Spec => []RefusedOnlyForOverrides
<1>1. IInv => RefusedOnlyForOverrides
  <2> SUFFICES ASSUME IInv, phase = "refused",
                      DuplicatePins(Pins) = {}, DeniedPins(Pins, Denied) = {}
               PROVE  \E i \in 1..Len(Pins) : PairKey(Pins[i]) \notin PairKeys(result.edges)
    BY DEF RefusedOnlyForOverrides
  <2>1. Typed /\ ReasonsIn /\ result = Assembled /\ ~ Accepted(result.edges)
    BY DEF IInv, RunsAssemble, ReasonsIn
  <2> QED
    BY <2>1, OwnOutputAccepted
<1> QED
  BY <1>1, Invariance, PTL
-----------------------------------------------------------------------------
(* The decisions on their own, RelationTables.tla.                         *)

CONSTANTS Top, Strengths, MaxScored                      \* of RelationTables
Tables == INSTANCE RelationTables

(* Thresholds, the cap and strengths are numbers.                          *)
TablesAssumption ==
  JudgmentThresholds.accept \in Int /\ JudgmentThresholds.review \in Int /\ Strengths \subseteq Nat
  /\ MaxRelationsPerRule \in Nat

Amounts == [Tables!Dimensions -> Nat]
ResolutionOf(j) == Tables!ResolvePair(j, Tables!LeftRule, Tables!RightRule, JudgmentThresholds)
AcceptedOf(j) ==
  {c \in Tables!DirectedCandidates(j, Tables!LeftRule, Tables!RightRule) : c[2] >= JudgmentThresholds.accept}

(* Two directed readings that are accepted contradict each other.          *)
TwoAccepted(j) ==
  \E c, d \in Tables!Directed : c # d /\ j[c] >= JudgmentThresholds.accept /\ j[d] >= JudgmentThresholds.accept
SomeAccepted(j) == \E d \in Tables!Directed : j[d] >= JudgmentThresholds.accept
Uncertain(j) ==
  \/ \E d \in Tables!Directed : j[d] >= JudgmentThresholds.review
  \/ j["duplicates"] >= JudgmentThresholds.review /\ j["duplicates"] < JudgmentThresholds.accept

(* Each directed reading is one candidate.                                 *)
Reading ==
  [d \in Tables!Directed |->
     CASE d = "forwardReplaces" -> Tables!Relation(Tables!LeftRule, "supersedes", Tables!RightRule)
       [] d = "backwardReplaces" -> Tables!Relation(Tables!RightRule, "supersedes", Tables!LeftRule)
       [] d = "forwardRequires" -> Tables!Relation(Tables!LeftRule, "depends-on", Tables!RightRule)
       [] d = "backwardRequires" -> Tables!Relation(Tables!RightRule, "depends-on", Tables!LeftRule)]

LEMMA DirectedReadings ==
  /\ Tables!Directed = {"forwardReplaces", "backwardReplaces", "forwardRequires", "backwardRequires"}
  /\ \A c, d \in Tables!Directed : Reading[c] = Reading[d] => c = d
<1>1. Tables!Directed = {"forwardReplaces", "backwardReplaces", "forwardRequires", "backwardRequires"}
  BY DEF Tables!Directed, Tables!Dimensions
<1>2. /\ Reading["forwardReplaces"] = [from |-> 1, kind |-> "supersedes", to |-> 2]
      /\ Reading["backwardReplaces"] = [from |-> 2, kind |-> "supersedes", to |-> 1]
      /\ Reading["forwardRequires"] = [from |-> 1, kind |-> "depends-on", to |-> 2]
      /\ Reading["backwardRequires"] = [from |-> 2, kind |-> "depends-on", to |-> 1]
  BY <1>1 DEF Reading, Tables!Relation, Tables!LeftRule, Tables!RightRule
<1>3. \A a, b : a.from # b.from \/ a.kind # b.kind => a # b
  OBVIOUS
<1>4. \A c, d \in Tables!Directed :
        c # d => Reading[c].from # Reading[d].from \/ Reading[c].kind # Reading[d].kind
  BY <1>1, <1>2
<1> QED
  BY <1>1, <1>3, <1>4

LEMMA Candidates ==
  ASSUME NEW j \in Amounts
  PROVE  Tables!DirectedCandidates(j, Tables!LeftRule, Tables!RightRule) = {<<Reading[d], j[d]>> : d \in Tables!Directed}
BY DirectedReadings DEF Tables!DirectedCandidates, Reading

LEMMA TwoElements ==
  ASSUME NEW A, IsFiniteSet(A)
  PROVE  Cardinality(A) > 1 <=> \E x, y \in A : x # y
<1>1. Cardinality(A) \in Nat /\ (Cardinality(A) = 0 <=> A = {})
  BY FS_CardinalityType, FS_EmptySet
<1>2. Cardinality(A) = 1 <=> \E x : A = {x}
  BY FS_Singleton
<1>3. Cardinality(A) > 1 <=> Cardinality(A) # 0 /\ Cardinality(A) # 1
  BY <1>1
<1>4. ASSUME A # {}, ~ \E x : A = {x}
      PROVE  \E x, y \in A : x # y
  <2>1. PICK x \in A : TRUE
    BY <1>4
  <2>2. PICK y \in A : y # x
    BY <1>4, <2>1
  <2> QED BY <2>1, <2>2
<1>5. ASSUME NEW x \in A, NEW y \in A, x # y
      PROVE  A # {} /\ ~ \E z : A = {z}
  BY <1>5
<1>6. CASE \E x, y \in A : x # y
  BY <1>1, <1>2, <1>3, <1>5, <1>6
<1>7. CASE ~ \E x, y \in A : x # y
  BY <1>1, <1>2, <1>3, <1>4, <1>7
<1> QED BY <1>6, <1>7

LEMMA Contradicting ==
  ASSUME TablesAssumption, NEW j \in Amounts
  PROVE  /\ AcceptedOf(j) # {} <=> SomeAccepted(j)
         /\ Tables!Contradictory(AcceptedOf(j)) <=> TwoAccepted(j)
<1> DEFINE A == AcceptedOf(j)
           D == {d \in Tables!Directed : j[d] >= JudgmentThresholds.accept}
<1>1. A = {<<Reading[d], j[d]>> : d \in D}
  BY Candidates DEF AcceptedOf
<1>2. A # {} <=> SomeAccepted(j)
  BY <1>1 DEF SomeAccepted
<1>3. IsFiniteSet(D)
  <2>1. IsFiniteSet(Tables!Directed)
    <3>1. IsFiniteSet({"forwardReplaces"})
      BY FS_Singleton
    <3>2. IsFiniteSet({"forwardReplaces"} \cup {"backwardReplaces"})
      BY <3>1, FS_AddElement
    <3>3. IsFiniteSet({"forwardReplaces"} \cup {"backwardReplaces"} \cup {"forwardRequires"})
      BY <3>2, FS_AddElement
    <3>4. IsFiniteSet({"forwardReplaces"} \cup {"backwardReplaces"} \cup {"forwardRequires"}
                        \cup {"backwardRequires"})
      BY <3>3, FS_AddElement
    <3>5. Tables!Directed = {"forwardReplaces"} \cup {"backwardReplaces"} \cup {"forwardRequires"}
                              \cup {"backwardRequires"}
      BY DirectedReadings
    <3> QED BY <3>4, <3>5
  <2> QED BY <2>1, FS_Subset
<1>4. IsFiniteSet(A)
  <2> DEFINE f == [d \in D |-> <<Reading[d], j[d]>>]
  <2>1. A = {f[d] : d \in D}
    BY <1>1
  <2> HIDE DEF f, D, A
  <2> QED BY <1>3, <2>1, FiniteImage
<1>5. Cardinality(A) > 1 <=> \E x, y \in A : x # y
  BY <1>4, TwoElements
<1>6. (\E x, y \in A : x # y) <=> TwoAccepted(j)
  <2>1. \A c, d \in D : c # d => <<Reading[c], j[c]>> # <<Reading[d], j[d]>>
    BY DirectedReadings
  <2>2. ASSUME NEW c \in D, NEW d \in D, c # d
        PROVE  \E x, y \in A : x # y
    BY <1>1, <2>1, <2>2
  <2>3. ASSUME NEW x \in A, NEW y \in A, x # y
        PROVE  \E c, d \in D : c # d
    BY <1>1, <2>3
  <2>4. TwoAccepted(j) <=> \E c, d \in D : c # d
    BY DEF TwoAccepted
  <2> QED BY <2>2, <2>3, <2>4
<1>7. Tables!Contradictory(A) <=> Cardinality(A) > 1
  BY DEF Tables!Contradictory, Tables!Cardinality, Cardinality
<1> QED
  BY <1>2, <1>5, <1>6, <1>7

(* What is published.                                                      *)
LEMMA PublishedMeans ==
  ASSUME TablesAssumption, NEW j \in Amounts
  PROVE  ResolutionOf(j).type = "relation" <=>
           /\ j["unrelated"] < JudgmentThresholds.accept /\ j["publish"] >= JudgmentThresholds.accept
           /\ ~ TwoAccepted(j) /\ (SomeAccepted(j) \/ ~ Uncertain(j))
<1> DEFINE R == ResolutionOf(j)
           A == AcceptedOf(j)
           uncertain ==
             \/ \E c \in Tables!DirectedCandidates(j, Tables!LeftRule, Tables!RightRule) : c[2] >= JudgmentThresholds.review
             \/ j.duplicates >= JudgmentThresholds.review /\ j.duplicates < JudgmentThresholds.accept
<1>1. Tables!None.type = "none" /\ Tables!Review(j).type = "review"
  BY DEF Tables!None, Tables!Review
<1>2. \A e : Tables!Accepts(j, e).type = "relation"
  BY DEF Tables!Accepts
<1>3. uncertain <=> Uncertain(j)
  <2>1. (\E c \in Tables!DirectedCandidates(j, Tables!LeftRule, Tables!RightRule) : c[2] >= JudgmentThresholds.review)
          <=> \E d \in Tables!Directed : j[d] >= JudgmentThresholds.review
    <3> DEFINE C == Tables!DirectedCandidates(j, Tables!LeftRule, Tables!RightRule)
    <3>1. C = {<<Reading[d], j[d]>> : d \in Tables!Directed}
      BY Candidates
    <3> HIDE DEF C
    <3>2. \A d \in Tables!Directed : <<Reading[d], j[d]>> \in C /\ <<Reading[d], j[d]>>[2] = j[d]
      BY <3>1
    <3>3. \A c \in C : \E d \in Tables!Directed : c[2] = j[d]
      BY <3>1
    <3>4. (\E c \in C : c[2] >= JudgmentThresholds.review) <=> \E d \in Tables!Directed : j[d] >= JudgmentThresholds.review
      BY <3>2, <3>3
    <3> QED BY <3>4 DEF C
  <2> QED BY <2>1 DEF Uncertain
<1>4. R = IF j.unrelated >= JudgmentThresholds.accept THEN Tables!None
          ELSE IF j.publish < JudgmentThresholds.accept \/ Tables!Contradictory(A) THEN Tables!Review(j)
          ELSE IF A # {} THEN Tables!Accepts(j, (CHOOSE c \in A : TRUE)[1])
          ELSE IF uncertain THEN Tables!Review(j)
          ELSE Tables!Accepts(j, Tables!Relation(Tables!LeftRule, IF j.duplicates >= JudgmentThresholds.accept
                                                   THEN "overlaps" ELSE "related", Tables!RightRule))
  BY Zenon DEF Tables!ResolvePair, ResolutionOf, AcceptedOf
<1>5. (A # {} <=> SomeAccepted(j)) /\ (Tables!Contradictory(A) <=> TwoAccepted(j))
  BY Contradicting
<1>6. j.unrelated = j["unrelated"] /\ j.publish = j["publish"]
  OBVIOUS
<1>7. j["unrelated"] \in Int /\ j["publish"] \in Int
  BY DEF Amounts, Tables!Dimensions
<1> HIDE DEF R, A, uncertain
<1>8. CASE j["unrelated"] >= JudgmentThresholds.accept
  BY <1>1, <1>4, <1>6, <1>7, <1>8 DEF TablesAssumption, R
<1>9. CASE j["unrelated"] < JudgmentThresholds.accept
  <2>1. CASE j["publish"] < JudgmentThresholds.accept \/ TwoAccepted(j)
    BY <1>1, <1>4, <1>5, <1>6, <1>7, <1>9, <2>1 DEF TablesAssumption, R
  <2>2. CASE ~ (j["publish"] < JudgmentThresholds.accept \/ TwoAccepted(j))
    <3>1. ~ (j.unrelated >= JudgmentThresholds.accept) /\ j["publish"] >= JudgmentThresholds.accept
      BY <1>6, <1>7, <1>9, <2>2 DEF TablesAssumption
    <3>2. R.type = "relation" <=> (SomeAccepted(j) \/ ~ Uncertain(j))
      BY <1>1, <1>2, <1>3, <1>4, <1>5, <1>6, <2>2, <3>1
    <3> QED BY <1>9, <2>2, <3>1, <3>2 DEF R
  <2> QED BY <2>1, <2>2
<1> QED
  BY <1>7, <1>8, <1>9 DEF TablesAssumption

TablesInv ==
  /\ judgment \in Amounts
  /\ scoredRelations \subseteq Scoreds /\ IsFiniteSet(scoredRelations)

LEMMA TablesInitInv == Tables!Init => TablesInv
BY FS_EmptySet DEF Tables!Init, TablesInv, Amounts, Tables!Dimensions

LEMMA TablesNextInv ==
  ASSUME TablesAssumption, TablesInv, [Tables!Next]_(Tables!vars)
  PROVE  TablesInv'
<1>1. CASE \E d \in Tables!Dimensions : Tables!Raise(d)
  BY <1>1 DEF Tables!Raise, TablesInv, Amounts
<1>2. CASE \E from, to \in Rules, kind \in {"related", "supersedes"}, strength \in Strengths :
             Tables!Add(from, kind, to, strength)
  <2>1. PICK from, to \in Rules, kind \in {"related", "supersedes"}, strength \in Strengths :
               Tables!Add(from, kind, to, strength)
    BY <1>2
  <2> DEFINE s == [from |-> from, kind |-> kind, to |-> to, strength |-> strength]
  <2>2. s \in Scoreds
    BY RegenerationAssumption DEF Scoreds, TablesAssumption, Kinds, DirectedKinds, UndirectedKinds
  <2>3. scoredRelations' = scoredRelations \cup {s} /\ judgment' = judgment
    BY <2>1 DEF Tables!Add
  <2> HIDE DEF s
  <2>4. IsFiniteSet(scoredRelations')
    BY <2>3, FS_AddElement DEF TablesInv
  <2> QED
    BY <2>2, <2>3, <2>4 DEF TablesInv
<1>3. CASE UNCHANGED Tables!vars
  BY <1>3 DEF Tables!vars, TablesInv
<1> QED
  BY <1>1, <1>2, <1>3 DEF Tables!Next

(* Once a probability has risen.                                           *)
LEMMA MoreDoubt ==
  ASSUME TablesAssumption, NEW j \in Amounts, NEW k \in Amounts, NEW d \in Tables!Dimensions,
         k = [j EXCEPT ![d] = @ + 1], d \in {"unrelated"} \cup Tables!Directed,
         ResolutionOf(j).type # "relation", ResolutionOf(k).type = "relation"
  PROVE  /\ d \in Tables!Directed /\ k[d] = JudgmentThresholds.accept
         /\ \A c \in Tables!Directed \ {d} : j[c] < JudgmentThresholds.accept
<1>1. JudgmentThresholds.accept \in Int /\ JudgmentThresholds.review \in Int
  BY DEF TablesAssumption
<1>2. /\ \A c \in Tables!Dimensions : j[c] \in Int
      /\ \A c \in Tables!Dimensions : k[c] = IF c = d THEN j[c] + 1 ELSE j[c]
  BY DEF Amounts
<1>3. /\ Tables!Directed \subseteq Tables!Dimensions
      /\ {"unrelated", "publish", "duplicates"} \subseteq Tables!Dimensions
      /\ Tables!Directed \cap {"unrelated", "publish", "duplicates"} = {}
  BY DEF Tables!Directed, Tables!Dimensions
<1>4. /\ k["unrelated"] < JudgmentThresholds.accept /\ k["publish"] >= JudgmentThresholds.accept
      /\ ~ TwoAccepted(k) /\ (SomeAccepted(k) \/ ~ Uncertain(k))
  BY PublishedMeans
<1>5. k["publish"] = j["publish"] /\ k["duplicates"] = j["duplicates"]
  BY <1>2, <1>3
<1>6. j["unrelated"] < JudgmentThresholds.accept /\ j["publish"] >= JudgmentThresholds.accept
  BY <1>1, <1>2, <1>3, <1>4, <1>5
<1>7. ~ TwoAccepted(j)
  BY <1>1, <1>2, <1>3, <1>4 DEF TwoAccepted
<1>8. ~ SomeAccepted(j) /\ Uncertain(j)
  BY <1>6, <1>7, PublishedMeans
<1>9. Uncertain(k)
  BY <1>1, <1>2, <1>3, <1>5, <1>8 DEF Uncertain
<1>10. PICK c \in Tables!Directed : k[c] >= JudgmentThresholds.accept
  BY <1>4, <1>9 DEF SomeAccepted
<1>11. \A e \in Tables!Directed : j[e] < JudgmentThresholds.accept
  BY <1>1, <1>2, <1>3, <1>8 DEF SomeAccepted
<1>12. c = d
  BY <1>1, <1>2, <1>3, <1>10, <1>11
<1> QED
  BY <1>1, <1>2, <1>3, <1>10, <1>11, <1>12

(* PairDecisions.tla by itself and as a part of the instance say the same. *)
LEMMA SamePairs ==
  /\ Tables!Directed = Directed
  /\ \A j : ResolvePair(j, LeftRule, RightRule, JudgmentThresholds) = ResolutionOf(j)
<1>1. Tables!Directed = Directed
  BY DEF Tables!Directed, Directed, Tables!Dimensions, Dimensions
<1>2. \A from, kind, to : Tables!Relation(from, kind, to) = Relation(from, kind, to)
  BY DEF Tables!Relation, Relation
<1>3. \A j : /\ Tables!None = None /\ Tables!Review(j) = Review(j)
             /\ \A e : Tables!Accepts(j, e) = Accepts(j, e)
  BY DEF Tables!None, None, Tables!Review, Review, Tables!Accepts, Accepts
<1>4. \A j : Tables!DirectedCandidates(j, 1, 2) = DirectedCandidates(j, 1, 2)
  BY <1>2 DEF Tables!DirectedCandidates, DirectedCandidates
<1>5. \A S : Tables!Contradictory(S) <=> Contradictory(S)
  BY DEF Tables!Contradictory, Contradictory, Tables!Cardinality, Cardinality
<1>6. ASSUME NEW j PROVE ResolvePair(j, 1, 2, JudgmentThresholds) = Tables!ResolvePair(j, 1, 2, JudgmentThresholds)
  <2> DEFINE C == DirectedCandidates(j, 1, 2)
             A == {c \in C : c[2] >= JudgmentThresholds.accept}
             uncertain ==
               \/ \E c \in C : c[2] >= JudgmentThresholds.review
               \/ j.duplicates >= JudgmentThresholds.review /\ j.duplicates < JudgmentThresholds.accept
             link == IF j.duplicates >= JudgmentThresholds.accept THEN "overlaps" ELSE "related"
  <2>1. ResolvePair(j, 1, 2, JudgmentThresholds) =
          IF j.unrelated >= JudgmentThresholds.accept THEN None
          ELSE IF j.publish < JudgmentThresholds.accept \/ Contradictory(A) THEN Review(j)
          ELSE IF A # {} THEN Accepts(j, (CHOOSE c \in A : TRUE)[1])
          ELSE IF uncertain THEN Review(j) ELSE Accepts(j, Relation(1, link, 2))
    BY Zenon DEF ResolvePair
  <2> DEFINE D == Tables!DirectedCandidates(j, 1, 2)
             B == {c \in D : c[2] >= JudgmentThresholds.accept}
             doubtful ==
               \/ \E c \in D : c[2] >= JudgmentThresholds.review
               \/ j.duplicates >= JudgmentThresholds.review /\ j.duplicates < JudgmentThresholds.accept
  <2>2. Tables!ResolvePair(j, 1, 2, JudgmentThresholds) =
          IF j.unrelated >= JudgmentThresholds.accept THEN Tables!None
          ELSE IF j.publish < JudgmentThresholds.accept \/ Tables!Contradictory(B) THEN Tables!Review(j)
          ELSE IF B # {} THEN Tables!Accepts(j, (CHOOSE c \in B : TRUE)[1])
          ELSE IF doubtful THEN Tables!Review(j) ELSE Tables!Accepts(j, Tables!Relation(1, link, 2))
    BY Zenon DEF Tables!ResolvePair
  <2>3. D = C
    BY <1>4
  <2> HIDE DEF C, D
  <2>4. B = A /\ (doubtful <=> uncertain)
    BY <2>3
  <2> HIDE DEF A, B, uncertain, doubtful, link
  <2> QED
    BY <1>2, <1>3, <1>5, <2>1, <2>2, <2>4
<1> QED
  BY <1>1, <1>6 DEF ResolutionOf, Tables!LeftRule, Tables!RightRule, LeftRule, RightRule

(* More evidence against a link, or for one more directed reading, never   *)
(* turns a pair that was not published into a published one, the first     *)
(* directed reading to be accepted aside: whatever the thresholds are.     *)
THEOREM DoubtKeepsBack ==
  ASSUME TablesAssumption
  PROVE  Tables!Spec => DoubtNeverPublishes
<1>1. TablesInv /\ [Tables!Next]_(Tables!vars) => [~ DoubtPublishes]_<<judgment, scoredRelations>>
  <2> SUFFICES ASSUME TablesInv, [Tables!Next]_(Tables!vars), DoubtPublishes,
                      ~ UNCHANGED <<judgment, scoredRelations>>
               PROVE  FALSE
    OBVIOUS
  <2>1. PICK d \in {"unrelated"} \cup Tables!Directed :
          /\ judgment'[d] > judgment[d]
          /\ Resolution.type # "relation" /\ Resolution'.type = "relation"
          /\ ~ (d \in Tables!Directed /\ judgment'[d] = JudgmentThresholds.accept
                 /\ \A c \in Tables!Directed \ {d} : judgment[c] < JudgmentThresholds.accept)
    BY SamePairs DEF DoubtPublishes
  <2>2. judgment' \in Amounts /\ judgment \in Amounts
    BY TablesNextInv DEF TablesInv
  <2>3. d \in Tables!Dimensions
    BY DEF Tables!Directed, Tables!Dimensions
  <2>4. judgment' = [judgment EXCEPT ![d] = @ + 1]
    <3>1. judgment[d] \in Nat
      BY <2>2, <2>3 DEF Amounts
    <3>2. judgment' # judgment
      BY <2>1, <3>1
    <3>3. PICK e \in Tables!Dimensions : judgment' = [judgment EXCEPT ![e] = @ + 1]
      BY <3>2 DEF Tables!vars, Tables!Next, Tables!Raise, Tables!Add
    <3>4. e = d
      BY <2>1, <2>2, <2>3, <3>1, <3>3 DEF Amounts
    <3> QED BY <3>3, <3>4
  <2>5. ResolutionOf(judgment).type # "relation" /\ ResolutionOf(judgment').type = "relation"
    BY <2>1, SamePairs DEF Resolution
  <2>6. /\ d \in Tables!Directed /\ judgment'[d] = JudgmentThresholds.accept
        /\ \A c \in Tables!Directed \ {d} : judgment[c] < JudgmentThresholds.accept
    BY <2>2, <2>3, <2>4, <2>5, MoreDoubt
  <2> QED BY <2>1, <2>6
<1>2. TablesInv /\ [Tables!Next]_(Tables!vars) => TablesInv'
  BY TablesNextInv
<1> QED
  BY <1>1, <1>2, TablesInitInv, PTL DEF Tables!Spec, Tables!vars, DoubtNeverPublishes

(* The cap makes the greedy choice from the scored relations of the run.   *)
THEOREM ScoredAreCapped ==
  ASSUME TablesAssumption
  PROVE  Tables!Spec => []ScoredCapIsGreedy
<1>1. TablesInv => ScoredCapIsGreedy
  BY CapIsTheGreedyChoice DEF TablesInv, TablesAssumption, ScoredCapIsGreedy
<1>2. TablesInv /\ [Tables!Next]_(Tables!vars) => TablesInv'
  BY TablesNextInv
<1> QED
  BY <1>1, <1>2, TablesInitInv, PTL DEF Tables!Spec
=============================================================================
